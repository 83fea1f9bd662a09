------------------------ MODULE StatusSync_proofs --------------------------
(***************************************************************************)
(* Proofs about StatusSync: what the sort of the addresses returns, type   *)
(* correctness, and that only addresses of selecting services are written. *)
(***************************************************************************)
EXTENDS StatusSync, FiniteSetTheorems, TLAPS

\* What a status consists of.
Entries == [hostname : Nat, ip : Nat]

Statuses == Seq(Entries)

Services == [type : {"NodePort", "ClusterIP", "ExternalName", "LoadBalancer"},
             selector : SUBSET (Nat \X Nat), addr : Nat, isIP : BOOLEAN]
-----------------------------------------------------------------------------
(* The sort.                                                               *)

\* The entries before an entry, which say where sort.SliceStable puts it.
Earlier(list, places, i) == {j \in places : GoesFirst(list, j, i)}

\* lessLoadBalancerIngress and the places order the entries totally.
LEMMA GoesFirstOrders ==
    ASSUME NEW places \in SUBSET Nat, NEW list, \A i \in places : list[i] \in Entries
    PROVE  /\ \A i \in places : ~GoesFirst(list, i, i)
           /\ \A i, j \in places : i # j => GoesFirst(list, i, j) \/ GoesFirst(list, j, i)
           /\ \A i, j, k \in places :
                GoesFirst(list, i, j) /\ GoesFirst(list, j, k) => GoesFirst(list, i, k)
<1>1. \A i \in places : /\ i \in Nat /\ list[i] \in Entries
                        /\ list[i].hostname \in Nat /\ list[i].ip \in Nat
    BY DEF Entries
<1>2. ASSUME NEW a \in Entries, NEW b \in Entries, a.hostname = b.hostname, a.ip = b.ip
      PROVE  a = b
    BY <1>2 DEF Entries
<1>3. \A i \in places : ~GoesFirst(list, i, i)
    BY <1>1 DEF GoesFirst, lessLoadBalancerIngress
<1>4. \A i, j \in places : i # j => GoesFirst(list, i, j) \/ GoesFirst(list, j, i)
  <2> SUFFICES ASSUME NEW i \in places, NEW j \in places, i # j
               PROVE  GoesFirst(list, i, j) \/ GoesFirst(list, j, i)
      OBVIOUS
  <2>1. CASE list[i] = list[j]
      BY <2>1, <1>1 DEF GoesFirst
  <2>2. CASE list[i].hostname # list[j].hostname \/ list[i].ip # list[j].ip
      BY <2>2, <1>1 DEF GoesFirst, lessLoadBalancerIngress
  <2> QED  BY <2>1, <2>2, <1>1, <1>2
<1>5. \A i, j, k \in places :
        GoesFirst(list, i, j) /\ GoesFirst(list, j, k) => GoesFirst(list, i, k)
    BY <1>1 DEF GoesFirst, lessLoadBalancerIngress
<1> QED  BY <1>3, <1>4, <1>5

\* An entry of each rank exists: the sort loses and invents nothing.
LEMMA EachRankOnce ==
    ASSUME NEW places \in SUBSET Nat, IsFiniteSet(places),
           NEW list, \A i \in places : list[i] \in Entries,
           NEW k \in 1 .. Cardinality(places)
    PROVE  \E i \in places : Cardinality(Earlier(list, places, i)) = k - 1
<1> DEFINE n       == Cardinality(places)
           rank(i) == Cardinality(Earlier(list, places, i))
           R       == [i \in places |-> rank(i) + 1]
<1>1. n \in Nat
    BY FS_CardinalityType
<1>2. \A i \in places : /\ IsFiniteSet(Earlier(list, places, i))
                        /\ rank(i) \in Nat /\ rank(i) < n
  <2> SUFFICES ASSUME NEW i \in places
               PROVE  /\ IsFiniteSet(Earlier(list, places, i))
                      /\ rank(i) \in Nat /\ rank(i) < n
      OBVIOUS
  <2>1. Earlier(list, places, i) \subseteq places /\ i \notin Earlier(list, places, i)
      BY GoesFirstOrders DEF Earlier
  <2>2. /\ IsFiniteSet(Earlier(list, places, i)) /\ rank(i) <= n
        /\ rank(i) = n => Earlier(list, places, i) = places
      BY <2>1, FS_Subset
  <2>3. rank(i) \in Nat
      BY <2>2, FS_CardinalityType
  <2> HIDE DEF rank, n
  <2> QED  BY <2>1, <2>2, <2>3, <1>1
<1>3. \A i, j \in places : GoesFirst(list, i, j) => rank(i) < rank(j)
  <2> SUFFICES ASSUME NEW i \in places, NEW j \in places, GoesFirst(list, i, j)
               PROVE  rank(i) < rank(j)
      OBVIOUS
  <2>1. Earlier(list, places, i) \subseteq Earlier(list, places, j)
      BY GoesFirstOrders DEF Earlier
  <2>2. i \in Earlier(list, places, j) /\ i \notin Earlier(list, places, i)
      BY GoesFirstOrders DEF Earlier
  <2>3. /\ rank(i) <= rank(j)
        /\ rank(i) = rank(j) => Earlier(list, places, i) = Earlier(list, places, j)
      BY <2>1, <1>2, FS_Subset
  <2>4. rank(i) \in Nat /\ rank(j) \in Nat
      BY <1>2
  <2> HIDE DEF rank
  <2> QED  BY <2>2, <2>3, <2>4
<1>4. R \in [places -> 1 .. n]
  <2> HIDE DEF rank, n
  <2> QED  BY <1>1, <1>2
<1>5. \A i, j \in places : R[i] = R[j] => i = j
  <2> SUFFICES ASSUME NEW i \in places, NEW j \in places, i # j
               PROVE  R[i] # R[j]
      OBVIOUS
  <2>1. rank(i) < rank(j) \/ rank(j) < rank(i)
      BY <1>3, GoesFirstOrders
  <2>2. rank(i) \in Nat /\ rank(j) \in Nat
      BY <1>2
  <2> HIDE DEF rank
  <2> QED  BY <2>1, <2>2
<1>6. IsFiniteSet(1 .. n) /\ Cardinality(1 .. n) = n
  <2> HIDE DEF n
  <2> QED  BY <1>1, FS_Interval
<1>7. R \in Injection(places, 1 .. n)
  <2> HIDE DEF R, n
  <2> QED  BY <1>4, <1>5 DEF Injection, IsInjective
<1>8. R \in Surjection(places, 1 .. n)
    BY <1>6, <1>7, FS_Injection
<1>9. PICK i \in places : R[i] = k
  <2> HIDE DEF R, n
  <2>1. k \in 1 .. n
      BY DEF n
  <2> QED  BY <1>8, <2>1 DEF Surjection
<1> HIDE DEF n
<1>10. rank(i) + 1 = k /\ rank(i) \in Nat
    BY <1>9, <1>2
<1> HIDE DEF rank, R
<1>11. rank(i) = k - 1
    BY <1>10, <1>1
<1> QED  BY <1>11 DEF rank

\* sort.SliceStable returns a list as long as its argument, each entry of which is one of the argument's.
LEMMA SortKeepsEntries ==
    ASSUME NEW places \in SUBSET Nat, IsFiniteSet(places),
           NEW list, \A i \in places : list[i] \in Entries
    PROVE  /\ SliceStable(list, places) \in Statuses
           /\ Len(SliceStable(list, places)) = Cardinality(places)
           /\ \A k \in DOMAIN SliceStable(list, places) :
                \E i \in places : SliceStable(list, places)[k] = list[i]
<1> DEFINE n     == Cardinality(places)
           at(k) == CHOOSE i \in places : Cardinality({j \in places : GoesFirst(list, j, i)}) = k - 1
<1>1. n \in Nat
    BY FS_CardinalityType
<1>2. \A k \in 1 .. n : at(k) \in places
    BY EachRankOnce DEF Earlier
<1>3. SliceStable(list, places) = [k \in 1 .. n |-> list[at(k)]]
    BY DEF SliceStable
<1> HIDE DEF n, at
<1>4. SliceStable(list, places) \in Seq(Entries) /\ Len(SliceStable(list, places)) = n
  <2>1. SliceStable(list, places) \in [1 .. n -> Entries]
      BY <1>2, <1>3
  <2> QED  BY <1>1, <2>1
<1>5. \A k \in 1 .. n : SliceStable(list, places)[k] = list[at(k)]
    BY <1>3
<1>6. DOMAIN SliceStable(list, places) = 1 .. n
    BY <1>3
<1> QED  BY <1>2, <1>4, <1>5, <1>6 DEF n, Statuses
-----------------------------------------------------------------------------
(* Type correctness.                                                       *)

Copies == [rv : Nat, status : Statuses]

Jobs == [at : {"off", "get", "put"}, rv : Nat, addrs : Statuses]

Typed ==
    /\ cluster \in [Ingresses -> Copies]
    /\ version \in Nat
    /\ rev \in 0 .. MaxRev
    /\ services \in ServiceLists
    /\ life \in [Replicas -> {"off", "up", "stopping"}]
    /\ labels \in [Replicas -> {{}, PodLabels}]
    /\ store \in [Replicas -> [Ingresses -> Copies]]
    /\ job \in [Replicas -> [Agents -> [Ingresses -> Jobs]]]

\* Nobody has a version the API server has not given out.
Versions ==
    /\ \A i \in Ingresses : cluster[i].rv <= version
    /\ \A r \in Replicas, i \in Ingresses : store[r][i].rv <= version

\* Updates are under way only where somebody waits for them.
Batches ==
    /\ \A r \in Replicas, i \in Ingresses : job[r]["worker"][i] # Idle => life[r] # "off"
    /\ \A r \in Replicas, i \in Ingresses : job[r]["shutdown"][i] # Idle => life[r] = "stopping"

StatusInv == Typed /\ Versions /\ Batches

\* The empty values have their types.
LEMMA EmptyValues ==
    /\ NoIngress \in Copies /\ NoIngress.rv = 0
    /\ Idle \in Jobs
    /\ EmptyAddress \in Statuses
    /\ NoJobs \in [Agents -> [Ingresses -> Jobs]]
    /\ \A a \in Agents, i \in Ingresses : NoJobs[a][i] = Idle
<1>1. <<>> \in Statuses
    BY DEF Statuses
<1>2. NoIngress \in Copies /\ NoIngress.rv = 0
    BY <1>1 DEF NoIngress, Copies
<1>3. Idle \in Jobs
    BY <1>1 DEF Idle, Jobs
<1>4. EmptyAddress \in Statuses
  <2>1. [hostname |-> NoAddr, ip |-> NoAddr] \in Entries
      BY DEF Entries, NoAddr
  <2> QED  BY <2>1 DEF EmptyAddress, Statuses
<1>5. NoJobs \in [Agents -> [Ingresses -> Jobs]]
    BY <1>3 DEF NoJobs
<1>6. \A a \in Agents, i \in Ingresses : NoJobs[a][i] = Idle
    BY DEF NoJobs
<1> QED  BY <1>2, <1>3, <1>4, <1>5, <1>6

\* sliceToLoadBalancerIngress returns entries of services that count for GetAddresses.
LEMMA AddressesOfServices ==
    ASSUME NEW podLabels, services \in ServiceLists
    PROVE  /\ Addresses(podLabels) \in Statuses
           /\ \A k \in DOMAIN Addresses(podLabels) :
                \E i \in GetAddresses(podLabels, services) :
                    Addresses(podLabels)[k] = LoadBalancerIngress(services[i])
<1> DEFINE list   == [i \in DOMAIN services |-> LoadBalancerIngress(services[i])]
           places == GetAddresses(podLabels, services)
<1>1. services \in Seq(Services)
    BY StatusAssumption DEF Services
<1>2. /\ Len(services) \in Nat
      /\ DOMAIN services = 1 .. Len(services)
      /\ \A i \in DOMAIN services : services[i] \in Services
    BY <1>1
<1>3. places \subseteq DOMAIN services
    BY DEF GetAddresses
<1>4. places \in SUBSET Nat /\ IsFiniteSet(places)
  <2>1. IsFiniteSet(1 .. Len(services))
      BY <1>2, FS_Interval
  <2> HIDE DEF places
  <2> QED  BY <1>2, <1>3, <2>1, FS_Subset
<1>5. \A i \in DOMAIN services : list[i] \in Entries
  <2> SUFFICES ASSUME NEW i \in DOMAIN services
               PROVE  LoadBalancerIngress(services[i]) \in Entries
      OBVIOUS
  <2>1. services[i].addr \in Nat
      BY <1>2 DEF Services
  <2> QED  BY <2>1 DEF LoadBalancerIngress, Entries, NoAddr
<1>6. \A i \in places : list[i] \in Entries /\ list[i] = LoadBalancerIngress(services[i])
    BY <1>3, <1>5
<1>7. Addresses(podLabels) = SliceStable(list, places)
    BY DEF Addresses, sliceToLoadBalancerIngress
<1> HIDE DEF list, places
<1>8. /\ SliceStable(list, places) \in Statuses
      /\ \A k \in DOMAIN SliceStable(list, places) :
            \E i \in places : SliceStable(list, places)[k] = list[i]
    BY <1>4, <1>6, SortKeepsEntries
<1> QED  BY <1>6, <1>7, <1>8 DEF places

SetJob(r, a, i, j) == job' = [job EXCEPT ![r][a][i] = j]

\* What one update's change of its own entry does to the entries of all.
LEMMA OneJobChanges ==
    ASSUME Typed, NEW r \in Replicas, NEW a \in Agents, NEW i \in Ingresses, NEW j \in Jobs,
           SetJob(r, a, i, j)
    PROVE  /\ job' \in [Replicas -> [Agents -> [Ingresses -> Jobs]]]
           /\ job'[r][a][i] = j
           /\ \A q \in Replicas, b \in Agents, h \in Ingresses :
                <<q, b, h>> # <<r, a, i>> => job'[q][b][h] = job[q][b][h]
<1>1. job \in [Replicas -> [Agents -> [Ingresses -> Jobs]]]
    BY DEF Typed
<1>2. job[r] \in [Agents -> [Ingresses -> Jobs]] /\ job[r][a] \in [Ingresses -> Jobs]
    BY <1>1
<1>3. [job[r][a] EXCEPT ![i] = j] \in [Ingresses -> Jobs]
    BY <1>2
<1>4. [job[r] EXCEPT ![a] = [job[r][a] EXCEPT ![i] = j]] \in [Agents -> [Ingresses -> Jobs]]
    BY <1>2, <1>3
<1>5. job' = [job EXCEPT ![r] = [job[r] EXCEPT ![a] = [job[r][a] EXCEPT ![i] = j]]]
    BY <1>1, <1>2 DEF SetJob
<1>6. job' \in [Replicas -> [Agents -> [Ingresses -> Jobs]]]
    BY <1>1, <1>4, <1>5
<1> QED  BY <1>1, <1>2, <1>5, <1>6

\* What updateIngStatuses does to the entries of all: one agent has a new batch.
LEMMA OneBatchChanges ==
    ASSUME Typed, NEW r \in Replicas, NEW a \in Agents, NEW addrs \in Statuses,
           updateIngStatuses(r, a, addrs)
    PROVE  /\ job' \in [Replicas -> [Agents -> [Ingresses -> Jobs]]]
           /\ \A i \in Ingresses : job'[r][a][i] \in {Job(addrs), Idle}
           /\ \A q \in Replicas, b \in Agents, h \in Ingresses :
                <<q, b>> # <<r, a>> => job'[q][b][h] = job[q][b][h]
<1> DEFINE batch == [i \in Ingresses |-> IF Differs(r, i, addrs) THEN Job(addrs) ELSE Idle]
<1>1. job \in [Replicas -> [Agents -> [Ingresses -> Jobs]]]
    BY DEF Typed
<1>2. Job(addrs) \in Jobs
    BY DEF Job, Jobs
<1>3. batch \in [Ingresses -> Jobs] /\ \A i \in Ingresses : batch[i] \in {Job(addrs), Idle}
  <2> HIDE DEF Differs
  <2> QED  BY <1>2, EmptyValues
<1>4. job' = [job EXCEPT ![r][a] = batch]
    BY DEF updateIngStatuses
<1> HIDE DEF batch
<1>5. job[r] \in [Agents -> [Ingresses -> Jobs]]
    BY <1>1
<1>6. [job[r] EXCEPT ![a] = batch] \in [Agents -> [Ingresses -> Jobs]]
    BY <1>3, <1>5
<1>7. job' = [job EXCEPT ![r] = [job[r] EXCEPT ![a] = batch]]
    BY <1>1, <1>4
<1>8. job' \in [Replicas -> [Agents -> [Ingresses -> Jobs]]]
    BY <1>1, <1>6, <1>7
<1>9. job'[r][a] = batch
    BY <1>1, <1>5, <1>7
<1> QED  BY <1>1, <1>3, <1>5, <1>7, <1>8, <1>9

\* A restart has the type and no update under way.
LEMMA InitStatusInv == Init => StatusInv
<1> SUFFICES ASSUME Init PROVE StatusInv
    OBVIOUS
<1>1. Typed
  <2>1. cluster \in [Ingresses -> Copies] /\ store \in [Replicas -> [Ingresses -> Copies]]
      BY EmptyValues DEF Init
  <2>2. job \in [Replicas -> [Agents -> [Ingresses -> Jobs]]]
      BY EmptyValues DEF Init
  <2>3. rev \in 0 .. MaxRev /\ version \in Nat
      BY StatusAssumption DEF Init
  <2>4. /\ services \in ServiceLists /\ labels \in [Replicas -> {{}, PodLabels}]
        /\ life \in [Replicas -> {"off", "up", "stopping"}]
      BY DEF Init
  <2> QED  BY <2>1, <2>2, <2>3, <2>4 DEF Typed
<1>2. Versions
    BY EmptyValues DEF Init, Versions
<1>3. Batches
  <2>1. \A r \in Replicas, a \in Agents, i \in Ingresses : job[r][a][i] = Idle
      BY EmptyValues DEF Init
  <2> QED  BY <2>1 DEF Batches, Agents
<1> QED  BY <1>1, <1>2, <1>3 DEF StatusInv

\* Changes of ingresses and services by others.
LEMMA OthersKeepInv ==
    ASSUME StatusInv,
           \/ \E i \in Ingresses : ChangeIngress(i) \/ DeleteIngress(i)
           \/ \E l \in ServiceLists : ChangeServices(l)
    PROVE  StatusInv'
<1> USE DEF StatusInv
<1>0. MaxRev \in Nat /\ rev \in Nat /\ version \in Nat
    BY StatusAssumption DEF Typed
<1>1. ASSUME NEW i \in Ingresses, ChangeIngress(i) PROVE StatusInv'
  <2> USE DEF ChangeIngress, replicaVars
  <2>1. cluster[i] \in Copies
      BY DEF Typed
  <2>2. [rv |-> version + 1, status |-> cluster[i].status] \in Copies
      BY <1>0, <2>1 DEF Copies
  <2>3. cluster' = [cluster EXCEPT ![i] = [rv |-> version + 1, status |-> cluster[i].status]]
      BY <1>1
  <2>4. cluster' \in [Ingresses -> Copies]
      BY <2>2, <2>3 DEF Typed
  <2>5. Typed'
      BY <1>0, <1>1, <2>4 DEF Typed
  <2>6. Versions'
    <3>1. \A h \in Ingresses : cluster[h].rv \in Nat
        BY DEF Typed, Copies
    <3>2. \A r \in Replicas, h \in Ingresses : store[r][h].rv \in Nat
        BY DEF Typed, Copies
    <3>3. \A h \in Ingresses : cluster'[h].rv <= version + 1
        BY <1>0, <2>3, <3>1 DEF Typed, Versions
    <3>4. \A r \in Replicas, h \in Ingresses : store[r][h].rv <= version + 1
        BY <1>0, <3>2 DEF Versions
    <3> QED  BY <1>1, <3>3, <3>4 DEF Versions
  <2>7. Batches'
      BY <1>1 DEF Batches
  <2> QED  BY <2>5, <2>6, <2>7
<1>2. ASSUME NEW i \in Ingresses, DeleteIngress(i) PROVE StatusInv'
  <2> USE DEF DeleteIngress, replicaVars
  <2>1. cluster' = [cluster EXCEPT ![i] = NoIngress]
      BY <1>2
  <2>2. cluster' \in [Ingresses -> Copies]
      BY <2>1, EmptyValues DEF Typed
  <2>3. Typed'
      BY <1>0, <1>2, <2>2 DEF Typed
  <2>4. Versions'
      BY <1>0, <1>2, <2>1, EmptyValues DEF Versions, Typed
  <2>5. Batches'
      BY <1>2 DEF Batches
  <2> QED  BY <2>3, <2>4, <2>5
<1>3. ASSUME NEW l \in ServiceLists, ChangeServices(l) PROVE StatusInv'
    BY <1>0, <1>3 DEF ChangeServices, replicaVars, apiVars, Typed, Versions, Batches
<1> QED  BY <1>1, <1>2, <1>3

\* The worker takes a copy of an ingress, or begins a batch.
LEMMA WorkerKeepsInv ==
    ASSUME StatusInv, NEW r \in Replicas,
           syncStatus(r) \/ \E i \in Ingresses : Deliver(r, i)
    PROVE  StatusInv'
<1> USE DEF StatusInv
<1>1. CASE syncStatus(r)
  <2> USE DEF syncStatus, replicaVars, apiVars
  <2>1. Addresses(labels[r]) \in Statuses
      BY AddressesOfServices DEF Typed
  <2>2. "worker" \in Agents /\ "shutdown" \in Agents
      BY DEF Agents
  <2>3. updateIngStatuses(r, "worker", Addresses(labels[r]))
      BY <1>1
  <2> HIDE DEF syncStatus
  <2>4. /\ job' \in [Replicas -> [Agents -> [Ingresses -> Jobs]]]
        /\ \A q \in Replicas, b \in Agents, h \in Ingresses :
              <<q, b>> # <<r, "worker">> => job'[q][b][h] = job[q][b][h]
      BY <2>1, <2>2, <2>3, OneBatchChanges
  <2>5. UNCHANGED <<cluster, version, rev, services, life, labels, store>> /\ life[r] # "off"
      BY <1>1 DEF syncStatus, WorkerFree
  <2>6. Typed'
      BY <2>4, <2>5 DEF Typed
  <2>7. Versions'
      BY <2>5 DEF Versions
  <2>8. Batches'
      BY <2>2, <2>4, <2>5 DEF Batches
  <2> QED  BY <2>6, <2>7, <2>8
<1>2. ASSUME NEW i \in Ingresses, Deliver(r, i) PROVE StatusInv'
  <2>1. /\ store' = [store EXCEPT ![r][i] = cluster[i]]
        /\ UNCHANGED <<cluster, version, rev, services, life, labels, job>>
      BY <1>2 DEF Deliver, replicaVars, apiVars
  <2>2. /\ store' \in [Replicas -> [Ingresses -> Copies]]
        /\ \A q \in Replicas, h \in Ingresses : store'[q][h] \in {store[q][h], cluster[h]}
      BY <2>1 DEF Typed
  <2>3. Typed'
      BY <2>1, <2>2 DEF Typed
  <2>4. Versions'
    <3> SUFFICES ASSUME NEW q \in Replicas, NEW h \in Ingresses
                 PROVE  cluster[h].rv <= version /\ store'[q][h].rv <= version
        BY <2>1 DEF Versions
    <3>1. store'[q][h] = store[q][h] \/ store'[q][h] = cluster[h]
        BY <2>2
    <3> QED  BY <3>1 DEF Versions
  <2>5. Batches'
      BY <2>1 DEF Batches
  <2> QED  BY <2>3, <2>4, <2>5
<1> QED  BY <1>1, <1>2

\* What a step of UpdateIngressStatus does to the entries of all: its own goes on or ends.
LEMMA UpdateChangesJob ==
    ASSUME StatusInv, NEW r \in Replicas, NEW a \in Agents, NEW i \in Ingresses,
           Update(r, a, i) \/ ApiError(r, a, i)
    PROVE  /\ job' \in [Replicas -> [Agents -> [Ingresses -> Jobs]]]
           /\ job[r][a][i] # Idle
           /\ job'[r][a][i] = Idle \/ job'[r][a][i].addrs = job[r][a][i].addrs
           /\ \A q \in Replicas, b \in Agents, h \in Ingresses :
                <<q, b, h>> # <<r, a, i>> => job'[q][b][h] = job[q][b][h]
           /\ UNCHANGED <<rev, services, life, labels, store>>
<1> USE DEF StatusInv
<1>1. job[r][a][i] \in Jobs
    BY DEF Typed
<1>2. cluster[i] \in Copies
    BY DEF Typed
<1>3. job[r][a][i].at # "off" => job[r][a][i] # Idle
    BY DEF Idle
<1>4. CASE GetIngress(r, a, i)
  <2> DEFINE j == [at |-> "put", rv |-> cluster[i].rv, addrs |-> job[r][a][i].addrs]
  <2>1. j \in Jobs /\ j.addrs = job[r][a][i].addrs
      BY <1>1, <1>2 DEF Jobs, Copies
  <2>2. SetJob(r, a, i, j)
      BY <1>4 DEF GetIngress, SetJob
  <2>3. job[r][a][i].at = "get" /\ UNCHANGED <<rev, services, life, labels, store>>
      BY <1>4 DEF GetIngress, replicaVars
  <2> HIDE DEF j
  <2>4. /\ job' \in [Replicas -> [Agents -> [Ingresses -> Jobs]]]
        /\ job'[r][a][i] = j
        /\ \A q \in Replicas, b \in Agents, h \in Ingresses :
              <<q, b, h>> # <<r, a, i>> => job'[q][b][h] = job[q][b][h]
      BY <2>1, <2>2, OneJobChanges
  <2>5. job[r][a][i] # Idle
      BY <1>3, <2>3
  <2> HIDE DEF StatusInv
  <2> QED  BY <2>1, <2>3, <2>4, <2>5
<1>5. CASE /\ SetJob(r, a, i, Idle) /\ job[r][a][i].at # "off"
           /\ UNCHANGED <<rev, services, life, labels, store>>
  <2>1. /\ job' \in [Replicas -> [Agents -> [Ingresses -> Jobs]]]
        /\ job'[r][a][i] = Idle
        /\ \A q \in Replicas, b \in Agents, h \in Ingresses :
              <<q, b, h>> # <<r, a, i>> => job'[q][b][h] = job[q][b][h]
      BY <1>5, EmptyValues, OneJobChanges
  <2>2. job[r][a][i] # Idle
      BY <1>3, <1>5
  <2> HIDE DEF StatusInv
  <2> QED  BY <1>5, <2>1, <2>2
<1>6. CASE UpdateStatus(r, a, i)
    BY <1>5, <1>6 DEF UpdateStatus, SetJob, replicaVars
<1>7. CASE UpdateRefused(r, a, i)
    BY <1>5, <1>7 DEF UpdateRefused, JobDone, SetJob, replicaVars
<1>8. CASE ApiError(r, a, i)
    BY <1>5, <1>8 DEF ApiError, JobDone, SetJob, replicaVars
<1> QED  BY <1>4, <1>6, <1>7, <1>8 DEF Update

\* What a step of UpdateIngressStatus does to the cluster: nothing, or it writes its addresses.
LEMMA UpdateWritesStatus ==
    ASSUME StatusInv, NEW r \in Replicas, NEW a \in Agents, NEW i \in Ingresses,
           Update(r, a, i) \/ ApiError(r, a, i)
    PROVE  \/ UNCHANGED <<cluster, version>>
           \/ /\ version' = version + 1
              /\ cluster' = [cluster EXCEPT ![i] =
                                [rv |-> version + 1, status |-> job[r][a][i].addrs]]
<1>1. CASE UpdateStatus(r, a, i)
    BY <1>1 DEF UpdateStatus, SetStatus, apiVars
<1>2. CASE GetIngress(r, a, i) \/ UpdateRefused(r, a, i) \/ ApiError(r, a, i)
    BY <1>2 DEF GetIngress, UpdateRefused, ApiError, apiVars
<1> QED  BY <1>1, <1>2 DEF Update

\* UpdateIngressStatus, by the worker or by Shutdown.
LEMMA UpdateKeepsInv ==
    ASSUME StatusInv, NEW r \in Replicas, NEW a \in Agents, NEW i \in Ingresses,
           Update(r, a, i) \/ ApiError(r, a, i)
    PROVE  StatusInv'
<1>0. Typed /\ Versions /\ Batches /\ version \in Nat
    BY DEF StatusInv, Typed
<1>1. /\ job' \in [Replicas -> [Agents -> [Ingresses -> Jobs]]]
      /\ job[r][a][i] # Idle
      /\ \A q \in Replicas, b \in Agents, h \in Ingresses :
            <<q, b, h>> # <<r, a, i>> => job'[q][b][h] = job[q][b][h]
      /\ UNCHANGED <<rev, services, life, labels, store>>
    BY UpdateChangesJob
<1>2. job[r][a][i].addrs \in Statuses
    BY <1>0 DEF Typed, Jobs
<1>3. /\ cluster' \in [Ingresses -> Copies] /\ version' \in Nat /\ version <= version'
      /\ \A h \in Ingresses : cluster'[h].rv <= version'
  <2>1. CASE UNCHANGED <<cluster, version>>
      BY <1>0, <2>1 DEF Typed, Versions
  <2> DEFINE c == [rv |-> version + 1, status |-> job[r][a][i].addrs]
  <2>2. CASE version' = version + 1 /\ cluster' = [cluster EXCEPT ![i] = c]
    <3>1. c \in Copies /\ c.rv = version + 1
        BY <1>0, <1>2 DEF Copies
    <3> HIDE DEF c
    <3>2. cluster' \in [Ingresses -> Copies]
        BY <1>0, <2>2, <3>1 DEF Typed
    <3>3. \A h \in Ingresses : cluster[h].rv \in Nat /\ cluster[h].rv <= version
        BY <1>0 DEF Typed, Copies, Versions
    <3>4. \A h \in Ingresses : cluster'[h] \in {c, cluster[h]}
        BY <1>0, <2>2 DEF Typed
    <3>5. ASSUME NEW h \in Ingresses PROVE cluster'[h].rv <= version'
      <4>1. CASE cluster'[h] = c
          BY <1>0, <2>2, <3>1, <4>1
      <4>2. CASE cluster'[h] = cluster[h]
        <5>1. cluster[h].rv \in Nat /\ cluster[h].rv <= version /\ version' = version + 1
            BY <2>2, <3>3
        <5> QED  BY <1>0, <4>2, <5>1
      <4> QED  BY <3>4, <4>1, <4>2
    <3> QED  BY <1>0, <2>2, <3>2, <3>5
  <2> QED  BY <2>1, <2>2, UpdateWritesStatus
<1>4. Typed'
    BY <1>0, <1>1, <1>3 DEF Typed
<1>5. Versions'
  <2>1. ASSUME NEW q \in Replicas, NEW h \in Ingresses PROVE store'[q][h].rv <= version'
    <3>1. store[q][h].rv \in Nat /\ store[q][h].rv <= version
        BY <1>0 DEF Typed, Copies, Versions
    <3>2. store'[q][h] = store[q][h]
        BY <1>1
    <3>3. version' \in Nat /\ version <= version'
        BY <1>3
    <3> QED  BY <1>0, <3>1, <3>2, <3>3
  <2> QED  BY <1>3, <2>1 DEF Versions
<1>6. Batches'
  <2>1. ASSUME NEW q \in Replicas, NEW b \in Agents, NEW h \in Ingresses, job'[q][b][h] # Idle
        PROVE  job[q][b][h] # Idle
    <3>1. CASE q = r /\ b = a /\ h = i
        BY <1>1, <3>1
    <3>2. CASE ~(q = r /\ b = a /\ h = i)
        BY <1>1, <2>1, <3>2
    <3> QED  BY <3>1, <3>2
  <2>2. "worker" \in Agents /\ "shutdown" \in Agents
      BY DEF Agents
  <2>3. life' = life
      BY <1>1
  <2> QED  BY <1>0, <2>1, <2>2, <2>3 DEF Batches
<1> QED  BY <1>4, <1>5, <1>6 DEF StatusInv

\* Start, SIGTERM, exit and crash.
LEMMA ProcessKeepsInv ==
    ASSUME StatusInv, NEW r \in Replicas, Start(r) \/ Shutdown(r) \/ Exit(r) \/ Crash(r)
    PROVE  StatusInv'
<1>0. Typed /\ Versions /\ Batches /\ version \in Nat
    BY DEF StatusInv, Typed
<1>1. CASE Start(r)
  <2>1. /\ UNCHANGED <<cluster, version, rev, services, store, job>>
        /\ life[r] = "off" /\ life' = [life EXCEPT ![r] = "up"]
      BY <1>1 DEF Start, apiVars
  <2>2. PICK pod \in {{}, PodLabels} : labels' = [labels EXCEPT ![r] = pod]
    <3>1. PICK pod \in {PodLabels} \cup (IF LookupFails THEN {{}} ELSE {}) :
              labels' = [labels EXCEPT ![r] = pod]
        BY <1>1 DEF Start
    <3>2. pod \in {{}, PodLabels}
        BY <3>1, Zenon
    <3> QED  BY <3>1, <3>2
  <2>3. Typed'
      BY <1>0, <2>1, <2>2 DEF Typed
  <2>4. Versions'
      BY <1>0, <2>1 DEF Versions
  <2>5. Batches'
      BY <1>0, <2>1 DEF Batches, Typed
  <2> QED  BY <2>3, <2>4, <2>5 DEF StatusInv
<1>2. CASE Shutdown(r)
  <2>1. /\ UNCHANGED <<cluster, version, rev, services, labels, store>>
        /\ life[r] = "up" /\ life' = [life EXCEPT ![r] = "stopping"]
        /\ updateIngStatuses(r, "shutdown", EmptyAddress)
      BY <1>2 DEF Shutdown, apiVars
  <2>2. "worker" \in Agents /\ "shutdown" \in Agents
      BY DEF Agents
  <2>3. /\ job' \in [Replicas -> [Agents -> [Ingresses -> Jobs]]]
        /\ \A q \in Replicas, b \in Agents, h \in Ingresses :
              <<q, b>> # <<r, "shutdown">> => job'[q][b][h] = job[q][b][h]
      BY <1>0, <2>1, <2>2, EmptyValues, OneBatchChanges
  <2>4. Typed'
      BY <1>0, <2>1, <2>3 DEF Typed
  <2>5. Versions'
      BY <1>0, <2>1 DEF Versions
  <2>6. Batches'
      BY <1>0, <2>1, <2>2, <2>3 DEF Batches, Typed
  <2> QED  BY <2>4, <2>5, <2>6 DEF StatusInv
<1>3. CASE End(r)
  <2>1. /\ UNCHANGED <<cluster, version, rev, services>>
        /\ life' = [life EXCEPT ![r] = "off"]
        /\ labels' = [labels EXCEPT ![r] = {}]
        /\ store' = [store EXCEPT ![r] = [i \in Ingresses |-> NoIngress]]
        /\ job' = [job EXCEPT ![r] = NoJobs]
      BY <1>3 DEF End, apiVars
  <2>2. /\ job' \in [Replicas -> [Agents -> [Ingresses -> Jobs]]]
        /\ \A b \in Agents, h \in Ingresses : job'[r][b][h] = Idle
        /\ \A q \in Replicas \ {r} : job'[q] = job[q]
      BY <1>0, <2>1, EmptyValues DEF Typed
  <2>3. /\ store' \in [Replicas -> [Ingresses -> Copies]]
        /\ \A h \in Ingresses : store'[r][h] = NoIngress
        /\ \A q \in Replicas \ {r} : store'[q] = store[q]
      BY <1>0, <2>1, EmptyValues DEF Typed
  <2>4. Typed'
      BY <1>0, <2>1, <2>2, <2>3 DEF Typed
  <2>5. Versions'
      BY <1>0, <2>1, <2>3, EmptyValues DEF Versions
  <2>6. Batches'
      BY <1>0, <2>1, <2>2 DEF Batches, Typed, Agents
  <2> QED  BY <2>4, <2>5, <2>6 DEF StatusInv
<1> QED  BY <1>1, <1>2, <1>3 DEF Exit, Crash

\* Every step keeps the invariant.
LEMMA StatusInvStep == StatusInv /\ [Next]_vars => StatusInv'
<1> SUFFICES ASSUME StatusInv, [Next]_vars PROVE StatusInv'
    OBVIOUS
<1>1. CASE UNCHANGED vars
    BY <1>1 DEF vars, StatusInv, Typed, Versions, Batches
<1>2. CASE Next
    BY <1>2, OthersKeepInv, WorkerKeepsInv, UpdateKeepsInv, ProcessKeepsInv DEF Next
<1> QED  BY <1>1, <1>2

\* The invariant implies the types, with Busy spelled out.
LEMMA StatusInvTypes == StatusInv => TypeOK
<1> SUFFICES ASSUME StatusInv PROVE TypeOK
    OBVIOUS
<1>1. \A i \in Ingresses : cluster[i].rv \in 0 .. version
    BY DEF StatusInv, Typed, Versions, Copies
<1>2. \A r \in Replicas, i \in Ingresses : store[r][i].rv \in 0 .. version
    BY DEF StatusInv, Typed, Versions, Copies
<1>3. \A r \in Replicas : /\ Busy(r, "worker") => life[r] # "off"
                          /\ Busy(r, "shutdown") => life[r] = "stopping"
    BY DEF StatusInv, Batches, Busy
<1>4. /\ life \in [Replicas -> {"off", "up", "stopping"}]
      /\ services \in ServiceLists
      /\ rev \in 0 .. MaxRev
      /\ version \in Nat /\ MaxRev \in Nat
    BY StatusAssumption DEF StatusInv, Typed
<1> QED  BY <1>1, <1>2, <1>3, <1>4 DEF TypeOK, Busy

\* Type correctness: in every reachable state nobody knows a version that was not given
\* out, and a batch of updates is under way only while its replica can wait for it.
THEOREM TypeCorrect == Spec => []TypeOK
<1>1. Spec => []StatusInv
    BY InitStatusInv, StatusInvStep, PTL DEF Spec
<1> QED  BY <1>1, StatusInvTypes, PTL
-----------------------------------------------------------------------------
(* Only addresses of selecting services are written.                       *)

\* The entry that Shutdown writes, or one of a service that selects the pods.
Justified(a) ==
    \/ a \in ToSet(EmptyAddress)
    \/ \E l \in ServiceLists : \E s \in ToSet(l) : Selects(s) /\ LoadBalancerIngress(s) = a

AllJustified(status) == \A k \in DOMAIN status : Justified(status[k])

\* GetPodDetails gets the pod, the pod has labels, and every service has a selector.
PodIsKnown ==
    /\ ~LookupFails
    /\ PodLabels # {}
    /\ \A l \in ServiceLists : \A s \in ToSet(l) : s.selector # {}

\* What is written, and what is about to be written, by replicas that know their pod.
AddressInv ==
    /\ StatusInv
    /\ \A i \in Ingresses : AllJustified(cluster[i].status)
    /\ \A r \in Replicas, a \in Agents, i \in Ingresses : AllJustified(job[r][a][i].addrs)
    /\ \A r \in Replicas : life[r] # "off" => labels[r] = PodLabels

\* Nothing, and what Shutdown writes, is justified.
LEMMA EmptyJustified ==
    /\ AllJustified(<<>>) /\ AllJustified(EmptyAddress)
    /\ AllJustified(NoIngress.status) /\ AllJustified(Idle.addrs)
<1>1. AllJustified(<<>>)
    BY DEF AllJustified
<1>2. NoIngress.status = <<>> /\ Idle.addrs = <<>>
    BY DEF NoIngress, Idle
<1>3. AllJustified(EmptyAddress)
    BY DEF AllJustified, Justified, ToSet
<1> QED  BY <1>1, <1>2, <1>3

\* A replica that knows its pod computes addresses of services that select it.
LEMMA AddressesJustified ==
    ASSUME PodIsKnown, services \in ServiceLists
    PROVE  AllJustified(Addresses(PodLabels))
<1> SUFFICES ASSUME NEW k \in DOMAIN Addresses(PodLabels)
             PROVE  Justified(Addresses(PodLabels)[k])
    BY DEF AllJustified
<1>1. PICK i \in GetAddresses(PodLabels, services) :
          Addresses(PodLabels)[k] = LoadBalancerIngress(services[i])
    BY AddressesOfServices
<1>2. /\ i \in DOMAIN services
      /\ PodLabels = {} \/ services[i].selector \subseteq PodLabels
    BY DEF GetAddresses, isSubset
<1>3. services[i] \in ToSet(services)
    BY <1>2 DEF ToSet
<1>4. Selects(services[i])
    BY <1>2, <1>3 DEF PodIsKnown, Selects
<1> QED  BY <1>1, <1>3, <1>4 DEF Justified

\* The addresses of a batch, and with them the status, are justified at every step.
LEMMA AddressInvStep ==
    ASSUME PodIsKnown, AddressInv, [Next]_vars
    PROVE  AddressInv'
<1> USE DEF AddressInv
<1>0. StatusInv' /\ Typed
    BY StatusInvStep DEF StatusInv
<1>1. ASSUME UNCHANGED <<cluster, job, life, labels>> PROVE AddressInv'
    BY <1>0, <1>1
<1>2. ASSUME NEW i \in Ingresses, ChangeIngress(i) PROVE AddressInv'
  <2>1. /\ cluster' = [cluster EXCEPT ![i] = [rv |-> version + 1, status |-> cluster[i].status]]
        /\ UNCHANGED <<job, life, labels>>
      BY <1>2 DEF ChangeIngress, replicaVars
  <2>2. \A h \in Ingresses : cluster'[h].status = cluster[h].status
      BY <1>0, <2>1 DEF Typed
  <2> QED  BY <1>0, <2>1, <2>2
<1>3. ASSUME NEW i \in Ingresses, DeleteIngress(i) PROVE AddressInv'
  <2>1. cluster' = [cluster EXCEPT ![i] = NoIngress] /\ UNCHANGED <<job, life, labels>>
      BY <1>3 DEF DeleteIngress, replicaVars
  <2>2. \A h \in Ingresses : cluster'[h] \in {cluster[h], NoIngress}
      BY <1>0, <2>1 DEF Typed
  <2>3. \A h \in Ingresses : AllJustified(cluster'[h].status)
      BY <2>2, EmptyJustified
  <2> QED  BY <1>0, <2>1, <2>3
<1>4. ASSUME NEW r \in Replicas, NEW a \in Agents, NEW addrs \in Statuses,
             AllJustified(addrs), updateIngStatuses(r, a, addrs)
      PROVE  \A q \in Replicas, b \in Agents, h \in Ingresses : AllJustified(job'[q][b][h].addrs)
  <2>1. /\ \A h \in Ingresses : job'[r][a][h] \in {Job(addrs), Idle}
        /\ \A q \in Replicas, b \in Agents, h \in Ingresses :
              <<q, b>> # <<r, a>> => job'[q][b][h] = job[q][b][h]
      BY <1>0, <1>4, OneBatchChanges
  <2>2. Job(addrs).addrs = addrs
      BY DEF Job
  <2> SUFFICES ASSUME NEW q \in Replicas, NEW b \in Agents, NEW h \in Ingresses
               PROVE  AllJustified(job'[q][b][h].addrs)
      OBVIOUS
  <2>3. CASE q = r /\ b = a
      BY <1>4, <2>1, <2>2, <2>3, EmptyJustified
  <2>4. CASE ~(q = r /\ b = a)
      BY <2>1, <2>4
  <2> QED  BY <2>3, <2>4
<1>5. ASSUME NEW r \in Replicas, syncStatus(r) PROVE AddressInv'
  <2>1. /\ life[r] # "off" /\ UNCHANGED <<cluster, life, labels>>
        /\ updateIngStatuses(r, "worker", Addresses(labels[r]))
      BY <1>5 DEF syncStatus, WorkerFree, apiVars, replicaVars
  <2>2. labels[r] = PodLabels /\ services \in ServiceLists
      BY <1>0, <2>1 DEF Typed
  <2>3. AllJustified(Addresses(labels[r])) /\ Addresses(labels[r]) \in Statuses
      BY <2>2, AddressesJustified, AddressesOfServices
  <2>4. \A q \in Replicas, b \in Agents, h \in Ingresses : AllJustified(job'[q][b][h].addrs)
      BY <1>4, <2>1, <2>3 DEF Agents
  <2> QED  BY <1>0, <2>1, <2>4
<1>6. ASSUME NEW r \in Replicas, NEW a \in Agents, NEW i \in Ingresses,
             Update(r, a, i) \/ ApiError(r, a, i)
      PROVE  AddressInv'
  <2>1. /\ job'[r][a][i] = Idle \/ job'[r][a][i].addrs = job[r][a][i].addrs
        /\ \A q \in Replicas, b \in Agents, h \in Ingresses :
              <<q, b, h>> # <<r, a, i>> => job'[q][b][h] = job[q][b][h]
        /\ UNCHANGED <<life, labels>>
      BY <1>6, UpdateChangesJob
  <2>2. ASSUME NEW q \in Replicas, NEW b \in Agents, NEW h \in Ingresses
        PROVE  AllJustified(job'[q][b][h].addrs)
    <3>1. CASE q = r /\ b = a /\ h = i
        BY <2>1, <3>1, EmptyJustified
    <3>2. CASE ~(q = r /\ b = a /\ h = i)
        BY <2>1, <3>2
    <3> QED  BY <3>1, <3>2
  <2>3. ASSUME NEW h \in Ingresses PROVE AllJustified(cluster'[h].status)
    <3> DEFINE c == [rv |-> version + 1, status |-> job[r][a][i].addrs]
    <3>1. cluster' = cluster \/ cluster' = [cluster EXCEPT ![i] = c]
        BY <1>6, UpdateWritesStatus
    <3>2. AllJustified(c.status)
        OBVIOUS
    <3> HIDE DEF c
    <3>3. cluster'[h] \in {cluster[h], c}
        BY <1>0, <3>1 DEF Typed
    <3> QED  BY <3>2, <3>3
  <2> QED  BY <1>0, <2>1, <2>2, <2>3
<1>7. ASSUME NEW r \in Replicas, Start(r) PROVE AddressInv'
  <2>1. /\ UNCHANGED <<cluster, job>>
        /\ life' = [life EXCEPT ![r] = "up"]
      BY <1>7 DEF Start, apiVars
  <2>2. labels' = [labels EXCEPT ![r] = PodLabels]
      BY <1>7, Zenon DEF Start, PodIsKnown
  <2>3. \A q \in Replicas : life'[q] # "off" => labels'[q] = PodLabels
      BY <1>0, <2>1, <2>2 DEF Typed
  <2> QED  BY <1>0, <2>1, <2>3
<1>8. ASSUME NEW r \in Replicas, Shutdown(r) PROVE AddressInv'
  <2>1. /\ UNCHANGED <<cluster, labels>>
        /\ life[r] = "up" /\ life' = [life EXCEPT ![r] = "stopping"]
        /\ updateIngStatuses(r, "shutdown", EmptyAddress)
      BY <1>8 DEF Shutdown, apiVars
  <2>2. \A q \in Replicas, b \in Agents, h \in Ingresses : AllJustified(job'[q][b][h].addrs)
      BY <1>4, <2>1, EmptyValues, EmptyJustified DEF Agents
  <2>3. \A q \in Replicas : life'[q] # "off" => labels'[q] = PodLabels
      BY <1>0, <2>1 DEF Typed
  <2> QED  BY <1>0, <2>1, <2>2, <2>3
<1>9. ASSUME NEW r \in Replicas, End(r) PROVE AddressInv'
  <2>1. /\ UNCHANGED cluster
        /\ life' = [life EXCEPT ![r] = "off"]
        /\ labels' = [labels EXCEPT ![r] = {}]
        /\ job' = [job EXCEPT ![r] = NoJobs]
      BY <1>9 DEF End, apiVars
  <2>2. \A q \in Replicas, b \in Agents, h \in Ingresses : job'[q][b][h] \in {job[q][b][h], Idle}
      BY <1>0, <2>1, EmptyValues DEF Typed
  <2>3. \A q \in Replicas, b \in Agents, h \in Ingresses : AllJustified(job'[q][b][h].addrs)
      BY <2>2, EmptyJustified
  <2>4. \A q \in Replicas : life'[q] # "off" => labels'[q] = PodLabels
      BY <1>0, <2>1 DEF Typed
  <2> QED  BY <1>0, <2>1, <2>3, <2>4
<1>10. ASSUME NEW l \in ServiceLists, ChangeServices(l) PROVE AddressInv'
    BY <1>1, <1>10 DEF ChangeServices, apiVars, replicaVars
<1>11. ASSUME NEW r \in Replicas, NEW i \in Ingresses, Deliver(r, i) PROVE AddressInv'
    BY <1>1, <1>11 DEF Deliver, apiVars, replicaVars
<1>12. CASE UNCHANGED vars
    BY <1>1, <1>12 DEF vars
<1> HIDE DEF AddressInv
<1>13. CASE Next
    BY <1>2, <1>3, <1>5, <1>6, <1>7, <1>8, <1>9, <1>10, <1>11, <1>13 DEF Next, Exit, Crash
<1> QED  BY <1>12, <1>13

\* GetAddresses reports the "services that may select this pod": if the pod's labels are
\* known and not empty and every service has a selector, then no replica, worker or
\* Shutdown, ever writes an address other than one of a service that selects the pods,
\* whatever the services, failures and conflicts.
THEOREM OnlyOurAddresses ==
    ASSUME PodIsKnown
    PROVE  Spec => []OnlySelectingServices
<1>1. Init => AddressInv
  <2> SUFFICES ASSUME Init PROVE AddressInv
      OBVIOUS
  <2>1. \A i \in Ingresses : AllJustified(cluster[i].status)
      BY EmptyJustified DEF Init
  <2>2. \A r \in Replicas, a \in Agents, i \in Ingresses : job[r][a][i] = Idle
      BY EmptyValues DEF Init
  <2>3. \A r \in Replicas : life[r] = "off"
      BY DEF Init
  <2> QED  BY <2>1, <2>2, <2>3, InitStatusInv, EmptyJustified DEF AddressInv
<1>2. AddressInv /\ [Next]_vars => AddressInv'
    BY AddressInvStep
<1>3. AddressInv => OnlySelectingServices
  <2> SUFFICES ASSUME AddressInv, NEW i \in Ingresses,
                      NEW a \in ToSet(cluster[i].status) \ ToSet(EmptyAddress)
               PROVE  \E l \in ServiceLists : \E s \in ToSet(l) :
                          Selects(s) /\ LoadBalancerIngress(s) = a
      BY DEF OnlySelectingServices
  <2>1. AllJustified(cluster[i].status)
      BY DEF AddressInv
  <2>2. PICK k \in DOMAIN cluster[i].status : a = cluster[i].status[k]
      BY DEF ToSet
  <2>3. Justified(a)
      BY <2>1, <2>2 DEF AllJustified
  <2> QED  BY <2>3 DEF Justified
<1> QED  BY <1>1, <1>2, <1>3, PTL DEF Spec
=============================================================================
