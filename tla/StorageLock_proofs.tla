------------------------- MODULE StorageLock_proofs -------------------------
(***************************************************************************)
(* Proofs about StorageLock.                                               *)
(***************************************************************************)
EXTENDS StorageLock, TLAPS

\* The two agents of a session are agents of that session only.
LEMMA AgentFacts ==
    /\ \A s \in Sessions : /\ Caller(s) \in Callers /\ Refresher(s) \in Refreshers
                           /\ S(Caller(s)) = s /\ S(Refresher(s)) = s
    /\ \A a \in Callers : S(a) \in Sessions /\ a = Caller(S(a)) /\ a \notin Refreshers
    /\ \A a \in Refreshers : S(a) \in Sessions /\ a = Refresher(S(a)) /\ a \notin Callers
    /\ \A a \in Agents : S(a) \in Sessions /\ (a \in Callers \/ a \in Refreshers)
    /\ Callers \subseteq Agents /\ Refreshers \subseteq Agents
BY DEF Callers, Refreshers, Agents, Caller, Refresher, S

\* The constants have the types the code gives them.
LEMMA Durations ==
    /\ leaseDuration \in Nat /\ leaseRenewInterval \in Nat /\ leasePollInterval \in Nat
    /\ lockAcquireTimeout \in Nat /\ ApiDelay \in Nat /\ AbortDelay \in Nat
    /\ MaxFails \in Nat /\ MaxClock \in Nat
BY TimingAssumption

\* Every agent has an identity, which is not empty, and a clock.
LEMMA Identities ==
    /\ "" \notin Ids
    /\ \A s \in Sessions : LeaseID[s] \in Ids /\ Skew[LeaseID[s]] \in Int
    /\ \A a \in Agents : Id(a) = LeaseID[S(a)] /\ Id(a) \in Ids /\ Skew[Id(a)] \in Int
BY TimingAssumption, AgentFacts DEF Id

\* NoLease is not a lease an instance has written.
LEMMA NoLeaseFact == \A l \in Leases : l # NoLease /\ l.holder \in Ids /\ l.renew \in Int
<1> SUFFICES ASSUME NEW l \in Leases
             PROVE  l # NoLease /\ l.holder \in Ids /\ l.renew \in Int
  OBVIOUS
<1>1. l.holder \in Ids /\ l.renew \in Int
  BY DEF Leases
<1>2. NoLease.holder = ""
  BY DEF NoLease
<1> QED
  BY <1>1, <1>2, Identities

\* Slack grows by one interval and one request with each failure.
LEMMA SlackFacts ==
    ASSUME NEW n \in 0 .. MaxFails
    PROVE  /\ Slack(n) \in Nat
           /\ Slack(0) = 2 * ApiDelay + leaseRenewInterval
           /\ Slack(0) <= Slack(n)
           /\ Slack(n) <= Slack(MaxFails)
           /\ Slack(n + 1) = Slack(n) + leaseRenewInterval + ApiDelay
<1> DEFINE G == leaseRenewInterval + ApiDelay
<1>0. leaseRenewInterval \in Nat /\ ApiDelay \in Nat /\ MaxFails \in Nat
  BY Durations
<1>1. G \in Nat /\ n \in Nat /\ MaxFails \in Nat /\ n <= MaxFails
  BY <1>0
<1>2. \A a, b, c \in Nat : a <= b => a * c <= b * c
  OBVIOUS
<1>3. \A a, c \in Nat : (a + 1) * c = a * c + c /\ a * c \in Nat
  OBVIOUS
<1> HIDE DEF G
<1>4. (n + 1) * G <= (MaxFails + 1) * G /\ 1 * G <= (n + 1) * G
  BY <1>1, <1>2
<1>5. (n + 1 + 1) * G = (n + 1) * G + G /\ (n + 1) * G \in Nat
  BY <1>1, <1>3
<1>6. 1 * G = G /\ (0 + 1) * G = G
  BY <1>1
<1>7. /\ Slack(n) = ApiDelay + (n + 1) * G
      /\ Slack(0) = ApiDelay + (0 + 1) * G
      /\ Slack(n + 1) = ApiDelay + (n + 1 + 1) * G
      /\ Slack(MaxFails) = ApiDelay + (MaxFails + 1) * G
  BY DEF Slack, G
<1>8. (MaxFails + 1) * G \in Nat
  BY <1>1, <1>3
<1> QED
  BY <1>0, <1>1, <1>4, <1>5, <1>6, <1>7, <1>8 DEF G
-----------------------------------------------------------------------------
(* Types.                                                                  *)

\* The initial state has the right type.
LEMMA TypeInit == Init => TypeOK
BY AgentFacts, Durations DEF Init, TypeOK, InFlight

\* What the two ways an attempt fails do to the variables they change.
LEMMA FailureTypes ==
    ASSUME TypeOK, NEW a \in Agents, AttemptFails(a), at[a] # "off"
    PROVE  /\ session' \in [Sessions -> {"idle", "locking", "trying", "critical", "unlocking"}]
           /\ at' \in [Agents -> {"off", "sleep"} \cup InFlight]
           /\ time' \in [Agents -> Nat]
           /\ \A s \in Sessions : at'[Caller(s)] # "off" <=> session'[s] \in {"locking", "trying"}
<1>1. CASE a \in Callers /\ CallerFails(S(a))
  BY <1>1, AgentFacts, Durations DEF CallerFails, To, TypeOK
<1>2. CASE a \in Refreshers /\ RefresherFails(S(a))
  BY <1>2, AgentFacts, Durations DEF RefresherFails, To, TypeOK
<1> QED
  BY <1>1, <1>2 DEF AttemptFails

\* What a write to the lease does to the lease and the snapshots.
LEMMA WriteTypes ==
    ASSUME TypeOK, NEW a \in Agents, Write(a)
    PROVE  lease' \in Leases /\ fresh' \in [Agents -> BOOLEAN]
<1>1. time[a] \in Nat /\ Skew[Id(a)] \in Int /\ Id(a) \in Ids
  BY Identities DEF TypeOK
<1>2. now(a) \in Int
  BY <1>1 DEF now
<1>3. lease' = [holder |-> Id(a), renew |-> now(a)] /\ fresh' = [b \in Agents |-> FALSE]
  BY DEF Write
<1> QED
  BY <1>1, <1>2, <1>3 DEF Leases

\* Every step of a caller, a refresher, a crash or the clock keeps the types.
LEMMA TypeStep == TypeOK /\ [Next]_vars => TypeOK'
<1> SUFFICES ASSUME TypeOK, [Next]_vars PROVE TypeOK'
  OBVIOUS
<1>1. ASSUME NEW s \in Sessions, NEW how \in {"locking", "trying"}, LockStart(s, how)
      PROVE  TypeOK'
  BY <1>1, AgentFacts, Durations DEF TypeOK, LockStart, To, InFlight
<1>2. ASSUME NEW a \in Agents, Wake(a) PROVE TypeOK'
  BY <1>2, AgentFacts DEF TypeOK, Wake, To, InFlight
<1>3. ASSUME NEW a \in Agents, StopWaiting(a) PROVE TypeOK'
  BY <1>3, AgentFacts DEF TypeOK, StopWaiting, To
<1>4. ASSUME NEW a \in Agents, GetHeld(a) PROVE TypeOK'
  <2>1. CASE a \in Callers /\ CallerFails(S(a))
    BY <1>4, <2>1, FailureTypes DEF TypeOK, GetHeld, AttemptFails
  <2>2. CASE a \in Refreshers /\ To(a, "off", 0) /\ UNCHANGED session
    BY <1>4, <2>2, AgentFacts DEF TypeOK, GetHeld, To
  <2> QED
    BY <1>4, <2>1, <2>2 DEF GetHeld
<1>5. ASSUME NEW a \in Agents, GetOpen(a) PROVE TypeOK'
  BY <1>5, AgentFacts DEF TypeOK, GetOpen, InFlight
<1>6. ASSUME NEW a \in Agents, GetMissing(a) PROVE TypeOK'
  BY <1>6, AgentFacts DEF TypeOK, GetMissing, To, InFlight
<1>7. ASSUME NEW a \in Agents, Acquired(a) PROVE TypeOK'
  <2>1. lease' \in Leases /\ fresh' \in [Agents -> BOOLEAN]
    BY <1>7, WriteTypes DEF Acquired
  <2>2. at[a] # "off"
    BY <1>7 DEF Acquired, Write
  <2>3. /\ session' \in [Sessions -> {"idle", "locking", "trying", "critical", "unlocking"}]
        /\ at' \in [Agents -> {"off", "sleep"} \cup InFlight]
        /\ time' \in [Agents -> Nat]
    BY <1>7, AgentFacts, Durations DEF TypeOK, Acquired
  <2>4. \A s \in Sessions : at'[Caller(s)] # "off" <=> session'[s] \in {"locking", "trying"}
    BY <1>7, AgentFacts DEF TypeOK, Acquired
  <2> QED
    BY <1>7, <2>1, <2>3, <2>4 DEF TypeOK, Acquired
<1>8. ASSUME NEW a \in Agents, Renewed(a) PROVE TypeOK'
  <2>1. lease' \in Leases /\ fresh' \in [Agents -> BOOLEAN]
    BY <1>8, WriteTypes DEF Renewed
  <2>2. /\ at' \in [Agents -> {"off", "sleep"} \cup InFlight]
        /\ time' \in [Agents -> Nat]
        /\ fails' \in [Sessions -> 0 .. MaxFails]
    BY <1>8, AgentFacts, Durations DEF TypeOK, Renewed, To
  <2>3. \A s \in Sessions : at'[Caller(s)] # "off" <=> session'[s] \in {"locking", "trying"}
    BY <1>8, AgentFacts DEF TypeOK, Renewed, To
  <2> QED
    BY <1>8, <2>1, <2>2, <2>3 DEF TypeOK, Renewed
<1>9. ASSUME NEW a \in Agents, Conflict(a) PROVE TypeOK'
  <2>1. at[a] # "off" /\ AttemptFails(a) /\ fails' \in [Sessions -> 0 .. MaxFails]
    BY <1>9, AgentFacts, Durations DEF TypeOK, Conflict
  <2> QED
    BY <1>9, <2>1, FailureTypes DEF TypeOK, Conflict
<1>10. ASSUME NEW a \in Agents, MayFail(a)
       PROVE  at[a] # "off" /\ fails' \in [Sessions -> 0 .. MaxFails]
  BY <1>10, AgentFacts, Durations DEF TypeOK, MayFail, InFlight
<1>11. ASSUME NEW a \in Agents, ApiError(a) PROVE TypeOK'
  BY <1>10, <1>11, FailureTypes DEF TypeOK, ApiError
<1>12. ASSUME NEW a \in Agents, AnswerLost(a) PROVE TypeOK'
  BY <1>10, <1>12, FailureTypes, WriteTypes DEF TypeOK, AnswerLost
<1>13. ASSUME NEW a \in Agents, Rejected(a) PROVE TypeOK'
  BY <1>13, AgentFacts DEF TypeOK, Rejected, To
<1>14. ASSUME NEW s \in Sessions, UnlockStart(s) PROVE TypeOK'
  BY <1>14 DEF TypeOK, UnlockStart
<1>15. ASSUME NEW s \in Sessions, Unlocked(s) PROVE TypeOK'
  BY <1>15 DEF TypeOK, Unlocked
<1>16. ASSUME NEW s \in Sessions, UnlockFails(s) PROVE TypeOK'
  BY <1>16 DEF TypeOK, UnlockFails
<1>17. ASSUME NEW s \in Sessions, Cancel(s) PROVE TypeOK'
  BY <1>17 DEF TypeOK, Cancel
<1>18. ASSUME NEW i \in Ids, Crash(i) PROVE TypeOK'
  BY <1>18, AgentFacts, Identities DEF TypeOK, Crash
<1>19. CASE Tick
  BY <1>19 DEF TypeOK, Tick
<1>20. CASE UNCHANGED vars
  BY <1>20 DEF TypeOK, vars
<1> QED
  BY <1>1, <1>2, <1>3, <1>4, <1>5, <1>6, <1>7, <1>8, <1>9, <1>11, <1>12, <1>13,
     <1>14, <1>15, <1>16, <1>17, <1>18, <1>19, <1>20
  DEF Next, tryAcquireOrRenew

\* Every variable keeps its type, and a caller is in tryAcquireOrRenew or its
\* pause exactly while Lock or TryLock has not returned.
THEOREM TypeCorrect == Spec => []TypeOK
BY TypeInit, TypeStep, PTL DEF Spec
-----------------------------------------------------------------------------
(* Snapshots, timers and callers.                                          *)

\* A step that leaves the lease alone and lets nobody begin an update keeps
\* what was known of the lease.
LEMMA SnapshotsFrame ==
    ASSUME Snapshots, lease' = lease,
           \A b \in Agents : at'[b] = "update" /\ fresh'[b]
               => at[b] = "update" /\ fresh[b] /\ time'[b] = time[b],
           \A b \in Refreshers : at'[b] # "create"
    PROVE  Snapshots'
BY DEF Snapshots, Held, now

\* After a failed attempt nobody is in a write that was not before.
LEMMA FailureFrame ==
    ASSUME TypeOK, NEW a \in Agents, AttemptFails(a)
    PROVE  /\ at'[a] \in {"off", "sleep"}
           /\ \A b \in Agents \ {a} : at'[b] = at[b] /\ time'[b] = time[b]
<1>1. CASE a \in Callers /\ CallerFails(S(a))
  BY <1>1, AgentFacts DEF CallerFails, To, TypeOK
<1>2. CASE a \in Refreshers /\ RefresherFails(S(a))
  BY <1>2, AgentFacts DEF RefresherFails, To, TypeOK
<1> QED
  BY <1>1, <1>2 DEF AttemptFails

\* After a write every snapshot is out of date.
LEMMA WriteSnapshots ==
    ASSUME NEW b, Write(b), \A c \in Refreshers : at'[c] # "create"
    PROVE  Snapshots'
BY AgentFacts DEF Write, Snapshots

\* Nobody is about to update a lease at the beginning.
LEMMA SnapshotsInit == Init => Snapshots
BY AgentFacts DEF Init, Snapshots

\* A lease that was ours or expired when it was read stays so until it is written:
\* every write of another makes what was read stale.
LEMMA SnapshotsStep == TypeOK /\ Snapshots /\ [Next]_vars => Snapshots'
<1> SUFFICES ASSUME TypeOK, Snapshots, [Next]_vars PROVE Snapshots'
  OBVIOUS
<1>0. \A b \in Refreshers : at[b] # "create"
  BY DEF Snapshots
<1>1. ASSUME NEW s \in Sessions, NEW how \in {"locking", "trying"}, LockStart(s, how)
      PROVE  Snapshots'
  BY <1>0, <1>1, AgentFacts, SnapshotsFrame DEF TypeOK, LockStart, To
<1>2. ASSUME NEW a \in Agents, Wake(a) PROVE Snapshots'
  BY <1>0, <1>2, AgentFacts, SnapshotsFrame DEF TypeOK, Wake, To
<1>3. ASSUME NEW a \in Agents, StopWaiting(a) PROVE Snapshots'
  BY <1>0, <1>3, AgentFacts, SnapshotsFrame DEF TypeOK, StopWaiting, To
<1>4. ASSUME NEW a \in Agents, GetHeld(a) PROVE Snapshots'
  <2>1. CASE a \in Callers /\ CallerFails(S(a))
    BY <1>0, <1>4, <2>1, AgentFacts, FailureFrame, SnapshotsFrame DEF GetHeld, AttemptFails
  <2>2. CASE a \in Refreshers /\ To(a, "off", 0) /\ UNCHANGED session
    BY <1>0, <1>4, <2>2, AgentFacts, SnapshotsFrame DEF TypeOK, GetHeld, To
  <2> QED
    BY <1>4, <2>1, <2>2 DEF GetHeld
<1>5. ASSUME NEW a \in Agents, GetOpen(a) PROVE Snapshots'
  BY <1>0, <1>5, AgentFacts DEF TypeOK, GetOpen, Snapshots, Held, now
<1>6. ASSUME NEW a \in Agents, GetMissing(a) PROVE Snapshots'
  BY <1>0, <1>6, AgentFacts, SnapshotsFrame DEF TypeOK, GetMissing, To
<1>7. ASSUME NEW a \in Agents, Acquired(a) PROVE Snapshots'
  BY <1>0, <1>7, AgentFacts, WriteSnapshots DEF TypeOK, Acquired
<1>8. ASSUME NEW a \in Agents, Renewed(a) PROVE Snapshots'
  BY <1>0, <1>8, AgentFacts, WriteSnapshots DEF TypeOK, Renewed, To
<1>9. ASSUME NEW a \in Agents, Conflict(a) PROVE Snapshots'
  BY <1>0, <1>9, AgentFacts, FailureFrame, SnapshotsFrame DEF Conflict
<1>11. ASSUME NEW a \in Agents, ApiError(a) PROVE Snapshots'
  BY <1>0, <1>11, AgentFacts, FailureFrame, SnapshotsFrame DEF ApiError
<1>12. ASSUME NEW a \in Agents, AnswerLost(a) PROVE Snapshots'
  BY <1>0, <1>12, AgentFacts, FailureFrame, WriteSnapshots DEF AnswerLost
<1>13. ASSUME NEW a \in Agents, Rejected(a) PROVE Snapshots'
  BY <1>0, <1>13, AgentFacts, SnapshotsFrame DEF TypeOK, Rejected, To
<1>14. ASSUME NEW s \in Sessions, UnlockStart(s) PROVE Snapshots'
  BY <1>0, <1>14, SnapshotsFrame DEF UnlockStart
<1>15. ASSUME NEW s \in Sessions, Unlocked(s) PROVE Snapshots'
  BY <1>0, <1>15, AgentFacts DEF Unlocked, Snapshots
<1>16. ASSUME NEW s \in Sessions, UnlockFails(s) PROVE Snapshots'
  BY <1>0, <1>16, SnapshotsFrame DEF UnlockFails
<1>17. ASSUME NEW s \in Sessions, Cancel(s) PROVE Snapshots'
  BY <1>0, <1>17, SnapshotsFrame DEF Cancel
<1>18. ASSUME NEW i \in Ids, Crash(i) PROVE Snapshots'
  BY <1>0, <1>18, AgentFacts, SnapshotsFrame DEF Crash
<1>19. CASE Tick
  BY <1>0, <1>19, SnapshotsFrame DEF Tick
<1>20. CASE UNCHANGED vars
  BY <1>0, <1>20, SnapshotsFrame DEF vars
<1> QED
  BY <1>1, <1>2, <1>3, <1>4, <1>5, <1>6, <1>7, <1>8, <1>9, <1>11, <1>12, <1>13,
     <1>14, <1>15, <1>16, <1>17, <1>18, <1>19, <1>20
  DEF Next, tryAcquireOrRenew

\* A write that changes the holder of a lease is an update of the lease that
\* was read, and that one had expired by the clock of the writer.
LEMMA TakeoverStep ==
    ASSUME TypeOK, Snapshots, [Next]_vars,
           lease # NoLease, lease' # NoLease, lease'.holder # lease.holder
    PROVE  lease.renew + leaseDuration <= lease'.renew
<1>1. PICK a \in Agents : Write(a)
  BY DEF Next, vars, LockStart, Wake, StopWaiting, tryAcquireOrRenew, GetHeld, GetOpen,
         GetMissing, Acquired, Renewed, Conflict, ApiError, AnswerLost, Rejected,
         UnlockStart, Unlocked, UnlockFails, Cancel, Crash, Tick
<1>2. at[a] = "update" /\ fresh[a] /\ lease'.holder = Id(a) /\ lease'.renew = now(a)
  BY <1>1 DEF Write
<1>3. ~Held(a)
  BY <1>2 DEF Snapshots
<1>4. lease \in Leases
  BY DEF TypeOK
<1>5. lease.renew \in Int /\ now(a) \in Int
  <2>1. time[a] \in Nat /\ Skew[Id(a)] \in Int
    BY Identities DEF TypeOK
  <2> QED
    BY <1>4, <2>1, NoLeaseFact DEF now
<1> QED
  BY <1>2, <1>3, <1>5, Durations DEF Held

\* A lease that has not expired by the clock of an instance is never taken
\* over by it, although tryAcquireOrRenew looks at the lease and writes it in
\* two requests: the API server refuses the second when another came between.
THEOREM NoTakeover == Spec => NoTakeoverOfLiveLease
<1>1. TypeOK /\ Snapshots /\ [Next]_vars
        => [lease # NoLease /\ lease' # NoLease /\ lease'.holder # lease.holder
              => lease.renew + leaseDuration <= lease'.renew]_vars
  BY TakeoverStep
<1>2. Spec => [](TypeOK /\ Snapshots)
  BY TypeInit, TypeStep, SnapshotsInit, SnapshotsStep, PTL DEF Spec
<1> QED
  BY <1>1, <1>2, PTL DEF Spec, NoTakeoverOfLiveLease
-----------------------------------------------------------------------------
(* Timers and callers.                                                     *)

\* How far an agent, and the owner of a cancelled session, can be behind.
AgentTimer(a) ==
    /\ at[a] = "sleep" => clock <= time[a]
    /\ at[a] = "sleep" /\ a \in Refreshers => time[a] <= clock + leaseRenewInterval
    /\ at[a] \in InFlight => time[a] <= clock /\ clock <= time[a] + ApiDelay

OwnerTimer(s) ==
    Owner(s) /\ ctxDone[s] => cancelAt[s] <= clock /\ clock <= cancelAt[s] + AbortDelay

\* Timers, agent by agent and owner by owner.
LEMMA TimersSplit ==
    Timers <=> (\A a \in Agents : AgentTimer(a)) /\ (\A s \in Sessions : OwnerTimer(s))
BY AgentFacts DEF Timers, AgentTimer, OwnerTimer

\* A step at a standing clock moves one agent, and makes no owner of a
\* session whose context is done.
LEMMA TimersFrame ==
    ASSUME Timers, NEW a \in Agents, clock' = clock,
           \A b \in Agents \ {a} : at'[b] = at[b] /\ time'[b] = time[b],
           AgentTimer(a)',
           \A s \in Sessions : Owner(s)' => Owner(s),
           UNCHANGED <<ctxDone, cancelAt>>
    PROVE  Timers'
<1>1. ASSUME NEW b \in Agents PROVE AgentTimer(b)'
  BY <1>1, TimersSplit DEF AgentTimer
<1>2. ASSUME NEW s \in Sessions PROVE OwnerTimer(s)'
  BY <1>2, TimersSplit DEF OwnerTimer
<1>3. \A b \in Agents : AgentTimer(b)'
  BY <1>1
<1>4. \A s \in Sessions : OwnerTimer(s)'
  BY <1>2
<1> QED
  BY <1>3, <1>4, AgentFacts DEF Timers, AgentTimer, OwnerTimer

\* A failed attempt leaves the agent ended or at the beginning of its pause,
\* and makes no owner.
LEMMA FailureTimer ==
    ASSUME TypeOK, NEW a \in Agents, AttemptFails(a), clock' = clock
    PROVE  AgentTimer(a)' /\ \A s \in Sessions : Owner(s)' => Owner(s)
<1>0. clock \in Nat
  BY DEF TypeOK
<1>1. CASE a \in Callers /\ CallerFails(S(a))
  BY <1>0, <1>1, AgentFacts, Durations
  DEF CallerFails, To, TypeOK, AgentTimer, Owner, InFlight
<1>2. CASE a \in Refreshers /\ RefresherFails(S(a))
  BY <1>0, <1>2, AgentFacts, Durations
  DEF RefresherFails, To, TypeOK, AgentTimer, Owner, InFlight
<1> QED
  BY <1>1, <1>2 DEF AttemptFails

\* Nobody waits at the beginning.
LEMMA TimersInit == Init => Timers
BY AgentFacts DEF Init, Timers, Owner, InFlight

\* The clock does not pass the end of a sleep or of a request.
LEMMA TimersStep == TypeOK /\ Timers /\ [Next]_vars => Timers'
<1> SUFFICES ASSUME TypeOK, Timers, [Next]_vars PROVE Timers'
  OBVIOUS
<1>0. clock \in Nat
  BY DEF TypeOK
<1>1. ASSUME NEW s \in Sessions, NEW how \in {"locking", "trying"}, LockStart(s, how)
      PROVE  Timers'
  <2>1. ASSUME NEW b \in Agents PROVE AgentTimer(b)'
    BY <1>0, <1>1, <2>1, AgentFacts, Durations, TimersSplit
    DEF TypeOK, LockStart, To, AgentTimer, InFlight
  <2>2. ASSUME NEW t \in Sessions PROVE OwnerTimer(t)'
    BY <1>1, <2>2, TimersSplit DEF TypeOK, LockStart, OwnerTimer, Owner
  <2>3. (\A b \in Agents : AgentTimer(b)') /\ (\A t \in Sessions : OwnerTimer(t)')
    BY <2>1, <2>2
  <2> QED
    BY <2>3, AgentFacts DEF Timers, AgentTimer, OwnerTimer
<1>2. ASSUME NEW a \in Agents, Wake(a) PROVE Timers'
  <2>1. AgentTimer(a)'
    BY <1>0, <1>2, Durations DEF TypeOK, Wake, To, AgentTimer, InFlight
  <2> QED
    BY <1>2, <2>1, TimersFrame DEF TypeOK, Wake, To, Owner
<1>3. ASSUME NEW a \in Agents, StopWaiting(a) PROVE Timers'
  <2>1. AgentTimer(a)'
    BY <1>3 DEF TypeOK, StopWaiting, To, AgentTimer, InFlight
  <2>2. \A s \in Sessions : Owner(s)' => Owner(s)
    BY <1>3, AgentFacts DEF TypeOK, StopWaiting, Owner
  <2> QED
    BY <1>3, <2>1, <2>2, TimersFrame DEF TypeOK, StopWaiting, To
<1>4. ASSUME NEW a \in Agents, GetHeld(a) PROVE Timers'
  <2>1. CASE a \in Callers /\ CallerFails(S(a))
    BY <1>4, <2>1, FailureFrame, FailureTimer, TimersFrame DEF GetHeld, AttemptFails
  <2>2. CASE a \in Refreshers /\ To(a, "off", 0) /\ UNCHANGED session
    <3>1. AgentTimer(a)'
      BY <1>4, <2>2 DEF TypeOK, To, AgentTimer, InFlight
    <3> QED
      BY <1>4, <2>2, <3>1, TimersFrame DEF TypeOK, GetHeld, To, Owner
  <2> QED
    BY <1>4, <2>1, <2>2 DEF GetHeld
<1>5. ASSUME NEW a \in Agents, GetOpen(a) PROVE Timers'
  <2>1. AgentTimer(a)'
    BY <1>5, TimersSplit DEF TypeOK, GetOpen, AgentTimer, InFlight
  <2> QED
    BY <1>5, <2>1, TimersFrame DEF TypeOK, GetOpen, Owner
<1>6. ASSUME NEW a \in Agents, GetMissing(a) PROVE Timers'
  <2>1. AgentTimer(a)'
    BY <1>6, TimersSplit DEF TypeOK, GetMissing, To, AgentTimer, InFlight
  <2> QED
    BY <1>6, <2>1, TimersFrame DEF TypeOK, GetMissing, To, Owner
<1>7. ASSUME NEW a \in Agents, Acquired(a) PROVE Timers'
  <2>1. ASSUME NEW b \in Agents PROVE AgentTimer(b)'
    BY <1>0, <1>7, <2>1, AgentFacts, Durations, TimersSplit
    DEF TypeOK, Acquired, AgentTimer, InFlight
  <2>2. ASSUME NEW t \in Sessions PROVE OwnerTimer(t)'
    BY <1>7, <2>2, AgentFacts, TimersSplit DEF TypeOK, Acquired, OwnerTimer, Owner
  <2>3. (\A b \in Agents : AgentTimer(b)') /\ (\A t \in Sessions : OwnerTimer(t)')
    BY <2>1, <2>2
  <2> QED
    BY <2>3, AgentFacts DEF Timers, AgentTimer, OwnerTimer
<1>8. ASSUME NEW a \in Agents, Renewed(a) PROVE Timers'
  <2>1. AgentTimer(a)'
    BY <1>0, <1>8, Durations DEF TypeOK, Renewed, To, AgentTimer, InFlight
  <2> QED
    BY <1>8, <2>1, TimersFrame DEF TypeOK, Renewed, To, Owner
<1>9. ASSUME NEW a \in Agents, Conflict(a) PROVE Timers'
  BY <1>9, FailureFrame, FailureTimer, TimersFrame DEF Conflict
<1>11. ASSUME NEW a \in Agents, ApiError(a) PROVE Timers'
  BY <1>11, FailureFrame, FailureTimer, TimersFrame DEF ApiError
<1>12. ASSUME NEW a \in Agents, AnswerLost(a) PROVE Timers'
  BY <1>12, FailureFrame, FailureTimer, TimersFrame DEF AnswerLost
<1>13. ASSUME NEW a \in Agents, Rejected(a) PROVE Timers'
  <2>1. AgentTimer(a)'
    BY <1>13 DEF TypeOK, Rejected, To, AgentTimer, InFlight
  <2>2. \A s \in Sessions : Owner(s)' => Owner(s)
    BY <1>13, AgentFacts DEF TypeOK, Rejected, Owner
  <2> QED
    BY <1>13, <2>1, <2>2, TimersFrame DEF TypeOK, Rejected, To
<1>14. ASSUME NEW s \in Sessions, UnlockStart(s) PROVE Timers'
  BY <1>14 DEF TypeOK, UnlockStart, Timers, Owner
<1>15. ASSUME NEW s \in Sessions, Unlocked(s) PROVE Timers'
  BY <1>15 DEF TypeOK, Unlocked, Timers, Owner
<1>16. ASSUME NEW s \in Sessions, UnlockFails(s) PROVE Timers'
  BY <1>16 DEF TypeOK, UnlockFails, Timers, Owner
<1>17. ASSUME NEW s \in Sessions, Cancel(s) PROVE Timers'
  BY <1>0, <1>17, Durations DEF TypeOK, Cancel, Timers, Owner
<1>18. ASSUME NEW i \in Ids, Crash(i) PROVE Timers'
  BY <1>18, AgentFacts DEF TypeOK, Crash, Timers, Owner, InFlight
<1>19. CASE Tick
  <2>1. ASSUME NEW b \in Agents PROVE AgentTimer(b)'
    <3>1. time[b] \in Nat
      BY <2>1 DEF TypeOK
    <3> QED
      BY <1>0, <1>19, <2>1, <3>1, Durations, TimersSplit DEF Tick, AgentTimer
  <2>2. ASSUME NEW t \in Sessions PROVE OwnerTimer(t)'
    <3>1. cancelAt[t] \in Nat
      BY <2>2 DEF TypeOK
    <3> QED
      BY <1>0, <1>19, <2>2, <3>1, Durations, TimersSplit DEF Tick, OwnerTimer, Owner
  <2>3. (\A b \in Agents : AgentTimer(b)') /\ (\A t \in Sessions : OwnerTimer(t)')
    BY <2>1, <2>2
  <2> QED
    BY <2>3, AgentFacts DEF Timers, AgentTimer, OwnerTimer
<1>20. CASE UNCHANGED vars
  BY <1>20 DEF vars, Timers, Owner
<1> QED
  BY <1>1, <1>2, <1>3, <1>4, <1>5, <1>6, <1>7, <1>8, <1>9, <1>11, <1>12, <1>13,
     <1>14, <1>15, <1>16, <1>17, <1>18, <1>19, <1>20
  DEF Next, tryAcquireOrRenew

\* Only LockStart makes a caller active, and it waits until no caller of its
\* instance is.
LEMMA OneCallerStep == TypeOK /\ OneCaller /\ [Next]_vars => OneCaller'
<1> SUFFICES ASSUME TypeOK, OneCaller, [Next]_vars PROVE OneCaller'
  OBVIOUS
<1>1. ASSUME NEW s \in Sessions, NEW how \in {"locking", "trying"}, LockStart(s, how)
      PROVE  OneCaller'
  BY <1>1 DEF TypeOK, LockStart, OneCaller, Active
<1>2. CASE \A t \in Sessions : Active(t)' => Active(t)
  BY <1>2 DEF OneCaller
<1>3. ASSUME NEW a \in Agents, CallerFails(S(a)) \/ AttemptFails(a)
      PROVE  \A t \in Sessions : Active(t)' => Active(t)
  BY <1>3, AgentFacts
  DEF TypeOK, AttemptFails, CallerFails, RefresherFails, Active
<1>4. ASSUME NEW a \in Agents,
             Wake(a) \/ StopWaiting(a) \/ GetHeld(a) \/ GetOpen(a) \/ GetMissing(a)
             \/ Renewed(a) \/ Rejected(a)
      PROVE  \A t \in Sessions : Active(t)' => Active(t)
  BY <1>3, <1>4, AgentFacts
  DEF TypeOK, Wake, StopWaiting, GetHeld, GetOpen, GetMissing, Renewed, Rejected, Active
<1>5. ASSUME NEW a \in Agents, Conflict(a) \/ ApiError(a) \/ AnswerLost(a)
      PROVE  \A t \in Sessions : Active(t)' => Active(t)
  BY <1>3, <1>5 DEF Conflict, ApiError, AnswerLost
<1>6. ASSUME NEW a \in Agents, Acquired(a)
      PROVE  \A t \in Sessions : Active(t)' => Active(t)
  <2>1. a = Caller(S(a)) /\ S(a) \in Sessions /\ at[a] # "off"
    BY <1>6, AgentFacts DEF Acquired, Write
  <2>2. Active(S(a))
    BY <2>1 DEF TypeOK, Active
  <2> QED
    BY <1>6, <2>1, <2>2 DEF TypeOK, Acquired, Active
<1>7. ASSUME NEW s \in Sessions, UnlockStart(s) \/ Unlocked(s) \/ UnlockFails(s) \/ Cancel(s)
      PROVE  \A t \in Sessions : Active(t)' => Active(t)
  BY <1>7 DEF TypeOK, UnlockStart, Unlocked, UnlockFails, Cancel, Active
<1>8. ASSUME NEW i \in Ids, Crash(i) PROVE \A t \in Sessions : Active(t)' => Active(t)
  BY <1>8 DEF Crash, Active
<1>9. ASSUME Tick \/ UNCHANGED vars PROVE \A t \in Sessions : Active(t)' => Active(t)
  BY <1>9 DEF Tick, vars, Active
<1> QED
  BY <1>1, <1>2, <1>4, <1>5, <1>6, <1>7, <1>8, <1>9 DEF Next, tryAcquireOrRenew
-----------------------------------------------------------------------------
(* Owners are covered by their lease.                                      *)

\* Types of what Covered speaks of, in the form the arithmetic needs.
LEMMA Numbers ==
    ASSUME TypeOK, NEW s \in Sessions
    PROVE  /\ clock \in Nat /\ time[Refresher(s)] \in Nat /\ cancelAt[s] \in Nat
           /\ fails[s] \in 0 .. MaxFails /\ Slack(fails[s]) \in Nat
           /\ Slack(0) \in Nat /\ Slack(MaxFails) \in Nat
           /\ lease # NoLease => renewed(s) \in Int
<1>1. /\ clock \in Nat /\ time[Refresher(s)] \in Nat /\ cancelAt[s] \in Nat
      /\ fails[s] \in 0 .. MaxFails
  BY AgentFacts DEF TypeOK
<1>2. 0 \in 0 .. MaxFails /\ MaxFails \in 0 .. MaxFails
  BY Durations
<1>3. lease # NoLease => lease.renew \in Int
  BY NoLeaseFact DEF TypeOK
<1>4. Slack(fails[s]) \in Nat /\ Slack(0) \in Nat /\ Slack(MaxFails) \in Nat
  BY <1>1, <1>2, SlackFacts
<1>5. lease # NoLease => renewed(s) \in Int
  <2>1. Skew[LeaseID[s]] \in Int
    BY Identities
  <2> QED
    BY <1>3, <2>1 DEF renewed
<1> QED
  BY <1>1, <1>4, <1>5

\* While its context is not done, an owner's refresher is on time ...
LEMMA RefreshedClock ==
    ASSUME TypeOK, Timers, NEW s \in Sessions, Covered(s), ~ctxDone[s]
    PROVE  clock <= renewed(s) + Slack(MaxFails) + ApiDelay
<1> DEFINE r == Refresher(s)
<1>1. lease # NoLease
  BY DEF Covered
<1>2. Slack(fails[s]) <= Slack(MaxFails)
  BY Numbers, SlackFacts
<1>3. at[r] # "off" /\ time[r] <= renewed(s) + Slack(fails[s])
  BY DEF Covered
<1>4. r \in Agents /\ at[r] \in {"off", "sleep"} \cup InFlight
  BY AgentFacts DEF TypeOK
<1>5. CASE at[r] = "sleep"
  <2>1. clock <= time[r]
    BY <1>4, <1>5 DEF Timers
  <2> QED
    BY <1>1, <1>2, <1>3, <2>1, Numbers, Durations
<1>6. CASE at[r] \in InFlight
  <2>1. clock <= time[r] + ApiDelay
    BY <1>4, <1>6 DEF Timers
  <2> QED
    BY <1>1, <1>2, <1>3, <2>1, Numbers, Durations
<1> QED
  BY <1>3, <1>4, <1>5, <1>6

\* ... so the present is never far from the last renewal of an owner's lease.
LEMMA OwnerClock ==
    ASSUME TypeOK, Timers, NEW s \in Sessions, Owner(s), Covered(s)
    PROVE  clock <= renewed(s) + Slack(MaxFails) + ApiDelay + AbortDelay
<1>1. lease # NoLease
  BY DEF Covered
<1>2. CASE ctxDone[s]
  <2>1. cancelAt[s] <= renewed(s) + Slack(MaxFails) + ApiDelay
    BY <1>2 DEF Covered
  <2>2. clock <= cancelAt[s] + AbortDelay
    BY <1>2 DEF Timers
  <2> QED
    BY <1>1, <2>1, <2>2, Numbers, Durations
<1>3. CASE ~ctxDone[s]
  BY <1>1, <1>3, RefreshedClock, Numbers, Durations
<1> QED
  BY <1>2, <1>3

\* While the lock is held, no other instance writes the lease.
LEMMA NoForeignWrite ==
    ASSUME PromptEnough, TypeOK, Timers, Snapshots,
           NEW s \in Sessions, Owner(s), Covered(s), NEW a \in Agents, Write(a)
    PROVE  Id(a) = LeaseID[s]
<1> SUFFICES ASSUME Id(a) # LeaseID[s] PROVE FALSE
  OBVIOUS
<1>1. lease # NoLease /\ lease.holder = LeaseID[s]
  BY DEF Covered
<1>2. at[a] = "update" /\ fresh[a]
  BY <1>1 DEF Write
<1>3. ~(lease.renew + leaseDuration > now(a))
  BY <1>1, <1>2 DEF Snapshots, Held
<1>4. time[a] <= clock /\ time[a] \in Nat
  BY <1>2 DEF Timers, InFlight, TypeOK
<1>5. lease.renew \in Int
  BY <1>1, NoLeaseFact DEF TypeOK
<1>6. /\ LeaseID[s] \in Ids /\ Skew[LeaseID[s]] \in Int
      /\ Id(a) \in Ids /\ Skew[Id(a)] \in Int
  BY Identities
<1>7. lease.renew + leaseDuration <= time[a] + Skew[Id(a)]
  BY <1>3, <1>4, <1>5, <1>6, Durations DEF now
<1>8. clock <= lease.renew - Skew[LeaseID[s]] + Slack(MaxFails) + ApiDelay + AbortDelay
  BY OwnerClock DEF renewed
<1>9. Slack(MaxFails) + ApiDelay + AbortDelay + Skew[Id(a)] - Skew[LeaseID[s]] < leaseDuration
  BY <1>6 DEF PromptEnough
<1>10. clock \in Nat /\ Slack(MaxFails) \in Nat
  BY Numbers
<1> QED
  BY <1>4, <1>5, <1>6, <1>7, <1>8, <1>9, <1>10, Durations

\* After a write by its own instance an owner is covered, whichever of the
\* goroutines made it: the attempt began at most ApiDelay ago.
LEMMA OwnWrite ==
    ASSUME TypeOK, Timers, TypeOK', NEW s \in Sessions, NEW a \in Agents,
           Write(a), Id(a) = LeaseID[s],
           ~ctxDone'[s] => /\ at'[Refresher(s)] # "off"
                           /\ time'[Refresher(s)] <= clock + leaseRenewInterval
                           /\ at'[Refresher(s)] = "update" => time'[Refresher(s)] <= clock,
           ctxDone'[s] => cancelAt'[s] <= clock
    PROVE  Covered(s)'
<1> DEFINE r == Refresher(s)
<1>1. lease' = [holder |-> Id(a), renew |-> now(a)]
  BY DEF Write
<1>2. time[a] \in Nat /\ Skew[Id(a)] \in Int /\ clock <= time[a] + ApiDelay
  BY Identities DEF TypeOK, Timers, Write, InFlight
<1>3. lease'.holder = LeaseID[s] /\ lease'.renew - Skew[LeaseID[s]] = time[a]
  BY <1>1, <1>2 DEF now
<1>4. lease' # NoLease
  BY WriteTypes, NoLeaseFact
<1>5. /\ Slack(0) = 2 * ApiDelay + leaseRenewInterval
      /\ fails'[s] \in 0 .. MaxFails
      /\ Slack(0) <= Slack(fails'[s]) /\ Slack(fails'[s]) \in Nat
      /\ Slack(fails'[s]) <= Slack(MaxFails) /\ Slack(MaxFails) \in Nat
  <2>1. fails'[s] \in 0 .. MaxFails
    BY DEF TypeOK
  <2>2. MaxFails \in 0 .. MaxFails
    BY Durations
  <2> QED
    BY <2>1, <2>2, SlackFacts
<1>6. clock \in Nat /\ time'[r] \in Nat /\ cancelAt'[s] \in Nat
  BY AgentFacts DEF TypeOK
<1>7. ~ctxDone'[s] => time'[r] <= time[a] + Slack(fails'[s])
  BY <1>2, <1>5, <1>6, Durations
<1>8. ~ctxDone'[s] /\ at'[r] = "update" => time'[r] <= time[a] + ApiDelay
  BY <1>2, <1>6, Durations
<1>9. ctxDone'[s] => cancelAt'[s] <= time[a] + Slack(MaxFails) + ApiDelay
  BY <1>2, <1>5, <1>6, Durations
<1> QED
  BY <1>3, <1>4, <1>7, <1>8, <1>9 DEF Covered, renewed

\* A step that does not touch the lease, the session and its refresher keeps
\* an owner covered.
LEMMA CoveredFrame ==
    ASSUME NEW s \in Sessions, Covered(s), lease' = lease,
           at'[Refresher(s)] = at[Refresher(s)], time'[Refresher(s)] = time[Refresher(s)],
           fresh'[Refresher(s)] = fresh[Refresher(s)], ctxDone'[s] = ctxDone[s],
           cancelAt'[s] = cancelAt[s], fails'[s] = fails[s]
    PROVE  Covered(s)'
BY DEF Covered, renewed

\* A refresher that fails for a reason other than a lost lease is back in time.
LEMMA RefreshFails ==
    ASSUME TypeOK, TypeOK', Timers, NEW s \in Sessions, Covered(s), lease' = lease,
           UNCHANGED <<clock, ctxDone, cancelAt>>, RefresherFails(s),
           at[Refresher(s)] \in InFlight,
           ~ctxDone[s] => \/ fails'[s] = fails[s] + 1
                          \/ fails'[s] = 0 /\ time[Refresher(s)] <= renewed(s) + ApiDelay
    PROVE  Covered(s)'
<1> DEFINE r == Refresher(s)
<1>1. r \in Agents
  BY AgentFacts
<1>2. lease' # NoLease /\ lease'.holder = LeaseID[s] /\ renewed(s)' = renewed(s)
  BY DEF Covered, renewed
<1>3. CASE ctxDone[s]
  BY <1>2, <1>3 DEF Covered
<1>4. CASE ~ctxDone[s]
  <2>1. at'[r] = "sleep" /\ time'[r] = clock + leaseRenewInterval
    BY <1>1, <1>4 DEF RefresherFails, To, TypeOK
  <2>2. clock <= time[r] + ApiDelay
    BY <1>1 DEF Timers
  <2>3. time[r] <= renewed(s) + Slack(fails[s])
    BY <1>4 DEF Covered
  <2>4. lease # NoLease
    BY DEF Covered
  <2>5. Slack(fails[s] + 1) = Slack(fails[s]) + leaseRenewInterval + ApiDelay
        /\ Slack(0) = 2 * ApiDelay + leaseRenewInterval
    BY Numbers, SlackFacts
  <2>6. time'[r] <= renewed(s) + Slack(fails'[s])
    <3>1. CASE fails'[s] = fails[s] + 1
      <4>1. Slack(fails'[s]) = Slack(fails[s]) + leaseRenewInterval + ApiDelay
        BY <3>1, <2>5
      <4> QED
        BY <4>1, <2>1, <2>2, <2>3, <2>4, Numbers, Durations
    <3>2. CASE fails'[s] = 0 /\ time[r] <= renewed(s) + ApiDelay
      <4>1. Slack(fails'[s]) = 2 * ApiDelay + leaseRenewInterval
        BY <3>2, <2>5
      <4> QED
        BY <4>1, <3>2, <2>1, <2>2, <2>4, Numbers, Durations
    <3> QED
      BY <1>4, <3>1, <3>2
  <2> QED
    BY <1>2, <1>4, <2>1, <2>6 DEF Covered
<1> QED
  BY <1>3, <1>4

\* Where the refresher of an owner is, for OwnWrite.
LEMMA RefresherInTime ==
    ASSUME TypeOK, Timers, NEW s \in Sessions, Owner(s), Covered(s)
    PROVE  /\ ~ctxDone[s] => /\ at[Refresher(s)] # "off"
                             /\ time[Refresher(s)] <= clock + leaseRenewInterval
                             /\ at[Refresher(s)] = "update" => time[Refresher(s)] <= clock
           /\ ctxDone[s] => cancelAt[s] <= clock
<1> DEFINE r == Refresher(s)
<1>1. r \in Refreshers /\ r \in Agents /\ at[r] \in {"off", "sleep"} \cup InFlight
  BY AgentFacts DEF TypeOK
<1>2. at[r] = "sleep" => time[r] <= clock + leaseRenewInterval
  BY <1>1 DEF Timers
<1>3. at[r] \in InFlight => time[r] <= clock
  BY <1>1 DEF Timers
<1>4. at[r] \in InFlight => time[r] <= clock + leaseRenewInterval
  BY <1>3, Numbers, Durations
<1>5. ~ctxDone[s] => at[r] # "off"
  BY DEF Covered
<1>6. ctxDone[s] => cancelAt[s] <= clock
  BY DEF Timers
<1> QED
  BY <1>1, <1>2, <1>3, <1>4, <1>5, <1>6 DEF InFlight

\* Every step keeps the lease of an owner its own and its refresher on time.
LEMMA CoveredStep ==
    ASSUME PromptEnough, LockInv, [Next]_vars, NEW s \in Sessions, Owner(s)'
    PROVE  Covered(s)'
<1> DEFINE r == Refresher(s)
<1> USE DEF LockInv
<1>a. TypeOK'
  BY TypeStep
<1>b. r \in Refreshers /\ r \in Agents /\ S(r) = s /\ r \notin Callers
  BY AgentFacts
<1>c. Owner(s) => Covered(s)
  BY DEF OwnersCovered
<1>1. ASSUME NEW t \in Sessions, NEW how \in {"locking", "trying"}, LockStart(t, how)
      PROVE  Covered(s)'
  <2>1. s # t /\ Owner(s)
    BY <1>1 DEF TypeOK, LockStart, Owner
  <2>2. r # Caller(t)
    BY <1>b, AgentFacts
  <2> QED
    BY <1>1, <1>b, <1>c, <2>1, <2>2, CoveredFrame DEF TypeOK, LockStart, To
<1>2. ASSUME NEW a \in Agents, Wake(a) PROVE Covered(s)'
  <2>1. Owner(s)
    BY <1>2 DEF Wake, Owner
  <2>2. CASE a # r
    BY <1>2, <1>b, <1>c, <2>1, <2>2, CoveredFrame DEF TypeOK, Wake, To
  <2>3. CASE a = r
    <3>1. at'[r] = "get" /\ time'[r] = clock
      BY <1>2, <1>b, <2>3 DEF TypeOK, Wake, To
    <3>2. clock <= time[r]
      BY <1>2, <1>b, <2>3 DEF Wake, Timers
    <3>3. ~ctxDone[s] => time[r] <= renewed(s) + Slack(fails[s])
      BY <1>c, <2>1 DEF Covered
    <3>4. lease # NoLease
      BY <1>c, <2>1 DEF Covered
    <3>5. ~ctxDone[s] => time'[r] <= renewed(s) + Slack(fails[s])
      BY <3>1, <3>2, <3>3, <3>4, Numbers
    <3> QED
      BY <1>2, <1>c, <2>1, <3>1, <3>5 DEF Wake, Covered, renewed
  <2> QED
    BY <2>2, <2>3
<1>3. ASSUME NEW a \in Agents, StopWaiting(a) PROVE Covered(s)'
  <2>1. Owner(s)
    BY <1>3, AgentFacts DEF TypeOK, StopWaiting, Owner
  <2>2. CASE a # r
    BY <1>3, <1>b, <1>c, <2>1, <2>2, CoveredFrame DEF TypeOK, StopWaiting, To
  <2>3. CASE a = r
    BY <1>3, <1>b, <1>c, <2>1, <2>3 DEF StopWaiting, Covered, renewed
  <2> QED
    BY <2>2, <2>3
<1>4. ASSUME NEW a \in Agents, GetHeld(a) PROVE Covered(s)'
  <2>1. Owner(s)
    BY <1>4, FailureTimer DEF GetHeld, AttemptFails, Owner
  <2>2. a # r
    BY <1>4, <1>b, <1>c, <2>1, Identities DEF GetHeld, Held, Covered
  <2>3. \A b \in Agents \ {a} : at'[b] = at[b] /\ time'[b] = time[b]
    BY <1>4, FailureFrame DEF GetHeld, AttemptFails, To, TypeOK
  <2> QED
    BY <1>4, <1>b, <1>c, <2>1, <2>2, <2>3, CoveredFrame DEF GetHeld
<1>5. ASSUME NEW a \in Agents, GetOpen(a) PROVE Covered(s)'
  <2>1. Owner(s)
    BY <1>5 DEF GetOpen, Owner
  <2>2. CASE a # r
    BY <1>5, <1>b, <1>c, <2>1, <2>2, CoveredFrame DEF TypeOK, GetOpen
  <2>3. CASE a = r
    BY <1>5, <1>b, <1>c, <2>1, <2>3 DEF TypeOK, GetOpen, Covered, renewed
  <2> QED
    BY <2>2, <2>3
<1>6. ASSUME NEW a \in Agents, GetMissing(a) PROVE Covered(s)'
  BY <1>6, <1>c DEF GetMissing, Owner, Covered
<1>7. ASSUME NEW a \in Agents, Acquired(a) PROVE Covered(s)'
  <2>1. CASE s = S(a)
    <3>1. Id(a) = LeaseID[s]
      BY <2>1, Identities
    <3>2. at'[r] = "sleep" /\ time'[r] = clock + leaseRenewInterval /\ ~ctxDone'[s]
      BY <1>7, <1>b, <2>1, AgentFacts DEF TypeOK, Acquired
    <3>3. time'[r] <= clock + leaseRenewInterval
      BY <3>2, Numbers, Durations
    <3> QED
      BY <1>7, <1>a, <3>1, <3>2, <3>3, OwnWrite DEF Acquired
  <2>2. CASE s # S(a)
    <3>1. Owner(s)
      BY <1>7, <2>2, AgentFacts DEF TypeOK, Acquired, Owner
    <3>2. Id(a) = LeaseID[s]
      BY <1>7, <1>c, <3>1, NoForeignWrite DEF Acquired
    <3>3. at'[r] = at[r] /\ time'[r] = time[r]
      BY <1>7, <1>b, <2>2, AgentFacts DEF TypeOK, Acquired
    <3> QED
      BY <1>7, <1>a, <1>c, <3>1, <3>2, <3>3, RefresherInTime, OwnWrite DEF Acquired
  <2> QED
    BY <2>1, <2>2
<1>8. ASSUME NEW a \in Agents, Renewed(a) PROVE Covered(s)'
  <2>1. Owner(s)
    BY <1>8 DEF Renewed, Owner
  <2>2. Id(a) = LeaseID[s]
    BY <1>8, <1>c, <2>1, NoForeignWrite DEF Renewed
  <2>3. CASE a # r
    <3>1. at'[r] = at[r] /\ time'[r] = time[r]
      BY <1>8, <1>b, <2>3 DEF TypeOK, Renewed, To
    <3> QED
      BY <1>8, <1>a, <1>c, <2>1, <2>2, <3>1, RefresherInTime, OwnWrite DEF Renewed
  <2>4. CASE a = r
    <3>1. at'[r] = "sleep" /\ time'[r] = clock + leaseRenewInterval /\ ~ctxDone'[s]
      BY <1>8, <1>b, <2>4 DEF TypeOK, Renewed, To
    <3> QED
      BY <1>8, <1>a, <2>2, <3>1, Numbers, Durations, OwnWrite DEF Renewed
  <2> QED
    BY <2>3, <2>4
<1>9. ASSUME NEW a \in Agents, Conflict(a) PROVE Covered(s)'
  <2>1. Owner(s)
    BY <1>9, FailureTimer DEF Conflict
  <2>2. CASE a # r
    <3>1. at'[r] = at[r] /\ time'[r] = time[r]
      BY <1>9, <1>b, <2>2, FailureFrame DEF Conflict
    <3>2. fails'[s] = fails[s]
      BY <1>9, <1>b, <2>2, AgentFacts DEF TypeOK, Conflict
    <3> QED
      BY <1>9, <1>c, <2>1, <3>1, <3>2, CoveredFrame DEF Conflict
  <2>3. CASE a = r
    <3>1. at[r] = "update" /\ ~fresh[r]
      BY <1>9, <1>b, <2>3 DEF Conflict, Snapshots
    <3>2. RefresherFails(s) /\ fails'[s] = 0
      BY <1>9, <1>b, <2>3 DEF TypeOK, Conflict, AttemptFails
    <3>3. ~ctxDone[s] => time[r] <= renewed(s) + ApiDelay
      BY <1>c, <2>1, <3>1 DEF Covered
    <3> QED
      BY <1>9, <1>a, <1>c, <2>1, <3>1, <3>2, <3>3, RefreshFails DEF Conflict, InFlight
  <2> QED
    BY <2>2, <2>3
<1>11. ASSUME NEW a \in Agents, ApiError(a) PROVE Covered(s)'
  <2>1. Owner(s)
    BY <1>11, FailureTimer DEF ApiError
  <2>2. CASE a # r
    <3>1. at'[r] = at[r] /\ time'[r] = time[r]
      BY <1>11, <1>b, <2>2, FailureFrame DEF ApiError
    <3>2. fails'[s] = fails[s]
      BY <1>11, <1>b, <2>2, AgentFacts DEF TypeOK, ApiError, MayFail
    <3> QED
      BY <1>11, <1>c, <2>1, <3>1, <3>2, CoveredFrame DEF ApiError
  <2>3. CASE a = r
    <3>1. RefresherFails(s) /\ at[r] \in InFlight
      BY <1>11, <1>b, <2>3 DEF ApiError, MayFail, AttemptFails
    <3>2. ~ctxDone[s] => fails'[s] = fails[s] + 1
      BY <1>11, <1>b, <2>3 DEF TypeOK, ApiError, MayFail
    <3> QED
      BY <1>11, <1>a, <1>c, <2>1, <3>1, <3>2, RefreshFails DEF ApiError
  <2> QED
    BY <2>2, <2>3
<1>12. ASSUME NEW a \in Agents, AnswerLost(a) PROVE Covered(s)'
  <2>1. Owner(s)
    BY <1>12, FailureTimer DEF AnswerLost
  <2>2. Id(a) = LeaseID[s]
    BY <1>12, <1>c, <2>1, NoForeignWrite DEF AnswerLost
  <2>3. CASE a # r
    <3>1. at'[r] = at[r] /\ time'[r] = time[r]
      BY <1>12, <1>b, <2>3, FailureFrame DEF AnswerLost
    <3> QED
      BY <1>12, <1>a, <1>c, <2>1, <2>2, <3>1, RefresherInTime, OwnWrite DEF AnswerLost
  <2>4. CASE a = r
    <3>1. RefresherFails(s)
      BY <1>12, <1>b, <2>4 DEF AnswerLost, AttemptFails
    <3>2. ~ctxDone[s] => at'[r] = "sleep" /\ time'[r] = clock + leaseRenewInterval
      BY <1>b, <3>1 DEF TypeOK, RefresherFails, To
    <3>3. ctxDone[s] => cancelAt[s] <= clock
      BY <1>c, <2>1, RefresherInTime
    <3> QED
      BY <1>12, <1>a, <2>2, <3>2, <3>3, Numbers, Durations, OwnWrite DEF AnswerLost
  <2> QED
    BY <2>3, <2>4
<1>13. ASSUME NEW a \in Agents, Rejected(a) PROVE Covered(s)'
  <2>1. Owner(s)
    BY <1>13, AgentFacts DEF TypeOK, Rejected, Owner
  <2> QED
    BY <1>13, <1>b, <1>c, <2>1, CoveredFrame DEF TypeOK, Rejected, To
<1>14. ASSUME NEW t \in Sessions, UnlockStart(t) PROVE Covered(s)'
  BY <1>14, <1>c, CoveredFrame DEF TypeOK, UnlockStart, Owner
<1>15. ASSUME NEW t \in Sessions, Unlocked(t) PROVE Covered(s)'
  <2>1. s # t /\ Owner(s) /\ Owner(t)
    BY <1>15 DEF TypeOK, Unlocked, Owner
  <2>2. LeaseID[s] = LeaseID[t]
    BY <2>1 DEF OwnersCovered, Covered
  <2> QED
    BY <2>1, <2>2 DEF OneCaller, Active, Owner
<1>16. ASSUME NEW t \in Sessions, UnlockFails(t) PROVE Covered(s)'
  BY <1>16, <1>c, CoveredFrame DEF TypeOK, UnlockFails, Owner
<1>17. ASSUME NEW t \in Sessions, Cancel(t) PROVE Covered(s)'
  <2>1. Owner(s)
    BY <1>17 DEF Cancel, Owner
  <2>2. CASE s # t
    BY <1>17, <1>c, <2>1, <2>2, CoveredFrame DEF TypeOK, Cancel
  <2>3. CASE s = t
    <3>1. ctxDone'[s] /\ cancelAt'[s] = clock /\ ~ctxDone[s]
      BY <1>17, <2>3 DEF TypeOK, Cancel
    <3>2. clock <= renewed(s) + Slack(MaxFails) + ApiDelay
      BY <1>c, <2>1, <3>1, RefreshedClock
    <3> QED
      BY <1>17, <1>c, <2>1, <3>1, <3>2 DEF Cancel, Covered, renewed
  <2> QED
    BY <2>2, <2>3
<1>18. ASSUME NEW i \in Ids, Crash(i) PROVE Covered(s)'
  <2>1. LeaseID[s] # i /\ Owner(s)
    BY <1>18 DEF Crash, Owner
  <2>2. Id(r) = LeaseID[s]
    BY <1>b, Identities
  <2> QED
    BY <1>18, <1>b, <1>c, <2>1, <2>2, CoveredFrame DEF Crash
<1>19. CASE Tick
  BY <1>19, <1>c, CoveredFrame DEF Tick, Owner
<1>20. CASE UNCHANGED vars
  BY <1>20, <1>c, CoveredFrame DEF vars, Owner
<1> QED
  BY <1>1, <1>2, <1>3, <1>4, <1>5, <1>6, <1>7, <1>8, <1>9, <1>11, <1>12, <1>13,
     <1>14, <1>15, <1>16, <1>17, <1>18, <1>19, <1>20
  DEF Next, tryAcquireOrRenew

\* The inductive invariant of the lock.
LEMMA LockInvariant == ASSUME PromptEnough PROVE Spec => []LockInv
<1>1. Init => LockInv
  <2>1. Init => OneCaller /\ OwnersCovered
    BY DEF Init, OneCaller, Active, OwnersCovered, Owner
  <2> QED
    BY <2>1, TypeInit, TimersInit, SnapshotsInit DEF LockInv
<1>2. LockInv /\ [Next]_vars => LockInv'
  <2> SUFFICES ASSUME LockInv, [Next]_vars PROVE LockInv'
    OBVIOUS
  <2>1. TypeOK' /\ Timers' /\ Snapshots' /\ OneCaller'
    BY TypeStep, TimersStep, SnapshotsStep, OneCallerStep DEF LockInv
  <2>2. OwnersCovered'
    BY CoveredStep DEF OwnersCovered
  <2> QED
    BY <2>1, <2>2 DEF LockInv
<1> QED
  BY <1>1, <1>2, PTL DEF Spec

\* If the API server and the clocks keep within the lease (PromptEnough), the
\* lease always names whoever holds the lock, so Unlock deletes no lease of
\* another instance.
THEOREM OwnersHoldTheLease == ASSUME PromptEnough PROVE Spec => []OwnerHoldsLease
<1>1. LockInv => OwnerHoldsLease
  BY DEF LockInv, OwnersCovered, Covered, OwnerHoldsLease
<1> QED
  BY <1>1, LockInvariant, PTL

\* If the API server and the clocks keep within the lease, two instances never
\* hold the lock at the same time, through renewals, failures, lost answers,
\* cancelled operations and crashes.
THEOREM LockExcludes == ASSUME PromptEnough PROVE Spec => []MutualExclusion
<1>1. OwnerHoldsLease => MutualExclusion
  BY DEF OwnerHoldsLease, MutualExclusion
<1> QED
  BY <1>1, OwnersHoldTheLease, PTL
-----------------------------------------------------------------------------
(* Lock returns.                                                           *)

\* The bound on the attempts of one session.
InTime(s) ==
    session[s] = "locking" =>
        time[Caller(s)] <= start[s] + lockAcquireTimeout + leasePollInterval

\* The times kept for a caller are natural numbers.
LEMMA WaitNumbers ==
    ASSUME TypeOK, NEW s \in Sessions
    PROVE  clock \in Nat /\ time[Caller(s)] \in Nat /\ start[s] \in Nat
BY AgentFacts DEF TypeOK

\* A failed attempt of another agent does not concern the caller of s; after
\* its own it pauses only before the timeout.
LEMMA WaitAfterFailure ==
    ASSUME TypeOK, NEW a \in Agents, AttemptFails(a), start' = start,
           NEW s \in Sessions, InTime(s)
    PROVE  InTime(s)'
<1> DEFINE c == Caller(s)
<1>1. c \in Agents /\ c \in Callers /\ S(c) = s
  BY AgentFacts
<1>2. CASE a = c
  <2>1. CallerFails(s)
    BY <1>1, <1>2, AgentFacts DEF AttemptFails
  <2>2. session'[s] = "locking"
          => time'[c] = clock + leasePollInterval /\ clock - start[s] < lockAcquireTimeout
    BY <1>1, <2>1 DEF TypeOK, CallerFails, To
  <2> QED
    BY <2>2, WaitNumbers, Durations DEF InTime
<1>3. CASE a # c
  <2>1. time'[c] = time[c]
    BY <1>1, <1>3, FailureFrame
  <2>2. session'[s] = session[s]
    BY <1>1, <1>3, AgentFacts DEF TypeOK, AttemptFails, CallerFails, RefresherFails
  <2> QED
    BY <2>1, <2>2 DEF InTime
<1> QED
  BY <1>2, <1>3

\* Every step keeps the attempts of a call of Lock within its time.
LEMMA WaitStep ==
    ASSUME TypeOK, Timers, [Next]_vars, NEW s \in Sessions, InTime(s)
    PROVE  InTime(s)'
<1> DEFINE c == Caller(s)
<1>0. c \in Agents /\ c \in Callers /\ S(c) = s /\ c \notin Refreshers
  BY AgentFacts
<1>1. ASSUME NEW t \in Sessions, NEW how \in {"locking", "trying"}, LockStart(t, how)
      PROVE  InTime(s)'
  <2>1. CASE s = t
    <3>1. time'[c] = clock /\ start'[s] = clock
      BY <1>0, <1>1, <2>1 DEF TypeOK, LockStart, To
    <3> QED
      BY <3>1, WaitNumbers, Durations DEF InTime
  <2>2. CASE s # t
    BY <1>0, <1>1, <2>2, AgentFacts DEF TypeOK, LockStart, To, InTime
  <2> QED
    BY <2>1, <2>2
<1>2. ASSUME NEW a \in Agents, Wake(a) PROVE InTime(s)'
  <2>1. CASE a = c
    <3>1. time'[c] = clock /\ clock <= time[c] /\ session' = session /\ start' = start
      BY <1>0, <1>2, <2>1 DEF TypeOK, Wake, To, Timers
    <3> QED
      BY <3>1, WaitNumbers, Durations DEF InTime
  <2>2. CASE a # c
    BY <1>0, <1>2, <2>2 DEF TypeOK, Wake, To, InTime
  <2> QED
    BY <2>1, <2>2
<1>3. ASSUME NEW a \in Agents, StopWaiting(a) \/ Rejected(a) PROVE InTime(s)'
  <2>1. CASE a = c
    BY <1>0, <1>3, <2>1 DEF TypeOK, StopWaiting, Rejected, InTime
  <2>2. CASE a # c
    BY <1>0, <1>3, <2>2, AgentFacts DEF TypeOK, StopWaiting, Rejected, To, InTime
  <2> QED
    BY <2>1, <2>2
<1>4. ASSUME NEW a \in Agents, GetHeld(a) PROVE InTime(s)'
  <2>1. CASE a \in Callers /\ CallerFails(S(a))
    BY <1>4, <2>1, WaitAfterFailure DEF GetHeld, AttemptFails
  <2>2. CASE a \in Refreshers /\ To(a, "off", 0) /\ UNCHANGED session
    BY <1>0, <1>4, <2>2 DEF TypeOK, GetHeld, To, InTime
  <2> QED
    BY <1>4, <2>1, <2>2 DEF GetHeld
<1>5. ASSUME NEW a \in Agents, GetOpen(a) PROVE InTime(s)'
  BY <1>5 DEF GetOpen, InTime
<1>6. ASSUME NEW a \in Agents, GetMissing(a) PROVE InTime(s)'
  BY <1>0, <1>6 DEF TypeOK, GetMissing, To, InTime
<1>7. ASSUME NEW a \in Agents, Acquired(a) PROVE InTime(s)'
  <2>1. CASE s = S(a)
    BY <1>7, <2>1 DEF TypeOK, Acquired, InTime
  <2>2. CASE s # S(a)
    <3>1. c # a /\ c # Refresher(S(a))
      BY <1>0, <2>2, AgentFacts
    <3> QED
      BY <1>0, <1>7, <2>2, <3>1 DEF TypeOK, Acquired, InTime
  <2> QED
    BY <2>1, <2>2
<1>8. ASSUME NEW a \in Agents, Renewed(a) PROVE InTime(s)'
  BY <1>0, <1>8 DEF TypeOK, Renewed, To, InTime
<1>9. ASSUME NEW a \in Agents, Conflict(a) \/ ApiError(a) \/ AnswerLost(a) PROVE InTime(s)'
  BY <1>9, WaitAfterFailure DEF Conflict, ApiError, AnswerLost
<1>10. ASSUME NEW t \in Sessions, UnlockStart(t) \/ Unlocked(t) \/ UnlockFails(t) \/ Cancel(t)
       PROVE  InTime(s)'
  BY <1>10 DEF TypeOK, UnlockStart, Unlocked, UnlockFails, Cancel, InTime
<1>11. ASSUME NEW i \in Ids, Crash(i) PROVE InTime(s)'
  <2>1. Id(c) = LeaseID[s]
    BY <1>0, Identities
  <2> QED
    BY <1>0, <1>11, <2>1 DEF Crash, InTime
<1>12. CASE Tick \/ UNCHANGED vars
  BY <1>12 DEF Tick, vars, InTime
<1> QED
  BY <1>1, <1>2, <1>3, <1>4, <1>5, <1>6, <1>7, <1>8, <1>9, <1>10, <1>11, <1>12
  DEF Next, tryAcquireOrRenew

\* A call of Lock lasts at most lockAcquireTimeout, one more pause and one more
\* attempt, whatever the other instances and the API server do.
THEOREM LockCallReturns == Spec => []LockReturns
<1> DEFINE WaitInv == TypeOK /\ Timers /\ WaitBounded
<1>1. Init => WaitInv
  <2>1. Init => WaitBounded
    BY DEF Init, WaitBounded
  <2> QED
    BY <2>1, TypeInit, TimersInit
<1>2. WaitInv /\ [Next]_vars => WaitInv'
  <2> SUFFICES ASSUME WaitInv, [Next]_vars PROVE WaitInv'
    OBVIOUS
  <2>1. \A s \in Sessions : InTime(s)'
    <3>1. \A s \in Sessions : InTime(s)
      BY DEF WaitBounded, InTime
    <3> QED
      BY <3>1, WaitStep
  <2>2. WaitBounded'
    BY <2>1 DEF WaitBounded, InTime
  <2> QED
    BY <2>2, TypeStep, TimersStep
<1>3. WaitInv => LockReturns
  <2> SUFFICES ASSUME WaitInv, NEW s \in Sessions, session[s] = "locking"
               PROVE  clock <= start[s] + lockAcquireTimeout + leasePollInterval + ApiDelay
    BY DEF LockReturns
  <2>1. Caller(s) \in Agents /\ at[Caller(s)] \in {"sleep"} \cup InFlight
    BY AgentFacts DEF TypeOK
  <2>2. time[Caller(s)] <= start[s] + lockAcquireTimeout + leasePollInterval
    BY DEF WaitBounded
  <2>3. clock <= time[Caller(s)] + ApiDelay
    <3>1. CASE at[Caller(s)] = "sleep"
      <4>1. clock <= time[Caller(s)]
        BY <2>1, <3>1 DEF Timers
      <4> QED
        BY <4>1, WaitNumbers, Durations
    <3>2. CASE at[Caller(s)] \in InFlight
      BY <2>1, <3>2 DEF Timers
    <3> QED
      BY <2>1, <3>1, <3>2
  <2> QED
    BY <2>2, <2>3, WaitNumbers, Durations
<1> QED
  BY <1>1, <1>2, <1>3, PTL DEF Spec
-----------------------------------------------------------------------------
(* A refresher takes over no lease.                                        *)

\* Types of what SoonTold speaks of.
LEMMA ToldNumbers ==
    ASSUME TypeOK, NEW a \in Refreshers
    PROVE  /\ a \in Agents /\ S(a) \in Sessions /\ a \notin Callers /\ a = Refresher(S(a))
           /\ clock \in Nat /\ time[a] \in Nat
           /\ at[a] \in {"off", "sleep"} \cup InFlight
           /\ fails[S(a)] \in 0 .. MaxFails
           /\ Slack(fails[S(a)]) \in Nat /\ Slack(0) \in Nat
           /\ Slack(0) = 2 * ApiDelay + leaseRenewInterval
           /\ Slack(0) <= Slack(fails[S(a)])
           /\ Slack(fails[S(a)]) <= Slack(MaxFails) /\ Slack(MaxFails) \in Nat
           /\ Slack(fails[S(a)] + 1) = Slack(fails[S(a)]) + leaseRenewInterval + ApiDelay
           /\ lease # NoLease => written \in Int
<1>1. a \in Agents /\ S(a) \in Sessions /\ a \notin Callers /\ a = Refresher(S(a))
  BY AgentFacts
<1>2. /\ clock \in Nat /\ time[a] \in Nat /\ at[a] \in {"off", "sleep"} \cup InFlight
      /\ fails[S(a)] \in 0 .. MaxFails
  BY <1>1 DEF TypeOK
<1>3. 0 \in 0 .. MaxFails /\ MaxFails \in 0 .. MaxFails
  BY Durations
<1>4. lease # NoLease => written \in Int
  <2>1. lease # NoLease => lease.renew \in Int /\ lease.holder \in Ids
    BY NoLeaseFact DEF TypeOK
  <2>2. \A i \in Ids : Skew[i] \in Int
    BY TimingAssumption
  <2> QED
    BY <2>1, <2>2 DEF written
<1>5. Slack(0) \in Nat /\ Slack(MaxFails) \in Nat
  BY <1>3, SlackFacts
<1> QED
  BY <1>1, <1>2, <1>4, <1>5, SlackFacts

\* A step that leaves the lease and the refresher alone, or cancels its context.
LEMMA ToldFrame ==
    ASSUME NEW a \in Refreshers, SoonTold(a), lease' = lease,
           at'[a] = at[a], time'[a] = time[a], fresh'[a] = fresh[a],
           ctxDone'[S(a)] = ctxDone[S(a)] \/ ctxDone'[S(a)], fails'[S(a)] = fails[S(a)]
    PROVE  SoonTold(a)'
BY DEF SoonTold, Deposed, written, Id

\* A refresher that has ended, or whose lease is gone, needs not be told.
LEMMA ToldEnd ==
    ASSUME NEW a \in Refreshers, at'[a] = "off" \/ lease' = NoLease
    PROVE  SoonTold(a)'
BY DEF SoonTold, Deposed

\* Whoever writes the lease began at most ApiDelay ago; every refresher of another
\* instance begins its next attempt within one interval.
LEMMA ToldWrite ==
    ASSUME TypeOK, TypeOK', Timers, NEW b \in Agents, Write(b), NEW a \in Refreshers,
           LeaseID[S(a)] # LeaseID[S(b)] => at'[a] = at[a] /\ time'[a] = time[a]
    PROVE  SoonTold(a)'
<1>1. lease' = [holder |-> Id(b), renew |-> now(b)]
  BY DEF Write
<1>2. time[b] \in Nat /\ Skew[Id(b)] \in Int /\ clock <= time[b] + ApiDelay
  BY Identities DEF TypeOK, Timers, Write, InFlight
<1>3. lease'.holder = Id(b) /\ written' = time[b]
  BY <1>1, <1>2 DEF now, written
<1>4. CASE Id(a) = Id(b)
  BY <1>3, <1>4 DEF SoonTold, Deposed, Id
<1>5. CASE Id(a) # Id(b)
  <2>1. at'[a] = at[a] /\ time'[a] = time[a]
    BY <1>5 DEF Id
  <2>2. at[a] = "sleep" => time[a] <= clock + leaseRenewInterval
    BY DEF Timers
  <2>3. at[a] \in InFlight => time[a] <= clock
    BY ToldNumbers DEF Timers
  <2>4. /\ fails'[S(a)] \in 0 .. MaxFails
        /\ Slack(0) <= Slack(fails'[S(a)]) /\ Slack(fails'[S(a)]) \in Nat
    BY ToldNumbers, SlackFacts DEF TypeOK
  <2>5. at[a] # "off" => time[a] <= clock + leaseRenewInterval
    BY <2>2, <2>3, ToldNumbers, Durations
  <2>6. at[a] # "off" => time'[a] <= written' + Slack(fails'[S(a)])
    BY <1>2, <1>3, <2>1, <2>4, <2>5, ToldNumbers, Durations
  <2>7. at[a] = "update" => time'[a] <= written' + ApiDelay
    <3>1. at[a] = "update" => time[a] <= clock
      BY <2>3 DEF InFlight
    <3> QED
      BY <1>2, <1>3, <2>1, <3>1, ToldNumbers, Durations
  <2> QED
    BY <2>1, <2>6, <2>7 DEF SoonTold, Deposed
<1> QED
  BY <1>4, <1>5

\* An attempt that fails for another reason costs one interval and one request.
LEMMA ToldAfterFailure ==
    ASSUME TypeOK, Timers, NEW a \in Refreshers, SoonTold(a), lease' = lease,
           UNCHANGED ctxDone, RefresherFails(S(a)), at[a] \in InFlight,
           ~ctxDone[S(a)] => \/ fails'[S(a)] = fails[S(a)] + 1
                             \/ fails'[S(a)] = 0 /\ at[a] = "update" /\ ~fresh[a]
    PROVE  SoonTold(a)'
<1> SUFFICES ASSUME Deposed(a)'
             PROVE  /\ time'[a] <= written' + Slack(fails'[S(a)])
                    /\ at'[a] # "update"
  BY DEF SoonTold
<1>1. ~ctxDone[S(a)] /\ lease # NoLease /\ written' = written /\ Deposed(a)
  BY DEF Deposed, written, Id, InFlight
<1>2. at'[a] = "sleep" /\ time'[a] = clock + leaseRenewInterval
  BY <1>1, ToldNumbers DEF RefresherFails, To, TypeOK
<1>3. clock <= time[a] + ApiDelay
  BY ToldNumbers DEF Timers
<1>4. CASE fails'[S(a)] = fails[S(a)] + 1
  <2>1. time[a] <= written + Slack(fails[S(a)])
    BY <1>1 DEF SoonTold
  <2>2. Slack(fails'[S(a)]) = Slack(fails[S(a)]) + leaseRenewInterval + ApiDelay
    BY <1>4, ToldNumbers
  <2>3. time'[a] <= written' + Slack(fails'[S(a)])
    BY <1>1, <1>2, <1>3, <2>1, <2>2, ToldNumbers, Durations
  <2> QED
    BY <1>2, <2>3
<1>5. CASE fails'[S(a)] = 0 /\ at[a] = "update" /\ ~fresh[a]
  <2>1. time[a] <= written + ApiDelay
    BY <1>1, <1>5 DEF SoonTold
  <2>2. Slack(fails'[S(a)]) = 2 * ApiDelay + leaseRenewInterval
    BY <1>5, ToldNumbers
  <2>3. time'[a] <= written' + Slack(fails'[S(a)])
    BY <1>1, <1>2, <1>3, <2>1, <2>2, ToldNumbers, Durations
  <2> QED
    BY <1>2, <2>3
<1> QED
  BY <1>1, <1>4, <1>5

\* Every step keeps a refresher that has lost its lease on time.
LEMMA ToldStep ==
    ASSUME TypeOK, Timers, Snapshots, [Next]_vars, NEW a \in Refreshers, SoonTold(a)
    PROVE  SoonTold(a)'
<1>0. /\ a \in Agents /\ S(a) \in Sessions /\ a \notin Callers /\ a = Refresher(S(a))
      /\ Id(a) = LeaseID[S(a)]
  BY AgentFacts, Identities
<1>a. TypeOK'
  BY TypeStep
<1>1. ASSUME NEW t \in Sessions, NEW how \in {"locking", "trying"}, LockStart(t, how)
      PROVE  SoonTold(a)'
  <2>1. CASE t = S(a)
    <3>1. at'[a] = "off"
      BY <1>0, <1>1, <2>1, AgentFacts DEF TypeOK, LockStart, To
    <3> QED
      BY <3>1, ToldEnd
  <2>2. CASE t # S(a)
    BY <1>0, <1>1, <2>2, AgentFacts, ToldFrame DEF TypeOK, LockStart, To
  <2> QED
    BY <2>1, <2>2
<1>2. ASSUME NEW b \in Agents, Wake(b) PROVE SoonTold(a)'
  <2>1. CASE a = b
    <3>1. time'[a] = clock /\ clock <= time[a] /\ time[a] <= clock /\ at'[a] = "get"
      BY <1>0, <1>2, <2>1 DEF TypeOK, Wake, To, Timers
    <3>2. time'[a] = time[a]
      BY <3>1, ToldNumbers
    <3> QED
      BY <1>2, <2>1, <3>1, <3>2 DEF Wake, SoonTold, Deposed, written, Id
  <2>2. CASE a # b
    BY <1>0, <1>2, <2>2, ToldFrame DEF TypeOK, Wake, To
  <2> QED
    BY <2>1, <2>2
<1>3. ASSUME NEW b \in Agents, StopWaiting(b) \/ Rejected(b) PROVE SoonTold(a)'
  <2>1. CASE a = b
    <3>1. at'[a] = "off"
      BY <1>0, <1>3, <2>1 DEF TypeOK, StopWaiting, Rejected, To
    <3> QED
      BY <3>1, ToldEnd
  <2>2. CASE a # b
    BY <1>0, <1>3, <2>2, ToldFrame DEF TypeOK, StopWaiting, Rejected, To
  <2> QED
    BY <2>1, <2>2
<1>4. ASSUME NEW b \in Agents, GetHeld(b) \/ GetMissing(b) PROVE SoonTold(a)'
  <2>1. CASE a = b
    <3>1. at'[a] = "off"
      BY <1>0, <1>4, <2>1 DEF TypeOK, GetHeld, GetMissing, To
    <3> QED
      BY <3>1, ToldEnd
  <2>2. CASE a # b
    <3>1. at'[a] = at[a] /\ time'[a] = time[a]
      BY <1>0, <1>4, <2>2, AgentFacts DEF TypeOK, GetHeld, GetMissing, CallerFails, To
    <3> QED
      BY <1>4, <3>1, ToldFrame DEF GetHeld, GetMissing
  <2> QED
    BY <2>1, <2>2
<1>5. ASSUME NEW b \in Agents, GetOpen(b) PROVE SoonTold(a)'
  <2>1. CASE a = b
    <3>1. at'[a] = "update" /\ fresh'[a] /\ at[a] = "get"
      BY <1>0, <1>5, <2>1 DEF TypeOK, GetOpen
    <3> QED
      BY <1>5, <3>1 DEF GetOpen, SoonTold, Deposed, written, Id
  <2>2. CASE a # b
    BY <1>0, <1>5, <2>2, ToldFrame DEF TypeOK, GetOpen
  <2> QED
    BY <2>1, <2>2
<1>6. ASSUME NEW b \in Agents, Acquired(b) PROVE SoonTold(a)'
  <2>1. Write(b) /\ Id(b) = LeaseID[S(b)]
    BY <1>6, Identities DEF Acquired
  <2>2. CASE S(a) = S(b)
    BY <1>a, <2>1, <2>2, ToldWrite
  <2>3. CASE S(a) # S(b)
    <3>1. a # b /\ a # Refresher(S(b))
      BY <1>6, <2>3, AgentFacts
    <3>2. at'[a] = at[a] /\ time'[a] = time[a]
      BY <1>0, <1>6, <3>1 DEF TypeOK, Acquired
    <3> QED
      BY <1>a, <2>1, <3>2, ToldWrite
  <2> QED
    BY <2>2, <2>3
<1>7. ASSUME NEW b \in Agents, Renewed(b) PROVE SoonTold(a)'
  <2>1. a # b => at'[a] = at[a] /\ time'[a] = time[a]
    BY <1>0, <1>7 DEF TypeOK, Renewed, To
  <2>2. LeaseID[S(a)] # LeaseID[S(b)] => at'[a] = at[a] /\ time'[a] = time[a]
    BY <2>1
  <2>3. Write(b)
    BY <1>7 DEF Renewed
  <2> QED
    BY <1>a, <2>2, <2>3, ToldWrite
<1>8. ASSUME NEW b \in Agents, Conflict(b) PROVE SoonTold(a)'
  <2>1. CASE a = b
    <3>1. at[a] = "update" /\ ~fresh[a] /\ at[a] \in InFlight
      BY <1>8, <2>1 DEF Conflict, Snapshots, InFlight
    <3>2. fails'[S(a)] = 0
      BY <1>0, <1>8, <2>1 DEF Conflict, TypeOK
    <3>3. RefresherFails(S(a))
      BY <1>0, <1>8, <2>1 DEF Conflict, AttemptFails
    <3> QED
      BY <1>8, <3>1, <3>2, <3>3, ToldAfterFailure DEF Conflict
  <2>2. CASE a # b
    <3>1. at'[a] = at[a] /\ time'[a] = time[a]
      BY <1>0, <1>8, <2>2, FailureFrame DEF Conflict
    <3>2. fails'[S(a)] = fails[S(a)]
      <4>1. b \in Refreshers => S(b) # S(a)
        BY <1>0, <2>2, AgentFacts
      <4> QED
        BY <1>0, <1>8, <4>1, AgentFacts DEF Conflict, TypeOK
    <3> QED
      BY <1>8, <3>1, <3>2, ToldFrame DEF Conflict
  <2> QED
    BY <2>1, <2>2
<1>9. ASSUME NEW b \in Agents, ApiError(b) PROVE SoonTold(a)'
  <2>1. CASE a = b
    <3>1. at[a] \in InFlight
      BY <1>9, <2>1 DEF ApiError, MayFail
    <3>2. ~ctxDone[S(a)] => fails'[S(a)] = fails[S(a)] + 1
      BY <1>0, <1>9, <2>1 DEF ApiError, MayFail, TypeOK
    <3>3. RefresherFails(S(a))
      BY <1>0, <1>9, <2>1 DEF ApiError, AttemptFails
    <3> QED
      BY <1>9, <3>1, <3>2, <3>3, ToldAfterFailure DEF ApiError
  <2>2. CASE a # b
    <3>1. at'[a] = at[a] /\ time'[a] = time[a]
      BY <1>0, <1>9, <2>2, FailureFrame DEF ApiError
    <3>2. fails'[S(a)] = fails[S(a)]
      <4>1. b \in Refreshers => S(b) # S(a)
        BY <1>0, <2>2, AgentFacts
      <4> QED
        BY <1>0, <1>9, <4>1, AgentFacts DEF ApiError, MayFail, TypeOK
    <3> QED
      BY <1>9, <3>1, <3>2, ToldFrame DEF ApiError
  <2> QED
    BY <2>1, <2>2
<1>10. ASSUME NEW b \in Agents, AnswerLost(b) PROVE SoonTold(a)'
  <2>1. a # b => at'[a] = at[a] /\ time'[a] = time[a]
    BY <1>0, <1>10, FailureFrame DEF AnswerLost
  <2>2. LeaseID[S(a)] # LeaseID[S(b)] => at'[a] = at[a] /\ time'[a] = time[a]
    BY <2>1
  <2>3. Write(b)
    BY <1>10 DEF AnswerLost
  <2> QED
    BY <1>a, <2>2, <2>3, ToldWrite
<1>11. ASSUME NEW t \in Sessions, UnlockStart(t) \/ UnlockFails(t) PROVE SoonTold(a)'
  BY <1>11, ToldFrame DEF UnlockStart, UnlockFails
<1>12. ASSUME NEW t \in Sessions, Unlocked(t) PROVE SoonTold(a)'
  BY <1>12, ToldEnd DEF Unlocked
<1>13. ASSUME NEW t \in Sessions, Cancel(t) PROVE SoonTold(a)'
  BY <1>0, <1>13, ToldFrame DEF Cancel, TypeOK
<1>14. ASSUME NEW i \in Ids, Crash(i) PROVE SoonTold(a)'
  <2>1. CASE Id(a) = i
    <3>1. at'[a] = "off"
      BY <1>0, <1>14, <2>1 DEF Crash
    <3> QED
      BY <3>1, ToldEnd
  <2>2. CASE Id(a) # i
    BY <1>0, <1>14, <2>2, ToldFrame DEF Crash
  <2> QED
    BY <2>1, <2>2
<1>15. CASE Tick \/ UNCHANGED vars
  BY <1>15, ToldFrame DEF Tick, vars
<1> QED
  BY <1>1, <1>2, <1>3, <1>4, <1>5, <1>6, <1>7, <1>8, <1>9, <1>10, <1>11, <1>12, <1>13,
     <1>14, <1>15 DEF Next, tryAcquireOrRenew

\* A refresher that finds a lease it may update finds its own: the lease of another
\* instance cannot have expired yet.
LEMMA OwnLeaseRead ==
    ASSUME PromptEnough, TypeOK, NEW a \in Refreshers, SoonTold(a), GetOpen(a)
    PROVE  lease.holder = Id(a)
<1> SUFFICES ASSUME lease.holder # Id(a) PROVE FALSE
  OBVIOUS
<1>1. lease # NoLease /\ ~Held(a) /\ Deposed(a)
  BY DEF GetOpen, Deposed
<1>2. lease.renew \in Int /\ lease.holder \in Ids /\ Skew[lease.holder] \in Int
  BY <1>1, NoLeaseFact, TimingAssumption DEF TypeOK
<1>3. Id(a) \in Ids /\ Skew[Id(a)] \in Int
  BY ToldNumbers, Identities
<1>4. lease.renew + leaseDuration <= time[a] + Skew[Id(a)]
  BY <1>1, <1>2, <1>3, ToldNumbers, Durations DEF Held, now
<1>5. time[a] <= lease.renew - Skew[lease.holder] + Slack(fails[S(a)])
  BY <1>1 DEF SoonTold, written
<1>6. Slack(MaxFails) + ApiDelay + AbortDelay + Skew[Id(a)] - Skew[lease.holder] < leaseDuration
  BY <1>2, <1>3 DEF PromptEnough
<1>7. /\ time[a] \in Nat /\ Slack(fails[S(a)]) \in Nat /\ Slack(MaxFails) \in Nat
      /\ Slack(fails[S(a)]) <= Slack(MaxFails)
  BY ToldNumbers
<1> QED
  BY <1>2, <1>3, <1>4, <1>5, <1>6, <1>7, Durations

\* Every step keeps what a refresher is about to update its own lease.
LEMMA OwnRefreshStep ==
    ASSUME PromptEnough, TypeOK, Snapshots, [Next]_vars, NEW a \in Refreshers, SoonTold(a),
           at[a] = "update" /\ fresh[a] => lease.holder = Id(a),
           at'[a] = "update", fresh'[a]
    PROVE  lease'.holder = Id(a)
<1>0. a \in Agents /\ S(a) \in Sessions /\ a \notin Callers /\ a = Refresher(S(a))
  BY AgentFacts
<1>1. fresh' # [b \in Agents |-> FALSE]
  BY <1>0
<1>2. ASSUME at[a] = "update", fresh[a], lease' = lease PROVE lease'.holder = Id(a)
  BY <1>2
<1>3. ASSUME NEW b \in Agents, GetOpen(b) PROVE lease'.holder = Id(a)
  <2>1. CASE a = b
    BY <1>3, <2>1, OwnLeaseRead DEF GetOpen
  <2>2. CASE a # b
    BY <1>0, <1>2, <1>3, <2>2 DEF GetOpen, TypeOK
  <2> QED
    BY <2>1, <2>2
<1>4. ASSUME NEW t \in Sessions, NEW how \in {"locking", "trying"}, LockStart(t, how)
      PROVE  lease'.holder = Id(a)
  BY <1>0, <1>2, <1>4, AgentFacts DEF LockStart, To, TypeOK
<1>5. ASSUME NEW b \in Agents, Wake(b) \/ StopWaiting(b) \/ Rejected(b)
      PROVE  lease'.holder = Id(a)
  BY <1>0, <1>2, <1>5 DEF Wake, StopWaiting, Rejected, To, TypeOK
<1>6. ASSUME NEW b \in Agents, GetHeld(b) \/ GetMissing(b) PROVE lease'.holder = Id(a)
  <2>1. CASE a = b
    BY <1>0, <1>6, <2>1 DEF GetHeld, GetMissing, To, TypeOK
  <2>2. CASE a # b
    <3>1. at'[a] = at[a]
      BY <1>0, <1>6, <2>2, AgentFacts DEF TypeOK, GetHeld, GetMissing, CallerFails, To
    <3> QED
      BY <1>2, <1>6, <3>1 DEF GetHeld, GetMissing
  <2> QED
    BY <2>1, <2>2
<1>7. ASSUME NEW b \in Agents, Acquired(b) \/ Renewed(b) \/ AnswerLost(b)
      PROVE  lease'.holder = Id(a)
  BY <1>1, <1>7 DEF Acquired, Renewed, AnswerLost, Write
<1>8. ASSUME NEW b \in Agents, Conflict(b) \/ ApiError(b) PROVE lease'.holder = Id(a)
  <2>1. AttemptFails(b) /\ lease' = lease /\ fresh' = fresh
    BY <1>8 DEF Conflict, ApiError
  <2>2. CASE a = b
    BY <1>0, <2>1, <2>2 DEF AttemptFails, RefresherFails, To, TypeOK
  <2>3. CASE a # b
    BY <1>0, <1>2, <2>1, <2>3, FailureFrame
  <2> QED
    BY <2>2, <2>3
<1>9. ASSUME NEW t \in Sessions, UnlockStart(t) \/ UnlockFails(t) \/ Cancel(t)
      PROVE  lease'.holder = Id(a)
  BY <1>2, <1>9 DEF UnlockStart, UnlockFails, Cancel
<1>10. ASSUME NEW t \in Sessions, Unlocked(t) PROVE lease'.holder = Id(a)
  BY <1>1, <1>10 DEF Unlocked
<1>11. ASSUME NEW i \in Ids, Crash(i) PROVE lease'.holder = Id(a)
  BY <1>0, <1>2, <1>11 DEF Crash
<1>12. CASE Tick \/ UNCHANGED vars
  BY <1>2, <1>12 DEF Tick, vars
<1> QED
  BY <1>3, <1>4, <1>5, <1>6, <1>7, <1>8, <1>9, <1>10, <1>11, <1>12
  DEF Next, tryAcquireOrRenew

\* If the API server and the clocks keep within the lease, the goroutine
\* keepLockUpdated of an instance that has lost the lock, by a failed Unlock, by a
\* deleted lease or by delay, never takes it from the next holder.
THEOREM RefreshersTakeNothing ==
    ASSUME PromptEnough PROVE Spec => []RefresherRenewsOwnLease
<1> DEFINE RefreshInv == TypeOK /\ Timers /\ Snapshots /\ DeposedAreTold /\ RefresherRenewsOwnLease
<1>1. Init => RefreshInv
  <2>1. Init => DeposedAreTold /\ RefresherRenewsOwnLease
    BY AgentFacts DEF Init, DeposedAreTold, SoonTold, Deposed, RefresherRenewsOwnLease
  <2> QED
    BY <2>1, TypeInit, TimersInit, SnapshotsInit
<1>2. RefreshInv /\ [Next]_vars => RefreshInv'
  <2> SUFFICES ASSUME RefreshInv, [Next]_vars PROVE RefreshInv'
    OBVIOUS
  <2>1. TypeOK' /\ Timers' /\ Snapshots'
    BY TypeStep, TimersStep, SnapshotsStep
  <2>2. DeposedAreTold'
    BY ToldStep DEF DeposedAreTold
  <2>3. RefresherRenewsOwnLease'
    <3> SUFFICES ASSUME NEW a \in Refreshers, at'[a] = "update", fresh'[a]
                 PROVE  lease'.holder = Id(a)
      BY DEF RefresherRenewsOwnLease, Id
    <3> QED
      BY OwnRefreshStep DEF DeposedAreTold, RefresherRenewsOwnLease
  <2> QED
    BY <2>1, <2>2, <2>3
<1>3. RefreshInv => RefresherRenewsOwnLease
  OBVIOUS
<1> QED
  BY <1>1, <1>2, <1>3, PTL DEF Spec
=============================================================================
