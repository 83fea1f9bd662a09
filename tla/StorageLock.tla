---------------------------- MODULE StorageLock ----------------------------
(***************************************************************************)
(* The lock of the certificate storage (pkg/storage/storage.go): one lock  *)
(* name, kept as a Kubernetes Lease that Lock or TryLock creates or takes  *)
(* over, a goroutine renews while the lock is held, and Unlock deletes.    *)
(*                                                                         *)
(* A session is one call of Lock or TryLock, the operation it protects,    *)
(* its Unlock, and the goroutine keepLockUpdated that goes with it.  Time  *)
(* is discrete.  Every request to the API server takes at most ApiDelay,   *)
(* and takes effect before its caller sees the answer or not at all.       *)
(***************************************************************************)
EXTENDS Integers, FiniteSets

CONSTANTS
    Sessions,
    Ids,                 \* lease identities, one per SecretStorage instance
    LeaseID,             \* the identity of each session's instance
    Skew,                \* how far each instance's clock is ahead
    leaseDuration, leaseRenewInterval, leasePollInterval, lockAcquireTimeout,
    ApiDelay,            \* bound: the time one tryAcquireOrRenew takes
    AbortDelay,          \* bound: from ctx.Done to the end of Unlock
    MaxFails,            \* bound: refreshes of a lease that fail in a row
    MaxClock             \* bound: the time that is modelled

ASSUME TimingAssumption ==
    /\ {leaseDuration, leaseRenewInterval, leasePollInterval, lockAcquireTimeout,
        ApiDelay, AbortDelay, MaxFails, MaxClock} \subseteq Nat
    /\ "" \notin Ids
    /\ LeaseID \in [Sessions -> Ids]
    /\ Skew \in [Ids -> Int]

VARIABLES
    clock,     \* true time
    lease,     \* the Lease object, or NoLease
    session,   \* what the caller of each session is at
    at,        \* where each agent is in tryAcquireOrRenew or its waiting
    time,      \* when its attempt began, or when its sleep ends
    fresh,     \* is the resourceVersion it read still the current one?
    start,     \* when Lock was called
    ctxDone,   \* is the session's context done?
    cancelAt,  \* since when
    fails      \* failed refreshes in a row (history variable)

vars == <<clock, lease, session, at, time, fresh, start, ctxDone, cancelAt, fails>>
-----------------------------------------------------------------------------
NoLease == [holder |-> "", renew |-> 0]

Leases == [holder : Ids, renew : Int]

\* The two goroutines of a session that call tryAcquireOrRenew: the caller of
\* Lock (shouldExist = false) and keepLockUpdated (shouldExist = true).
Caller(s) == <<s, "caller">>
Refresher(s) == <<s, "refresher">>
Callers == {Caller(s) : s \in Sessions}
Refreshers == {Refresher(s) : s \in Sessions}
Agents == Callers \cup Refreshers

S(a) == a[1]
Id(a) == LeaseID[S(a)]

\* The time a wrote down when its attempt began, by its own clock.
now(a) == time[a] + Skew[Id(a)]

InFlight == {"get", "create", "update"}

\* The lock is held: the protected operation or its Unlock is running.
Owner(s) == session[s] \in {"critical", "unlocking"}

Active(s) == session[s] # "idle"

Init ==
    /\ clock = 0
    /\ lease = NoLease
    /\ session = [s \in Sessions |-> "idle"]
    /\ at = [a \in Agents |-> "off"]
    /\ time = [a \in Agents |-> 0]
    /\ fresh = [a \in Agents |-> FALSE]
    /\ start = [s \in Sessions |-> 0]
    /\ ctxDone = [s \in Sessions |-> FALSE]
    /\ cancelAt = [s \in Sessions |-> 0]
    /\ fails = [s \in Sessions |-> 0]
-----------------------------------------------------------------------------
To(a, where, t) ==
    /\ at' = [at EXCEPT ![a] = where]
    /\ time' = [time EXCEPT ![a] = t]

\* Lock and TryLock make their first attempt.  certmagic runs one job per
\* name in a process, so an instance has one caller at a time.
LockStart(s, how) ==
    /\ session[s] = "idle"
    /\ at[Refresher(s)] = "off"
    /\ \A t \in Sessions : LeaseID[t] = LeaseID[s] => ~Active(t)
    /\ session' = [session EXCEPT ![s] = how]
    /\ To(Caller(s), "get", clock)
    /\ start' = [start EXCEPT ![s] = clock]
    /\ ctxDone' = [ctxDone EXCEPT ![s] = FALSE]
    /\ cancelAt' = [cancelAt EXCEPT ![s] = 0]
    /\ fails' = [fails EXCEPT ![s] = 0]
    /\ UNCHANGED <<clock, lease, fresh>>

\* The select statements of Lock and keepLockUpdated: the timer fires ...
Wake(a) ==
    /\ at[a] = "sleep"
    /\ clock >= time[a]
    /\ To(a, "get", clock)
    /\ UNCHANGED <<clock, lease, session, fresh, start, ctxDone, cancelAt, fails>>

\* Faulty variant of StopWaiting: Lock's caller is not told.
StopWaiting_does_not_return(a) ==
    /\ at[a] = "sleep"
    /\ ctxDone[S(a)]
    /\ To(a, "off", 0)
    /\ UNCHANGED <<clock, lease, session, fresh, start, ctxDone, cancelAt, fails>>

\* ... or the context is done, and the goroutine returns.
StopWaiting(a) ==
    /\ at[a] = "sleep"
    /\ ctxDone[S(a)]
    /\ To(a, "off", 0)
    /\ session' = IF a \in Callers THEN [session EXCEPT ![S(a)] = "idle"] ELSE session
    /\ UNCHANGED <<clock, lease, fresh, start, ctxDone, cancelAt, fails>>
-----------------------------------------------------------------------------
(* tryAcquireOrRenew and what its callers do with the error it returns.    *)

\* Faulty variant of CallerFails: Lock polls for ever.
CallerFails_never_gives_up(s) ==
    \/ /\ session[s] = "locking"
       /\ To(Caller(s), "sleep", clock + leasePollInterval)
       /\ UNCHANGED session
    \/ /\ session[s] = "trying"
       /\ To(Caller(s), "off", 0)
       /\ session' = [session EXCEPT ![s] = "idle"]

\* Lock: give up after lockAcquireTimeout, otherwise wait and try again.
\* TryLock: report the failure.
CallerFails(s) ==
    \/ /\ session[s] = "locking"
       /\ clock - start[s] < lockAcquireTimeout
       /\ To(Caller(s), "sleep", clock + leasePollInterval)
       /\ UNCHANGED session
    \/ /\ session[s] = "trying" \/ clock - start[s] >= lockAcquireTimeout
       /\ To(Caller(s), "off", 0)
       /\ session' = [session EXCEPT ![s] = "idle"]

\* Faulty variant of RefresherFails: any error ends keepLockUpdated.
RefresherFails_gives_up(s) == To(Refresher(s), "off", 0) /\ UNCHANGED session

\* keepLockUpdated: stop if the context is done, otherwise try again later.
RefresherFails(s) ==
    /\ \/ ctxDone[s] /\ To(Refresher(s), "off", 0)
       \/ ~ctxDone[s] /\ To(Refresher(s), "sleep", clock + leaseRenewInterval)
    /\ UNCHANGED session

AttemptFails(a) ==
    \/ a \in Callers /\ CallerFails(S(a))
    \/ a \in Refreshers /\ RefresherFails(S(a))

\* Faulty variant of Held: a lease is good for one renewal interval.
Held_expires_early(a) ==
    /\ lease.holder # Id(a)
    /\ lease.renew + leaseRenewInterval > now(a)

\* The lease is held by another instance and has not expired by our clock.
Held(a) ==
    /\ lease.holder # Id(a)
    /\ lease.renew + leaseDuration > now(a)

\* Faulty variant of GetHeld: errLockHeld is an error like any other.
GetHeld_keeps_refreshing(a) ==
    /\ at[a] = "get" /\ ~ctxDone[S(a)]
    /\ lease # NoLease /\ Held(a)
    /\ AttemptFails(a)
    /\ UNCHANGED <<clock, lease, fresh, start, ctxDone, cancelAt, fails>>

\* errLockHeld: Lock waits, TryLock returns false, the refresher stops.
GetHeld(a) ==
    /\ at[a] = "get" /\ ~ctxDone[S(a)]
    /\ lease # NoLease /\ Held(a)
    /\ \/ a \in Callers /\ CallerFails(S(a))
       \/ a \in Refreshers /\ To(a, "off", 0) /\ UNCHANGED session
    /\ UNCHANGED <<clock, lease, fresh, start, ctxDone, cancelAt, fails>>

\* The lease is ours or has expired: update it.
GetOpen(a) ==
    /\ at[a] = "get" /\ ~ctxDone[S(a)]
    /\ lease # NoLease /\ ~Held(a)
    /\ at' = [at EXCEPT ![a] = "update"]
    /\ fresh' = [fresh EXCEPT ![a] = TRUE]
    /\ UNCHANGED <<clock, lease, session, time, start, ctxDone, cancelAt, fails>>

\* There is no lease: a caller creates it, for a refresher the lock has been
\* released and it stops.
GetMissing(a) ==
    /\ at[a] = "get" /\ ~ctxDone[S(a)]
    /\ lease = NoLease
    /\ \/ a \in Callers /\ at' = [at EXCEPT ![a] = "create"] /\ UNCHANGED time
       \/ a \in Refreshers /\ To(a, "off", 0)
    /\ UNCHANGED <<clock, lease, session, fresh, start, ctxDone, cancelAt, fails>>

\* Faulty variant of Write: the update does not carry the resourceVersion.
Write_without_version(a) ==
    /\ \/ at[a] = "create" /\ lease = NoLease
       \/ at[a] = "update" /\ lease # NoLease
    /\ lease' = [holder |-> Id(a), renew |-> now(a)]
    /\ fresh' = [b \in Agents |-> FALSE]

\* The write of a takes effect: the API server refuses a Create if there is a
\* lease and an Update if the lease is not the one that was read.
Write(a) ==
    /\ \/ at[a] = "create" /\ lease = NoLease
       \/ at[a] = "update" /\ fresh[a]
    /\ lease' = [holder |-> Id(a), renew |-> now(a)]
    /\ fresh' = [b \in Agents |-> FALSE]

\* The write succeeds: Lock or TryLock returns and starts the refresher; the
\* refresher sleeps until the next renewal.
Acquired(a) ==
    /\ a \in Callers /\ ~ctxDone[S(a)]
    /\ Write(a)
    /\ session' = [session EXCEPT ![S(a)] = "critical"]
    /\ at' = [at EXCEPT ![a] = "off", ![Refresher(S(a))] = "sleep"]
    /\ time' = [time EXCEPT ![a] = 0,
                            ![Refresher(S(a))] = clock + leaseRenewInterval]
    /\ UNCHANGED <<clock, start, ctxDone, cancelAt, fails>>

Renewed(a) ==
    /\ a \in Refreshers /\ ~ctxDone[S(a)]
    /\ Write(a)
    /\ To(a, "sleep", clock + leaseRenewInterval)
    /\ fails' = [fails EXCEPT ![S(a)] = 0]
    /\ UNCHANGED <<clock, session, start, ctxDone, cancelAt>>

\* AlreadyExists, or the conflict of an Update with another write.
Conflict(a) ==
    /\ \/ at[a] = "create" /\ lease # NoLease
       \/ at[a] = "update" /\ ~fresh[a]
    /\ AttemptFails(a)
    /\ fails' = [fails EXCEPT ![S(a)] = IF a \in Refreshers THEN 0 ELSE @]
    /\ UNCHANGED <<clock, lease, fresh, start, ctxDone, cancelAt>>

\* A request may fail; a refresher's at most MaxFails times in a row.
MayFail(a) ==
    /\ at[a] \in InFlight
    /\ a \in Refreshers /\ ~ctxDone[S(a)] => fails[S(a)] < MaxFails
    /\ fails' = [fails EXCEPT ![S(a)] =
                    IF a \in Refreshers /\ ~ctxDone[S(a)] THEN @ + 1 ELSE @]

\* A request fails or the context ends it, without effect ...
ApiError(a) ==
    /\ MayFail(a)
    /\ AttemptFails(a)
    /\ UNCHANGED <<clock, lease, fresh, start, ctxDone, cancelAt>>

\* ... or the write took effect and its answer is lost.
AnswerLost(a) ==
    /\ MayFail(a)
    /\ Write(a)
    /\ AttemptFails(a)
    /\ UNCHANGED <<clock, start, ctxDone, cancelAt>>

\* IsInvalid or IsBadRequest: Lock and TryLock return at once.
Rejected(a) ==
    /\ a \in Callers
    /\ at[a] \in InFlight
    /\ To(a, "off", 0)
    /\ session' = [session EXCEPT ![S(a)] = "idle"]
    /\ UNCHANGED <<clock, lease, fresh, start, ctxDone, cancelAt, fails>>
-----------------------------------------------------------------------------
UnlockStart(s) ==
    /\ session[s] = "critical"
    /\ session' = [session EXCEPT ![s] = "unlocking"]
    /\ UNCHANGED <<clock, lease, at, time, fresh, start, ctxDone, cancelAt, fails>>

\* Delete removes whatever lease there is; its answer may be lost.
Unlocked(s) ==
    /\ session[s] = "unlocking"
    /\ session' = [session EXCEPT ![s] = "idle"]
    /\ lease' = NoLease
    /\ fresh' = [a \in Agents |-> FALSE]
    /\ UNCHANGED <<clock, at, time, start, ctxDone, cancelAt, fails>>

\* Delete fails: the lease stays, and the refresher goes on renewing it.
UnlockFails(s) ==
    /\ session[s] = "unlocking"
    /\ session' = [session EXCEPT ![s] = "idle"]
    /\ UNCHANGED <<clock, lease, at, time, fresh, start, ctxDone, cancelAt, fails>>

\* A configuration reload or the end of the operation cancels the context.
Cancel(s) ==
    /\ ~ctxDone[s]
    /\ Active(s) \/ at[Refresher(s)] # "off"
    /\ ctxDone' = [ctxDone EXCEPT ![s] = TRUE]
    /\ cancelAt' = [cancelAt EXCEPT ![s] = clock]
    /\ UNCHANGED <<clock, lease, session, at, time, fresh, start, fails>>

\* The process of instance i dies.
Crash(i) ==
    /\ \E s \in Sessions : LeaseID[s] = i /\ (Active(s) \/ at[Refresher(s)] # "off")
    /\ session' = [s \in Sessions |-> IF LeaseID[s] = i THEN "idle" ELSE session[s]]
    /\ at' = [a \in Agents |-> IF Id(a) = i THEN "off" ELSE at[a]]
    /\ time' = [a \in Agents |-> IF Id(a) = i THEN 0 ELSE time[a]]
    /\ UNCHANGED <<clock, lease, fresh, start, ctxDone, cancelAt, fails>>

\* Time passes while nobody is at the end of a delay.
Tick ==
    /\ clock < MaxClock
    /\ \A a \in Agents : at[a] = "sleep" => clock < time[a]
    /\ \A a \in Agents : at[a] \in InFlight => clock < time[a] + ApiDelay
    /\ \A s \in Sessions : Owner(s) /\ ctxDone[s] => clock < cancelAt[s] + AbortDelay
    /\ clock' = clock + 1
    /\ UNCHANGED <<lease, session, at, time, fresh, start, ctxDone, cancelAt, fails>>

tryAcquireOrRenew(a) ==
    \/ GetHeld(a) \/ GetOpen(a) \/ GetMissing(a)
    \/ Acquired(a) \/ Renewed(a) \/ Conflict(a)
    \/ ApiError(a) \/ AnswerLost(a) \/ Rejected(a)

Next ==
    \/ \E s \in Sessions, how \in {"locking", "trying"} : LockStart(s, how)
    \/ \E a \in Agents : Wake(a) \/ StopWaiting(a) \/ tryAcquireOrRenew(a)
    \/ \E s \in Sessions : UnlockStart(s) \/ Unlocked(s) \/ UnlockFails(s) \/ Cancel(s)
    \/ \E i \in Ids : Crash(i)
    \/ Tick

Spec == Init /\ [][Next]_vars
-----------------------------------------------------------------------------
(* Properties.                                                             *)

\* Every variable has its type, and a caller is in tryAcquireOrRenew or waits
\* exactly while its call of Lock or TryLock has not returned.
TypeOK ==
    /\ clock \in Nat
    /\ lease \in Leases \cup {NoLease}
    /\ session \in [Sessions -> {"idle", "locking", "trying", "critical", "unlocking"}]
    /\ at \in [Agents -> {"off", "sleep"} \cup InFlight]
    /\ time \in [Agents -> Nat]
    /\ fresh \in [Agents -> BOOLEAN]
    /\ start \in [Sessions -> Nat]
    /\ ctxDone \in [Sessions -> BOOLEAN]
    /\ cancelAt \in [Sessions -> Nat]
    /\ fails \in [Sessions -> 0 .. MaxFails]
    /\ \A s \in Sessions : at[Caller(s)] # "off" <=> session[s] \in {"locking", "trying"}

\* Two instances never hold the lock at the same time.
MutualExclusion ==
    \A s, t \in Sessions : Owner(s) /\ Owner(t) => LeaseID[s] = LeaseID[t]

\* Whoever holds the lock is the holder named in the lease, so that Unlock
\* never deletes the lease of another instance.
OwnerHoldsLease == \A s \in Sessions : Owner(s) => lease.holder = LeaseID[s]

\* A lease passes from one instance to another only after it has expired by
\* the clock of the new holder, even though the holder read it before and
\* writes it later.
NoTakeoverOfLiveLease ==
    [][lease # NoLease /\ lease' # NoLease /\ lease'.holder # lease.holder
         => lease.renew + leaseDuration <= lease'.renew]_vars

\* A call of Lock returns: after lockAcquireTimeout at most one more pause and
\* one more attempt.
LockReturns ==
    \A s \in Sessions : session[s] = "locking" =>
        clock <= start[s] + lockAcquireTimeout + leasePollInterval + ApiDelay

\* A refresher never takes a lease over from another instance.
RefresherRenewsOwnLease ==
    \A a \in Refreshers : at[a] = "update" /\ fresh[a] => lease.holder = Id(a)
-----------------------------------------------------------------------------
(* What the proofs rest on.                                                *)

\* How long after the last renewal of its lease (the time at which the attempt
\* that renewed it began) a refresher that has failed n times since begins its
\* next attempt, at the latest.
Slack(n) == ApiDelay + (n + 1) * (leaseRenewInterval + ApiDelay)

\* The lease outlives the slowest refresh, a cancelled operation and the
\* difference between the clocks of two instances.
PromptEnough ==
    \A i, j \in Ids :
        Slack(MaxFails) + ApiDelay + AbortDelay + Skew[i] - Skew[j] < leaseDuration

\* Nobody sleeps or waits for an answer longer than the code and the API allow.
Timers ==
    /\ \A a \in Agents : at[a] = "sleep" => clock <= time[a]
    /\ \A a \in Refreshers : at[a] = "sleep" => time[a] <= clock + leaseRenewInterval
    /\ \A a \in Agents : at[a] \in InFlight => time[a] <= clock /\ clock <= time[a] + ApiDelay
    /\ \A s \in Sessions : Owner(s) /\ ctxDone[s] =>
           cancelAt[s] <= clock /\ clock <= cancelAt[s] + AbortDelay

\* A lease about to be updated, and not changed since, is ours or expired; and
\* only a caller creates one.
Snapshots ==
    /\ \A a \in Agents : at[a] = "update" /\ fresh[a] => lease # NoLease /\ ~Held(a)
    /\ \A a \in Refreshers : at[a] # "create"

\* An instance has one caller at a time.
OneCaller ==
    \A s, t \in Sessions : Active(s) /\ Active(t) /\ LeaseID[s] = LeaseID[t] => s = t

\* When the attempt that last renewed the lease of s began.
renewed(s) == lease.renew - Skew[LeaseID[s]]

\* The lease of an owner is its own, and its refresher is on time.
Covered(s) ==
    LET r == Refresher(s)
    IN  /\ lease # NoLease
        /\ lease.holder = LeaseID[s]
        /\ ~ctxDone[s] => at[r] # "off" /\ time[r] <= renewed(s) + Slack(fails[s])
        /\ ~ctxDone[s] /\ at[r] = "update" /\ ~fresh[r] => time[r] <= renewed(s) + ApiDelay
        /\ ctxDone[s] => cancelAt[s] <= renewed(s) + Slack(MaxFails) + ApiDelay

OwnersCovered == \A s \in Sessions : Owner(s) => Covered(s)

LockInv == TypeOK /\ Timers /\ Snapshots /\ OneCaller /\ OwnersCovered

\* The last attempt of a call of Lock begins in time.
WaitBounded ==
    \A s \in Sessions : session[s] = "locking" =>
        time[Caller(s)] <= start[s] + lockAcquireTimeout + leasePollInterval

\* A refresher whose lease another instance has taken: it goes on trying until it
\* finds out.
Deposed(a) ==
    lease # NoLease /\ lease.holder # Id(a) /\ at[a] # "off" /\ ~ctxDone[S(a)]

\* When the attempt of the present holder that last renewed the lease began.
written == lease.renew - Skew[lease.holder]

\* It tries again before the new lease can expire, and so finds out.
SoonTold(a) ==
    Deposed(a) =>
        /\ time[a] <= written + Slack(fails[S(a)])
        /\ at[a] = "update" /\ ~fresh[a] => time[a] <= written + ApiDelay

DeposedAreTold == \A a \in Refreshers : SoonTold(a)
=============================================================================
