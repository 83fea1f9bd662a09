-------------------------- MODULE Lifecycle_proofs --------------------------
(***************************************************************************)
(* Proofs about Lifecycle.                                                 *)
(***************************************************************************)
EXTENDS Lifecycle, TLAPS

\* The worker exists, and a configuration may run, only once both informers have their
\* lists; and the channel is closed by main alone, after Notify.
IInv ==
    /\ TypeOK
    /\ worker # "off" \/ caddy => synced = Informers

\* A step of any goroutine, in whatever order, keeps the invariant.
LEMMA InvariantStep ==
    IInv /\ [Next]_vars => IInv'
<1> SUFFICES ASSUME IInv, [Next]_vars
             PROVE  IInv'
  OBVIOUS
<1> USE LifecycleAssumption DEF IInv, TypeOK, Running, Killed, Informers, Alive, config
<1>1. CASE ClientInvalid
  BY <1>1 DEF ClientInvalid, Fatal
<1>2. CASE Retry
  BY <1>2 DEF Retry
<1>3. CASE GiveUp
  BY <1>3 DEF GiveUp, Fatal
<1>4. CASE Connected
  BY <1>4 DEF Connected
<1>5. CASE NewFails
  BY <1>5 DEF NewFails, Fatal
<1>6. CASE NewCaddyController
  BY <1>6 DEF NewCaddyController
<1>7. CASE GoRun
  BY <1>7 DEF GoRun
<1>8. CASE Notify
  BY <1>8 DEF Notify
<1>9. CASE Signal
  BY <1>9 DEF Signal
<1>10. CASE WaitForCacheSync
  BY <1>10 DEF WaitForCacheSync
<1>11. CASE GetItem
  BY <1>11 DEF GetItem
<1>12. CASE FinishItem
  BY <1>12 DEF FinishItem
<1>13. CASE Panic
  BY <1>13 DEF Panic
<1>14. CASE StopSeen
  BY <1>14 DEF StopSeen
<1>15. CASE StatusesUpdated
  BY <1>15 DEF StatusesUpdated
<1>16. CASE CaddyStops
  BY <1>16 DEF CaddyStops
<1>17. CASE StopFails
  BY <1>17 DEF StopFails
<1>18. CASE Exit
  BY <1>18 DEF Exit
<1>19. ASSUME NEW i \in Informers, CacheSyncs(i)
      PROVE  IInv'
  BY <1>19 DEF CacheSyncs
<1>20. CASE BeginLoad
  BY <1>20 DEF BeginLoad
<1>21. CASE LoadEnds
  BY <1>21 DEF LoadEnds
<1>22. CASE UNCHANGED vars
  BY <1>22 DEF vars
<1> QED
  BY <1>1, <1>2, <1>3, <1>4, <1>5, <1>6, <1>7, <1>8, <1>9, <1>10, <1>11, <1>12, <1>13, <1>14, <1>15, <1>16, <1>17, <1>18, <1>19, <1>20, <1>21, <1>22 DEF Next, Main, Shutdown

\* The invariant holds in every state of every execution.
LEMMA InvariantHolds == Spec => []IInv
<1>1. Init => IInv
  BY LifecycleAssumption DEF Init, IInv, TypeOK, Running, Informers
<1> QED
  BY <1>1, InvariantStep, PTL DEF Spec

\* Type correctness: in particular Run shuts down only after main has closed the
\* channel, which it does only after Notify.
THEOREM TypeCorrect == Spec => []TypeOK
<1>1. IInv => TypeOK
  BY DEF IInv
<1> QED
  BY <1>1, InvariantHolds, PTL

\* No item is handled and no configuration runs before both informers have their lists,
\* whatever the number of attempts to connect and whenever signals come.
THEOREM WorkAfterSync == Spec => []SyncedBeforeWork
<1>1. IInv => SyncedBeforeWork
  BY DEF IInv, SyncedBeforeWork
<1> QED
  BY <1>1, InvariantHolds, PTL
=============================================================================
