--------------------------- MODULE MCStorageLock ---------------------------
(* Small instances of StorageLock.                                         *)
EXTENDS StorageLock

\* The clocks of the two instances are 1 apart.
OneAhead == [i \in Ids |-> IF i = "B" THEN 1 ELSE 0]

\* The first instance has two sessions, one after the other.
TwoOfA == [s \in Sessions |-> IF s = "b" THEN "B" ELSE "A"]

\* States that differ only by a shift in time, by what a goroutine that has
\* ended left behind, or by how long ago a lease expired, have the same
\* future.  Under this view the reachable states are finitely many, and the
\* clock never comes near MaxClock.
Ago(t) == clock - t

LongExpired == leaseDuration + ApiDelay + 2

RelativeView ==
    <<session, at,
      IF lease = NoLease THEN lease
      ELSE [lease EXCEPT !.renew = IF Ago(@) > LongExpired THEN LongExpired ELSE Ago(@)],
      [a \in Agents |-> IF at[a] = "off" THEN 0 ELSE Ago(time[a])],
      [a \in Agents |-> at[a] = "update" /\ fresh[a]],
      [s \in Sessions |-> IF session[s] = "locking" THEN Ago(start[s]) ELSE 0],
      [s \in Sessions |-> ctxDone[s] /\ (Active(s) \/ at[Refresher(s)] # "off")],
      [s \in Sessions |-> IF Owner(s) /\ ctxDone[s] THEN Ago(cancelAt[s]) ELSE 0],
      [s \in Sessions |-> IF at[Refresher(s)] = "off" THEN 0 ELSE fails[s]]>>

\* The instance is prompt enough for mutual exclusion.
ASSUME PromptAssumption == PromptEnough
=============================================================================
