----------------------------- MODULE WorkQueue -----------------------------
(***************************************************************************)
(* client-go's workqueue (external), as NewTypedRateLimitingQueue builds   *)
(* it for the controller's syncQueue: a FIFO of comparable items in which  *)
(* an item that is waiting is not added twice, and one that is being       *)
(* processed waits for its Done before it is queued again.                 *)
(***************************************************************************)
EXTENDS Sequences

EmptyQueue == [waiting |-> <<>>, dirty |-> {}, processing |-> {}]

Add(q, item) ==
    IF item \in q.dirty
    THEN q
    ELSE [q EXCEPT !.dirty = @ \cup {item},
                   !.waiting = IF item \in q.processing THEN @ ELSE Append(@, item)]

\* The state after Get has returned Head(q.waiting).
Get(q) == [waiting    |-> Tail(q.waiting),
           dirty      |-> q.dirty \ {Head(q.waiting)},
           processing |-> q.processing \cup {Head(q.waiting)}]

Done(q, item) ==
    [waiting    |-> IF item \in q.dirty THEN Append(q.waiting, item) ELSE q.waiting,
     dirty      |-> q.dirty,
     processing |-> q.processing \ {item}]
=============================================================================
