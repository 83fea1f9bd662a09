------------------------------ MODULE KeyValue ------------------------------
(***************************************************************************)
(* What a certificate storage promises to its callers, whatever it is made *)
(* of: a map from keys to values on which every call takes effect at one   *)
(* moment between its begin and its end.  A call that fails may have taken *)
(* effect, or do so later.                                                 *)
(***************************************************************************)
EXTENDS SequencesExt

CONSTANTS Clients, Keys, Folders, Values, None

VARIABLES
    data,   \* key -> value or None
    calls,  \* client -> the call it is in
    limbo   \* changes of failed calls that may still happen

vars == <<data, calls, limbo>>

Idle == [op |-> "none"]
Call(op, key, value, ret) == [op |-> op, key |-> key, value |-> value, ret |-> ret]

\* Answers are sequences; the empty one is not yet an answer.
Waiting == <<>>

IsWaiting(c) == calls[c] # Idle /\ calls[c].ret = Waiting

Answer(c, ret) == calls' = [calls EXCEPT ![c] = Call(@.op, @.key, @.value, ret)]

Init ==
    /\ data = [k \in Keys |-> None]
    /\ calls = [c \in Clients |-> Idle]
    /\ limbo = {}

Begin(c) ==
    /\ calls[c] = Idle
    /\ \/ \E k \in Keys, v \in Values :
             calls' = [calls EXCEPT ![c] = Call("Store", k, v, Waiting)]
       \/ \E k \in Keys, op \in {"Load", "Delete", "Exists", "Stat"} :
             calls' = [calls EXCEPT ![c] = Call(op, k, None, Waiting)]
       \/ \E f \in Folders :
             calls' = [calls EXCEPT ![c] = Call("List", f, None, Waiting)]
    /\ UNCHANGED <<data, limbo>>

\* A change of the map, and what is left of a call that made it.
Changes(call) == call.op \in {"Store", "Delete"}
Change(call) == [op |-> call.op, key |-> call.key, value |-> call.value]
Changed(d, change) == [d EXCEPT ![change.key] = change.value]

\* The answer of a call that only reads.
Reading(call) ==
    CASE call.op = "Load" /\ data[call.key] = None -> <<"notexist">>
      [] call.op = "Stat" /\ data[call.key] = None -> <<"error">>
      [] call.op \in {"Load", "Stat"} /\ data[call.key] # None -> <<"value", data[call.key]>>
      [] call.op = "Exists" -> IF data[call.key] = None THEN <<"no">> ELSE <<"yes">>
      [] call.op = "List" -> <<"keys", {k \in Keys : data[k] # None /\ IsPrefix(call.key, k)}>>

\* A call takes effect and has its answer; what is not there cannot be deleted.
Effect(c) ==
    /\ IsWaiting(c)
    /\ \/ /\ Changes(calls[c])
          /\ calls[c].op = "Delete" => data[calls[c].key] # None
          /\ data' = Changed(data, Change(calls[c]))
          /\ Answer(c, <<"ok">>)
       \/ /\ ~Changes(calls[c])
          /\ Answer(c, Reading(calls[c]))
          /\ UNCHANGED data
    /\ UNCHANGED limbo

\* A call fails: without effect, with it, or with an effect still to come.
\* Exists cannot say so and answers no.
Fail(c) ==
    /\ IsWaiting(c)
    /\ Answer(c, IF calls[c].op = "Exists" THEN <<"no">> ELSE <<"error">>)
    /\ \/ UNCHANGED <<data, limbo>>
       \/ /\ Changes(calls[c])
          /\ data' = Changed(data, Change(calls[c]))
          /\ UNCHANGED limbo
       \/ /\ Changes(calls[c])
          /\ limbo' = limbo \cup {Change(calls[c])}
          /\ UNCHANGED data

End(c) ==
    /\ calls[c] # Idle /\ calls[c].ret # Waiting
    /\ calls' = [calls EXCEPT ![c] = Idle]
    /\ UNCHANGED <<data, limbo>>

\* The process of the client dies in its call.
Crash(c) ==
    /\ IsWaiting(c)
    /\ calls' = [calls EXCEPT ![c] = Idle]
    /\ \/ UNCHANGED limbo
       \/ Changes(calls[c]) /\ limbo' = limbo \cup {Change(calls[c])}
    /\ UNCHANGED data

\* A change of a failed call happens after all, or comes to nothing.
Late(change) ==
    /\ data' \in {data, Changed(data, change)}
    /\ limbo' \in {limbo, limbo \ {change}}
    /\ UNCHANGED calls

Next ==
    \/ \E c \in Clients : Begin(c) \/ Effect(c) \/ Fail(c) \/ End(c) \/ Crash(c)
    \/ \E change \in limbo : Late(change)

Spec == Init /\ [][Next]_vars
=============================================================================
