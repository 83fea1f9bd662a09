------------------------ MODULE SecretStorage_proofs ------------------------
(***************************************************************************)
(* Proofs about SecretStorage: type correctness, and that it implements    *)
(* KeyValue, for which any function from keys to names would do; then what *)
(* cleanKey makes of keys of any length.                                   *)
(***************************************************************************)
EXTENDS MCSecretStorage, FiniteSetTheorems, NaturalsInduction, WellFoundedInduction, TLAPS

-----------------------------------------------------------------------------
(* Calls and requests.                                                     *)

\* A call under way has a key of its kind, and a value exactly if it stores.
WellFormed(call) ==
    /\ call = [op |-> call.op, key |-> call.key, value |-> call.value,
               verb |-> call.verb, ret |-> call.ret]
    /\ call # Idle
    /\ \/ call.op = "Store" /\ call.key \in Keys /\ call.value \in Values
                            /\ call.verb \in {"create", "update"}
       \/ call.op = "Delete" /\ call.key \in Keys /\ call.value = None /\ call.verb = "delete"
       \/ /\ call.op \in {"Load", "Stat", "Exists"}
          /\ call.key \in Keys /\ call.value = None /\ call.verb = "get"
       \/ call.op = "List" /\ call.key \in Folders /\ call.value = None /\ call.verb = "list"

\* The calls of TypeOK are well formed.
LEMMA CallsWellFormed ==
    ASSUME NEW call \in Calls
    PROVE  WellFormed(call)
<1>1. ASSUME NEW op, NEW keys, NEW values, NEW verbs, NEW answers,
             call \in CallsOf(op, keys, values, verbs, answers)
      PROVE  /\ call = [op |-> call.op, key |-> call.key, value |-> call.value,
                        verb |-> call.verb, ret |-> call.ret]
             /\ call.op = op /\ call.key \in keys /\ call.value \in values /\ call.verb \in verbs
  BY <1>1 DEF CallsOf
<1>2. call.op # "none" => call # Idle
  BY DEF Idle
<1>3. CASE call \in CallsOf("Store", Keys, Values, {"create", "update"}, {<<"ok">>, <<"error">>})
  BY <1>1, <1>2, <1>3 DEF WellFormed
<1>4. CASE call \in CallsOf("Delete", Keys, {None}, {"delete"}, {<<"ok">>, <<"error">>})
  BY <1>1, <1>2, <1>4 DEF WellFormed
<1>5. CASE call \in CallsOf("Load", Keys, {None}, {"get"}, {<<"notexist">>, <<"error">>} \cup Contents)
  BY <1>1, <1>2, <1>5 DEF WellFormed
<1>6. CASE call \in CallsOf("Stat", Keys, {None}, {"get"}, {<<"error">>} \cup Contents)
  BY <1>1, <1>2, <1>6 DEF WellFormed
<1>7. CASE call \in CallsOf("Exists", Keys, {None}, {"get"}, {<<"yes">>, <<"no">>})
  BY <1>1, <1>2, <1>7 DEF WellFormed
<1>8. CASE call \in CallsOf("List", Folders, {None}, {"list"},
                   {<<"error">>} \cup {<<"keys", s>> : s \in SUBSET Names})
  BY <1>1, <1>2, <1>8 DEF WellFormed
<1> QED
  BY <1>3, <1>4, <1>5, <1>6, <1>7, <1>8 DEF Calls

\* The answers of an operation.
IsAnswer(op, ret) ==
    \/ op \in {"Store", "Delete"} /\ ret \in {<<"ok">>, <<"error">>}
    \/ op = "Load" /\ ret \in {<<"notexist">>, <<"error">>} \cup Contents
    \/ op = "Stat" /\ ret \in {<<"error">>} \cup Contents
    \/ op = "Exists" /\ ret \in {<<"yes">>, <<"no">>}
    \/ op = "List" /\ ret \in {<<"error">>} \cup {<<"keys", s>> : s \in SUBSET Names}

\* A well formed call that waits, or has an answer of its operation, is a call of TypeOK.
LEMMA WellFormedCalls ==
    ASSUME NEW call, WellFormed(call), call.ret = Waiting \/ IsAnswer(call.op, call.ret)
    PROVE  call \in Calls
<1>1. ASSUME NEW op, NEW keys, NEW values, NEW verbs, NEW answers,
             call.op = op, call.key \in keys, call.value \in values, call.verb \in verbs,
             call.ret \in {Waiting} \cup answers
      PROVE  call \in CallsOf(op, keys, values, verbs, answers)
  BY <1>1 DEF CallsOf, WellFormed
<1>2. CASE call.op = "Store"
  BY <1>1, <1>2 DEF WellFormed, IsAnswer, Calls
<1>3. CASE call.op = "Delete"
  BY <1>1, <1>3 DEF WellFormed, IsAnswer, Calls
<1>4. CASE call.op = "Load"
  BY <1>1, <1>4 DEF WellFormed, IsAnswer, Calls
<1>5. CASE call.op = "Stat"
  BY <1>1, <1>5 DEF WellFormed, IsAnswer, Calls
<1>6. CASE call.op = "Exists"
  BY <1>1, <1>6 DEF WellFormed, IsAnswer, Calls
<1>7. CASE call.op = "List"
  BY <1>1, <1>7 DEF WellFormed, IsAnswer, Calls
<1> QED
  BY <1>2, <1>3, <1>4, <1>5, <1>6, <1>7 DEF WellFormed

\* A step that replaces the call of one client by a call keeps the type of calls.
LEMMA ReplaceType ==
    ASSUME NEW c \in Clients, calls \in [Clients -> Calls \cup {Idle}],
           NEW new \in Calls \cup {Idle}, calls' = [calls EXCEPT ![c] = new]
    PROVE  calls' \in [Clients -> Calls \cup {Idle}]
OBVIOUS

\* ... and replaces what callers can see of it.
LEMMA ReplaceAbs ==
    ASSUME NEW c \in Clients, calls \in [Clients -> Calls \cup {Idle}],
           NEW new, calls' = [calls EXCEPT ![c] = new]
    PROVE  AbsCalls' = [AbsCalls EXCEPT ![c] = AbsCall(new)]
<1>1. \A d \in Clients : calls'[d] = IF d = c THEN new ELSE calls[d]
  OBVIOUS
<1>2. AbsCalls' = [d \in Clients |-> AbsCall(calls'[d])]
  BY DEF AbsCalls, AbsCall
<1>3. [AbsCalls EXCEPT ![c] = AbsCall(new)] =
         [d \in Clients |-> IF d = c THEN AbsCall(new) ELSE AbsCall(calls[d])]
  BY DEF AbsCalls
<1> QED
  BY <1>1, <1>2, <1>3

\* What a call under way is, and what callers see of it.
LEMMA CallUnderWay ==
    ASSUME NEW c \in Clients, calls \in [Clients -> Calls \cup {Idle}], calls[c] # Idle
    PROVE  /\ WellFormed(calls[c])
           /\ AbsCalls[c] = [op |-> calls[c].op, key |-> Name(c),
                             value |-> calls[c].value, ret |-> calls[c].ret]
           /\ AbsCalls[c] # Idle
<1>1. calls[c] \in Calls
  OBVIOUS
<1>2. WellFormed(calls[c])
  BY <1>1, CallsWellFormed
<1>3. AbsCalls[c] = [op |-> calls[c].op, key |-> Name(c),
                     value |-> calls[c].value, ret |-> calls[c].ret]
  BY DEF AbsCalls, AbsCall, Name
<1>4. calls[c].op # "none"
  BY <1>2 DEF WellFormed
<1>5. AbsCalls[c].op # "none"
  BY <1>3, <1>4
<1>6. AbsCalls[c] # Idle
  BY <1>5 DEF Idle
<1> QED
  BY <1>2, <1>3, <1>6

\* The answer of a call, in the storage and as its caller sees it.
LEMMA AnswerStep ==
    ASSUME NEW c \in Clients, calls \in [Clients -> Calls \cup {Idle}], calls[c] # Idle,
           NEW ret, IsAnswer(calls[c].op, ret), Answer(c, ret)
    PROVE  /\ calls' \in [Clients -> Calls \cup {Idle}]
           /\ KV!Answer(c, ret)
<1> DEFINE call == calls[c]
           new == [op |-> call.op, key |-> call.key, value |-> call.value,
                   verb |-> call.verb, ret |-> ret]
<1>1. WellFormed(call)
  BY CallUnderWay
<1>2. [call EXCEPT !.ret = ret] = new
  BY <1>1 DEF WellFormed
<1>3. calls' = [calls EXCEPT ![c] = new]
  BY <1>2 DEF Answer
<1>4. new # Idle
  <2>1. new.op # "none"
    BY <1>1 DEF WellFormed
  <2> QED
    BY <2>1 DEF Idle
<1>5. WellFormed(new)
  <2>1. /\ new.op = call.op /\ new.key = call.key /\ new.value = call.value
        /\ new.verb = call.verb /\ new.ret = ret
    OBVIOUS
  <2> HIDE DEF new
  <2>2. new = [op |-> new.op, key |-> new.key, value |-> new.value, verb |-> new.verb,
               ret |-> new.ret]
    BY <2>1 DEF new
  <2> QED
    BY <1>1, <1>4, <2>1, <2>2 DEF WellFormed
<1>6. new \in Calls
  <2>1. new.op = call.op /\ new.ret = ret
    OBVIOUS
  <2> HIDE DEF new
  <2> QED
    BY <1>5, <2>1, WellFormedCalls
<1>7. AbsCall(new) = KV!Call(AbsCalls[c].op, AbsCalls[c].key, AbsCalls[c].value, ret)
  <2>1. AbsCall(new) = [op |-> call.op, key |-> Name(c), value |-> call.value, ret |-> ret]
    BY <1>4 DEF AbsCall, Name
  <2>2. AbsCalls[c] = [op |-> call.op, key |-> Name(c), value |-> call.value, ret |-> call.ret]
    BY CallUnderWay
  <2> QED
    BY <2>1, <2>2 DEF KV!Call
<1> HIDE DEF new
<1>8. AbsCalls' = [AbsCalls EXCEPT ![c] = AbsCall(new)]
  BY <1>3, ReplaceAbs
<1> QED
  BY <1>3, <1>6, <1>7, <1>8, ReplaceType DEF KV!Answer

-----------------------------------------------------------------------------
(* Each step keeps the types and is a step of the map.                     *)

\* The type invariant; limbo is finite, so that its size can be bounded.
IInv ==
    /\ TypeOK
    /\ IsFiniteSet(limbo)

\* A client begins a call.
LEMMA StartStep ==
    ASSUME IInv, NEW c \in Clients, NEW call, Starts(c, call), call \in Calls, call.ret = Waiting
    PROVE  /\ IInv'
           /\ AbsCalls[c] = Idle
           /\ AbsCalls' = [AbsCalls EXCEPT ![c] = KV!Call(call.op, NameOf[call.key], call.value, KV!Waiting)]
           /\ secrets' = secrets /\ AbsLimbo' = AbsLimbo
<1>1. /\ calls \in [Clients -> Calls \cup {Idle}] /\ calls[c] = Idle
      /\ calls' = [calls EXCEPT ![c] = call] /\ secrets' = secrets /\ limbo' = limbo
  BY DEF IInv, TypeOK, Starts
<1>2. calls' \in [Clients -> Calls \cup {Idle}]
  BY <1>1, ReplaceType
<1>3. IInv'
  BY <1>1, <1>2 DEF IInv, TypeOK
<1>4. AbsCalls' = [AbsCalls EXCEPT ![c] = AbsCall(call)]
  BY <1>1, ReplaceAbs
<1>5. call # Idle
  BY CallsWellFormed DEF WellFormed
<1>6. AbsCall(call) = KV!Call(call.op, NameOf[call.key], call.value, KV!Waiting)
  BY <1>5 DEF AbsCall, KV!Call, KV!Waiting, Waiting
<1>7. AbsCalls[c] = Idle
  BY <1>1 DEF AbsCalls, AbsCall
<1> QED
  BY <1>1, <1>3, <1>4, <1>6, <1>7 DEF AbsLimbo

\* A new call of each operation.
LEMMA NewCalls ==
    ASSUME NEW op, NEW key, NEW value, NEW verb,
           \/ op = "Store" /\ key \in Keys /\ value \in Values /\ verb = "create"
           \/ op = "Delete" /\ key \in Keys /\ value = None /\ verb = "delete"
           \/ op \in {"Load", "Stat", "Exists"} /\ key \in Keys /\ value = None /\ verb = "get"
           \/ op = "List" /\ key \in Folders /\ value = None /\ verb = "list"
    PROVE  /\ NewCall(op, key, value, verb) \in Calls
           /\ NewCall(op, key, value, verb).op = op
           /\ NewCall(op, key, value, verb).key = key
           /\ NewCall(op, key, value, verb).value = value
           /\ NewCall(op, key, value, verb).ret = Waiting
<1> DEFINE call == NewCall(op, key, value, verb)
<1>1. /\ call = [op |-> call.op, key |-> call.key, value |-> call.value, verb |-> call.verb,
                 ret |-> call.ret]
      /\ call.op = op /\ call.key = key /\ call.value = value /\ call.verb = verb
      /\ call.ret = Waiting
  BY DEF NewCall
<1> HIDE DEF call
<1>2. call # Idle
  BY <1>1 DEF Idle
<1>3. WellFormed(call)
  BY <1>1, <1>2 DEF WellFormed
<1>4. call \in Calls
  BY <1>1, <1>3, WellFormedCalls
<1> QED
  BY <1>1, <1>4 DEF call

\* Every operation begins as one of the map's.
LEMMA BeginStep ==
    ASSUME IInv, NEW c \in Clients, Begin(c)
    PROVE  IInv' /\ KV!Begin(c)
<1>1. ASSUME NEW key \in Keys, NEW value \in Values, Store(c, key, value)
      PROVE  IInv' /\ KV!Begin(c)
  <2>1. NameOf[key] \in Names
    BY DEF Names
  <2> QED
    BY <1>1, <2>1, NewCalls, StartStep DEF Store, KV!Begin, KV!Idle, Idle
<1>2. ASSUME NEW key \in Keys, NEW op \in {"Load", "Delete", "Exists", "Stat"}, NEW verb,
             Starts(c, NewCall(op, key, None, verb)), verb = IF op = "Delete" THEN "delete" ELSE "get"
      PROVE  IInv' /\ KV!Begin(c)
  <2>1. NameOf[key] \in Names
    BY DEF Names
  <2>2. /\ NewCall(op, key, None, verb) \in Calls
        /\ NewCall(op, key, None, verb).op = op
        /\ NewCall(op, key, None, verb).key = key
        /\ NewCall(op, key, None, verb).value = None
        /\ NewCall(op, key, None, verb).ret = Waiting
    BY <1>2, NewCalls
  <2> QED
    BY <1>2, <2>1, <2>2, StartStep DEF KV!Begin, KV!Idle, Idle
<1>3. ASSUME NEW prefix \in Folders, List(c, prefix)
      PROVE  IInv' /\ KV!Begin(c)
  <2>1. NameOf[prefix] \in FolderNames
    BY DEF FolderNames
  <2> QED
    BY <1>3, <2>1, NewCalls, StartStep DEF List, KV!Begin, KV!Idle, Idle
<1>4. ASSUME NEW key \in Keys, Load(c, key) \/ Delete(c, key) \/ Exists(c, key) \/ Stat(c, key)
      PROVE  IInv' /\ KV!Begin(c)
  BY <1>2, <1>4 DEF Load, Delete, Exists, Stat
<1> QED
  BY <1>1, <1>3, <1>4 DEF Begin

\* A call that waits, as its caller sees it.
LEMMA WaitingCall ==
    ASSUME IInv, NEW c \in Clients, IsWaiting(c)
    PROVE  /\ calls \in [Clients -> Calls \cup {Idle}] /\ calls[c] # Idle
           /\ WellFormed(calls[c])
           /\ KV!IsWaiting(c)
           /\ AbsCalls[c].op = calls[c].op /\ AbsCalls[c].key = Name(c)
           /\ AbsCalls[c].value = calls[c].value
<1>1. calls \in [Clients -> Calls \cup {Idle}] /\ calls[c] # Idle /\ calls[c].ret = Waiting
  BY DEF IInv, TypeOK, IsWaiting
<1>2. WellFormed(calls[c]) /\ AbsCalls[c] # Idle
  BY <1>1, CallUnderWay
<1>3. AbsCalls[c] = [op |-> calls[c].op, key |-> Name(c), value |-> calls[c].value,
                     ret |-> calls[c].ret]
  BY <1>1, CallUnderWay
<1>4. /\ AbsCalls[c].op = calls[c].op /\ AbsCalls[c].key = Name(c)
      /\ AbsCalls[c].value = calls[c].value /\ AbsCalls[c].ret = Waiting
  BY <1>1, <1>3
<1> QED
  BY <1>1, <1>2, <1>4 DEF KV!IsWaiting, KV!Idle, Idle, KV!Waiting, Waiting

\* Only calls for keys write or read a single secret.
LEMMA NameOfKey ==
    ASSUME NEW c \in Clients, WellFormed(calls[c]), calls[c].op # "List"
    PROVE  Name(c) \in Names
BY DEF WellFormed, Name, Names

\* A step that answers a call, writes at most one secret and leaves limbo alone keeps the types.
LEMMA AnswerKeepsTypes ==
    ASSUME IInv, NEW c \in Clients, IsWaiting(c),
           NEW ret, IsAnswer(calls[c].op, ret), Answer(c, ret),
           limbo' = limbo, secrets' \in [Names -> Values \cup {None}]
    PROVE  IInv'
<1>1. calls' \in [Clients -> Calls \cup {Idle}]
  BY WaitingCall, AnswerStep
<1> QED
  BY <1>1 DEF IInv, TypeOK

\* A request that changes a secret is where the call of the map takes effect.
LEMMA ChangeStep ==
    ASSUME IInv, NEW c \in Clients, IsWaiting(c), calls[c].op \in {"Store", "Delete"},
           calls[c].op = "Delete" => secrets[Name(c)] # None,
           secrets' = [secrets EXCEPT ![Name(c)] = calls[c].value],
           Answer(c, <<"ok">>), limbo' = limbo
    PROVE  IInv' /\ KV!Effect(c)
<1>1. /\ calls \in [Clients -> Calls \cup {Idle}] /\ calls[c] # Idle
      /\ WellFormed(calls[c]) /\ KV!IsWaiting(c)
      /\ AbsCalls[c].op = calls[c].op /\ AbsCalls[c].key = Name(c)
      /\ AbsCalls[c].value = calls[c].value
  BY WaitingCall
<1>2. IsAnswer(calls[c].op, <<"ok">>)
  BY DEF IsAnswer
<1>3. KV!Answer(c, <<"ok">>)
  BY <1>1, <1>2, AnswerStep
<1>4. Name(c) \in Names /\ calls[c].value \in Values \cup {None}
  BY <1>1, NameOfKey DEF WellFormed
<1>5. secrets' \in [Names -> Values \cup {None}]
  BY <1>4 DEF IInv, TypeOK
<1>6. IInv'
  BY <1>2, <1>5, AnswerKeepsTypes
<1>7. AbsLimbo' = AbsLimbo
  BY DEF AbsLimbo
<1>8. secrets' = KV!Changed(secrets, KV!Change(AbsCalls[c]))
  BY <1>1 DEF KV!Changed, KV!Change
<1> QED
  BY <1>1, <1>3, <1>6, <1>7, <1>8 DEF KV!Effect, KV!Changes

\* A request that reads is where the call of the map takes effect.
LEMMA ReadStep ==
    ASSUME IInv, NEW c \in Clients, IsWaiting(c), calls[c].op \notin {"Store", "Delete"},
           IsAnswer(calls[c].op, KV!Reading(AbsCalls[c])),
           Answer(c, KV!Reading(AbsCalls[c])), UNCHANGED <<secrets, limbo>>
    PROVE  IInv' /\ KV!Effect(c)
<1>1. /\ calls \in [Clients -> Calls \cup {Idle}] /\ calls[c] # Idle
      /\ KV!IsWaiting(c) /\ AbsCalls[c].op = calls[c].op
  BY WaitingCall
<1>2. KV!Answer(c, KV!Reading(AbsCalls[c]))
  BY <1>1, AnswerStep
<1>3. IInv'
  BY AnswerKeepsTypes DEF IInv, TypeOK
<1>4. AbsLimbo' = AbsLimbo
  BY DEF AbsLimbo
<1> QED
  BY <1>1, <1>2, <1>3, <1>4 DEF KV!Effect, KV!Changes

\* A call fails, and what it wanted to change is changed now, later or never.
LEMMA FailStep ==
    ASSUME IInv, NEW c \in Clients, IsWaiting(c), CallFails(c),
           secrets' \in [Names -> Values \cup {None}],
           IsFiniteSet(limbo'), limbo' \subseteq Requests, Cardinality(limbo') <= MaxLimbo,
           \/ UNCHANGED <<secrets, AbsLimbo>>
           \/ /\ calls[c].op \in {"Store", "Delete"}
              /\ secrets' = [secrets EXCEPT ![Name(c)] = calls[c].value]
              /\ UNCHANGED AbsLimbo
           \/ /\ calls[c].op \in {"Store", "Delete"}
              /\ AbsLimbo' = AbsLimbo \cup {KV!Change(AbsCalls[c])}
              /\ UNCHANGED secrets
    PROVE  IInv' /\ KV!Fail(c)
<1> DEFINE ret == IF calls[c].op = "Exists" THEN <<"no">> ELSE <<"error">>
<1>1. /\ calls \in [Clients -> Calls \cup {Idle}] /\ calls[c] # Idle
      /\ WellFormed(calls[c]) /\ KV!IsWaiting(c)
      /\ AbsCalls[c].op = calls[c].op /\ AbsCalls[c].key = Name(c)
      /\ AbsCalls[c].value = calls[c].value
  BY WaitingCall
<1>2. IsAnswer(calls[c].op, ret)
  BY <1>1 DEF WellFormed, IsAnswer
<1>3. Answer(c, ret)
  BY DEF CallFails
<1> HIDE DEF ret
<1>4. KV!Answer(c, ret) /\ calls' \in [Clients -> Calls \cup {Idle}]
  BY <1>1, <1>2, <1>3, AnswerStep
<1>5. IInv'
  BY <1>4 DEF IInv, TypeOK
<1>6. KV!Changed(secrets, KV!Change(AbsCalls[c])) = [secrets EXCEPT ![Name(c)] = calls[c].value]
  BY <1>1 DEF KV!Changed, KV!Change
<1>7. ret = IF AbsCalls[c].op = "Exists" THEN <<"no">> ELSE <<"error">>
  BY <1>1 DEF ret
<1>8. KV!Changes(AbsCalls[c]) <=> calls[c].op \in {"Store", "Delete"}
  BY <1>1 DEF KV!Changes
<1>9. \/ UNCHANGED <<secrets, AbsLimbo>>
      \/ /\ KV!Changes(AbsCalls[c])
         /\ secrets' = KV!Changed(secrets, KV!Change(AbsCalls[c]))
         /\ UNCHANGED AbsLimbo
      \/ /\ KV!Changes(AbsCalls[c])
         /\ AbsLimbo' = AbsLimbo \cup {KV!Change(AbsCalls[c])}
         /\ UNCHANGED secrets
  BY <1>6, <1>8
<1> QED
  BY <1>1, <1>4, <1>5, <1>7, <1>9 DEF KV!Fail

\* A call that fails and leaves everything as it is.
LEMMA FailWithoutEffect ==
    ASSUME IInv, NEW c \in Clients, IsWaiting(c), CallFails(c), UNCHANGED <<secrets, limbo>>
    PROVE  IInv' /\ KV!Fail(c)
<1>1. /\ secrets' \in [Names -> Values \cup {None}] /\ IsFiniteSet(limbo')
      /\ limbo' \subseteq Requests /\ Cardinality(limbo') <= MaxLimbo
  BY DEF IInv, TypeOK
<1>2. UNCHANGED <<secrets, AbsLimbo>>
  BY DEF AbsLimbo
<1> QED
  BY <1>1, <1>2, FailStep

\* What the map answers to a call that reads.
LEMMA ReadingIs ==
    ASSUME IInv, NEW c \in Clients, IsWaiting(c)
    PROVE  /\ calls[c].op = "Load" /\ secrets[Name(c)] = None
                 => KV!Reading(AbsCalls[c]) = <<"notexist">>
           /\ calls[c].op = "Stat" /\ secrets[Name(c)] = None
                 => KV!Reading(AbsCalls[c]) = <<"error">>
           /\ calls[c].op \in {"Load", "Stat"} /\ secrets[Name(c)] # None
                 => KV!Reading(AbsCalls[c]) = <<"value", secrets[Name(c)]>>
           /\ calls[c].op = "Exists"
                 => KV!Reading(AbsCalls[c]) = IF secrets[Name(c)] = None THEN <<"no">> ELSE <<"yes">>
           /\ calls[c].op = "List"
                 => KV!Reading(AbsCalls[c]) =
                       <<"keys", {k \in Names : secrets[k] # None /\ KV!IsPrefix(Name(c), k)}>>
<1>1. AbsCalls[c].op = calls[c].op /\ AbsCalls[c].key = Name(c)
  BY WaitingCall
<1>2. calls[c].op = "Load" /\ secrets[Name(c)] = None => KV!Reading(AbsCalls[c]) = <<"notexist">>
  BY <1>1, Zenon DEF KV!Reading
<1>3. calls[c].op = "Stat" /\ secrets[Name(c)] = None => KV!Reading(AbsCalls[c]) = <<"error">>
  BY <1>1, Zenon DEF KV!Reading
<1>4. calls[c].op \in {"Load", "Stat"} /\ secrets[Name(c)] # None
        => KV!Reading(AbsCalls[c]) = <<"value", secrets[Name(c)]>>
  BY <1>1, Zenon DEF KV!Reading
<1>5. calls[c].op = "Exists"
        => KV!Reading(AbsCalls[c]) = IF secrets[Name(c)] = None THEN <<"no">> ELSE <<"yes">>
  BY <1>1, Zenon DEF KV!Reading
<1>6. calls[c].op = "List"
        => KV!Reading(AbsCalls[c]) =
              <<"keys", {k \in Names : secrets[k] # None /\ KV!IsPrefix(Name(c), k)}>>
  BY <1>1, Zenon DEF KV!Reading
<1> QED
  BY <1>2, <1>3, <1>4, <1>5, <1>6

\* The callers see the same call while it goes from Create to Update.
LEMMA FallBackStep ==
    ASSUME IInv, NEW c \in Clients, AlreadyExists(c)
    PROVE  IInv' /\ UNCHANGED <<secrets, AbsCalls, AbsLimbo>>
<1> DEFINE call == calls[c]
           new == [op |-> call.op, key |-> call.key, value |-> call.value,
                   verb |-> "update", ret |-> call.ret]
<1>1. /\ calls \in [Clients -> Calls \cup {Idle}] /\ call # Idle /\ call.ret = Waiting
      /\ call.verb = "create" /\ secrets' = secrets /\ limbo' = limbo
  BY DEF IInv, TypeOK, AlreadyExists, Requesting
<1>2. WellFormed(call)
  BY <1>1, CallUnderWay
<1>3. call.op = "Store" /\ call.key \in Keys /\ call.value \in Values
  BY <1>1, <1>2 DEF WellFormed
<1>4. [call EXCEPT !.verb = "update"] = new
  BY <1>2 DEF WellFormed
<1>5. calls' = [calls EXCEPT ![c] = new]
  BY <1>4 DEF AlreadyExists
<1>6. /\ new = [op |-> new.op, key |-> new.key, value |-> new.value, verb |-> new.verb,
                ret |-> new.ret]
      /\ new.op = "Store" /\ new.key = call.key /\ new.value = call.value
      /\ new.verb = "update" /\ new.ret = call.ret
  BY <1>3
<1> HIDE DEF new
<1>7. new # Idle
  BY <1>6 DEF Idle
<1>8. WellFormed(new)
  BY <1>3, <1>6, <1>7 DEF WellFormed
<1>9. new \in Calls
  BY <1>1, <1>6, <1>8, WellFormedCalls
<1>10. calls' \in [Clients -> Calls \cup {Idle}]
  BY <1>1, <1>5, <1>9, ReplaceType
<1>11. AbsCall(new) = AbsCalls[c]
  <2>1. AbsCalls[c] = [op |-> call.op, key |-> Name(c), value |-> call.value, ret |-> call.ret]
    BY <1>1, CallUnderWay
  <2> QED
    BY <1>3, <1>6, <1>7, <2>1 DEF AbsCall, Name
<1>12. AbsCalls' = AbsCalls
  <2>1. AbsCalls' = [AbsCalls EXCEPT ![c] = AbsCall(new)]
    BY <1>1, <1>5, ReplaceAbs
  <2> QED
    BY <1>11, <2>1 DEF AbsCalls
<1>13. IInv'
  BY <1>1, <1>10 DEF IInv, TypeOK
<1> QED
  BY <1>1, <1>12, <1>13 DEF AbsLimbo

\* Every request the server carries out and answers is the effect of the call, its
\* failure, or a stutter of the map.
LEMMA ServeStep ==
    ASSUME IInv, NEW c \in Clients, Serve(c)
    PROVE  IInv' /\ (KV!Effect(c) \/ KV!Fail(c) \/ UNCHANGED <<secrets, AbsCalls, AbsLimbo>>)
<1>1. ASSUME NEW verb, Requesting(c, verb)
      PROVE  IsWaiting(c) /\ calls[c].verb = verb /\ WellFormed(calls[c])
  <2>1. IsWaiting(c) /\ calls[c].verb = verb
    BY <1>1 DEF Requesting, IsWaiting
  <2> QED
    BY <2>1, WaitingCall
<1>2. CASE Created(c)
  <2>1. IsWaiting(c) /\ calls[c].op = "Store"
    BY <1>1, <1>2 DEF Created, WellFormed
  <2> QED
    BY <1>2, <2>1, ChangeStep DEF Created
<1>3. CASE Updated(c)
  <2>1. IsWaiting(c) /\ calls[c].op = "Store"
    BY <1>1, <1>3 DEF Updated, WellFormed
  <2> QED
    BY <1>3, <2>1, ChangeStep DEF Updated
<1>4. CASE Deleted(c)
  <2>1. IsWaiting(c) /\ calls[c].op = "Delete" /\ calls[c].value = None
    BY <1>1, <1>4 DEF Deleted, WellFormed
  <2> QED
    BY <1>4, <2>1, ChangeStep DEF Deleted
<1>5. CASE AlreadyExists(c)
  BY <1>5, FallBackStep
<1>6. CASE UpdateGone(c)
  <2>1. IsWaiting(c) /\ calls[c].op = "Store"
    BY <1>1, <1>6 DEF UpdateGone, WellFormed
  <2>2. CallFails(c)
    BY <1>6, <2>1 DEF UpdateGone, CallFails
  <2> QED
    BY <1>6, <2>1, <2>2, FailWithoutEffect DEF UpdateGone
<1>7. CASE DeleteGone(c)
  <2>1. IsWaiting(c) /\ calls[c].op = "Delete"
    BY <1>1, <1>7 DEF DeleteGone, WellFormed
  <2>2. CallFails(c)
    BY <1>7, <2>1 DEF DeleteGone, CallFails
  <2> QED
    BY <1>7, <2>1, <2>2, FailWithoutEffect DEF DeleteGone
<1>8. CASE Found(c)
  <2>1. IsWaiting(c) /\ calls[c].op \in {"Load", "Stat", "Exists"} /\ WellFormed(calls[c])
    BY <1>1, <1>8 DEF Found, WellFormed
  <2>2. secrets[Name(c)] # None /\ Name(c) \in Names
    BY <1>8, <2>1, NameOfKey DEF Found
  <2>3. secrets[Name(c)] \in Values
    BY <2>2 DEF IInv, TypeOK
  <2>4. CASE calls[c].op = "Exists"
    <3>1. KV!Reading(AbsCalls[c]) = <<"yes">>
      BY <2>1, <2>2, <2>4, ReadingIs
    <3>2. Answer(c, KV!Reading(AbsCalls[c])) /\ IsAnswer(calls[c].op, KV!Reading(AbsCalls[c]))
      BY <1>8, <2>4, <3>1 DEF Found, IsAnswer
    <3> QED
      BY <1>8, <2>1, <3>2, ReadStep DEF Found
  <2>5. CASE calls[c].op \in {"Load", "Stat"}
    <3>1. KV!Reading(AbsCalls[c]) = <<"value", secrets[Name(c)]>>
      BY <2>1, <2>2, <2>5, ReadingIs
    <3>2. <<"value", secrets[Name(c)]>> \in Contents
      BY <2>3 DEF Contents
    <3>3. Answer(c, KV!Reading(AbsCalls[c])) /\ IsAnswer(calls[c].op, KV!Reading(AbsCalls[c]))
      BY <1>8, <2>5, <3>1, <3>2 DEF Found, IsAnswer
    <3> QED
      BY <1>8, <2>1, <3>3, ReadStep DEF Found
  <2> QED
    BY <2>1, <2>4, <2>5
<1>9. CASE NotFound(c)
  <2>1. IsWaiting(c) /\ calls[c].op \in {"Load", "Stat", "Exists"}
    BY <1>1, <1>9 DEF NotFound, WellFormed
  <2>2. secrets[Name(c)] = None
    BY <1>9 DEF NotFound
  <2>3. Answer(c, KV!Reading(AbsCalls[c])) /\ IsAnswer(calls[c].op, KV!Reading(AbsCalls[c]))
    <3>1. CASE calls[c].op = "Load"
      <4>1. KV!Reading(AbsCalls[c]) = <<"notexist">>
        BY <2>1, <2>2, <3>1, ReadingIs
      <4>2. Answer(c, <<"notexist">>)
        BY <1>9, <3>1, Zenon DEF NotFound
      <4> QED
        BY <3>1, <4>1, <4>2 DEF IsAnswer
    <3>2. CASE calls[c].op = "Stat"
      <4>1. KV!Reading(AbsCalls[c]) = <<"error">>
        BY <2>1, <2>2, <3>2, ReadingIs
      <4>2. Answer(c, <<"error">>)
        BY <1>9, <3>2, Zenon DEF NotFound
      <4> QED
        BY <3>2, <4>1, <4>2 DEF IsAnswer
    <3>3. CASE calls[c].op = "Exists"
      <4>1. KV!Reading(AbsCalls[c]) = <<"no">>
        BY <2>1, <2>2, <3>3, ReadingIs
      <4>2. Answer(c, <<"no">>)
        BY <1>9, <3>3, Zenon DEF NotFound
      <4> QED
        BY <3>3, <4>1, <4>2 DEF IsAnswer
    <3> QED
      BY <2>1, <3>1, <3>2, <3>3
  <2> QED
    BY <1>9, <2>1, <2>3, ReadStep DEF NotFound
<1>10. CASE Listed(c)
  <2> DEFINE found == {n \in Names : secrets[n] # None /\ IsPrefix(Name(c), n)}
  <2>1. IsWaiting(c) /\ calls[c].op = "List"
    BY <1>1, <1>10 DEF Listed, WellFormed
  <2>2. KV!Reading(AbsCalls[c]) = <<"keys", found>>
    BY <2>1, ReadingIs DEF IsPrefix, KV!IsPrefix
  <2>3. <<"keys", found>> \in {<<"keys", s>> : s \in SUBSET Names}
    OBVIOUS
  <2>4. Answer(c, KV!Reading(AbsCalls[c]))
    BY <1>10, <2>2 DEF Listed
  <2>5. IsAnswer(calls[c].op, KV!Reading(AbsCalls[c]))
    BY <2>1, <2>2, <2>3 DEF IsAnswer
  <2> QED
    BY <1>10, <2>1, <2>4, <2>5, ReadStep DEF Listed
<1> QED
  BY <1>2, <1>3, <1>4, <1>5, <1>6, <1>7, <1>8, <1>9, <1>10 DEF Serve

\* The request of a call that writes is a request, and the change the caller wanted.
LEMMA RequestOfCall ==
    ASSUME IInv, NEW c \in Clients, IsWaiting(c), Writes(c)
    PROVE  /\ Request(c) \in Requests
           /\ AbsChange(Request(c)) = KV!Change(AbsCalls[c])
           /\ calls[c].op \in {"Store", "Delete"}
<1>1. /\ WellFormed(calls[c]) /\ AbsCalls[c].op = calls[c].op /\ AbsCalls[c].key = Name(c)
      /\ AbsCalls[c].value = calls[c].value
  BY WaitingCall
<1>2. \/ calls[c].op = "Store" /\ calls[c].verb \in {"create", "update"} /\ calls[c].value \in Values
      \/ calls[c].op = "Delete" /\ calls[c].verb = "delete" /\ calls[c].value = None
  BY <1>1 DEF WellFormed, Writes
<1>3. Name(c) \in Names
  BY <1>1, <1>2, NameOfKey
<1>4. Request(c) \in Requests
  BY <1>2, <1>3 DEF Request, Requests
<1>5. AbsChange(Request(c)) =
        [op |-> calls[c].op, key |-> Name(c), value |-> calls[c].value]
  BY <1>2 DEF AbsChange, Request
<1> QED
  BY <1>1, <1>2, <1>4, <1>5 DEF KV!Change

\* A request that is carried out changes its secret as the map's change does, or nothing.
LEMMA CarriedOutType ==
    ASSUME IInv, NEW r \in Requests
    PROVE  /\ CarriedOut(r) \in [Names -> Values \cup {None}]
           /\ CarriedOut(r) \in {secrets, [secrets EXCEPT ![r.name] = r.value]}
<1>1. r.name \in Names /\ r.value \in Values \cup {None}
  BY DEF Requests
<1>2. secrets \in [Names -> Values \cup {None}]
  BY DEF IInv, TypeOK
<1> QED
  BY <1>1, <1>2 DEF CarriedOut

\* One more request in limbo.
LEMMA LimboGrows ==
    ASSUME IInv, NEW c \in Clients, IsWaiting(c), Writes(c),
           Cardinality(limbo \cup {Request(c)}) <= MaxLimbo, limbo' = limbo \cup {Request(c)}
    PROVE  /\ limbo' \subseteq Requests /\ IsFiniteSet(limbo') /\ Cardinality(limbo') <= MaxLimbo
           /\ AbsLimbo' = AbsLimbo \cup {KV!Change(AbsCalls[c])}
<1>1. Request(c) \in Requests /\ AbsChange(Request(c)) = KV!Change(AbsCalls[c])
  BY RequestOfCall
<1>2. IsFiniteSet(limbo) /\ limbo \subseteq Requests
  BY DEF IInv, TypeOK
<1>3. IsFiniteSet(limbo \cup {Request(c)})
  BY <1>2, FS_AddElement
<1>4. AbsLimbo' = {AbsChange(r) : r \in limbo'}
  BY DEF AbsLimbo, AbsChange
<1> QED
  BY <1>1, <1>2, <1>3, <1>4 DEF AbsLimbo

\* A call ends, or dies with its process.
LEMMA IdleStep ==
    ASSUME IInv, NEW c \in Clients, calls' = [calls EXCEPT ![c] = Idle]
    PROVE  /\ calls' \in [Clients -> Calls \cup {Idle}]
           /\ AbsCalls' = [AbsCalls EXCEPT ![c] = KV!Idle]
<1>1. calls \in [Clients -> Calls \cup {Idle}]
  BY DEF IInv, TypeOK
<1>2. AbsCalls' = [AbsCalls EXCEPT ![c] = AbsCall(Idle)]
  BY <1>1, ReplaceAbs
<1>3. AbsCall(Idle) = KV!Idle
  BY DEF AbsCall, Idle, KV!Idle
<1>4. calls' \in [Clients -> Calls \cup {Idle}]
  BY <1>1, ReplaceType
<1> QED
  BY <1>2, <1>3, <1>4

\* Requests that are lost, unanswered or late, and the end of a call.
LEMMA FailureStep ==
    ASSUME IInv, NEW c \in Clients,
           RequestLost(c) \/ AnswerLost(c) \/ TimedOut(c) \/ Return(c) \/ Crash(c)
    PROVE  IInv' /\ (KV!Fail(c) \/ KV!End(c) \/ KV!Crash(c))
<1>1. CASE RequestLost(c)
  BY <1>1, FailWithoutEffect DEF RequestLost
<1>2. CASE AnswerLost(c)
  <2>1. /\ IsWaiting(c) /\ Writes(c) /\ CallFails(c) /\ limbo' = limbo
        /\ secrets' = CarriedOut(Request(c))
    BY <1>2 DEF AnswerLost
  <2>2. Request(c) \in Requests /\ calls[c].op \in {"Store", "Delete"}
    BY <2>1, RequestOfCall
  <2>3. Request(c).name = Name(c) /\ Request(c).value = calls[c].value
    BY DEF Request
  <2>4. /\ secrets' \in [Names -> Values \cup {None}]
        /\ secrets' \in {secrets, [secrets EXCEPT ![Name(c)] = calls[c].value]}
    BY <2>1, <2>2, <2>3, CarriedOutType
  <2>5. /\ IsFiniteSet(limbo') /\ limbo' \subseteq Requests /\ Cardinality(limbo') <= MaxLimbo
        /\ AbsLimbo' = AbsLimbo
    BY <2>1 DEF IInv, TypeOK, AbsLimbo
  <2> QED
    BY <2>1, <2>2, <2>4, <2>5, FailStep
<1>3. CASE TimedOut(c)
  <2>1. /\ IsWaiting(c) /\ Writes(c) /\ CallFails(c) /\ secrets' = secrets
        /\ Cardinality(limbo \cup {Request(c)}) <= MaxLimbo /\ limbo' = limbo \cup {Request(c)}
    BY <1>3 DEF TimedOut
  <2>2. /\ limbo' \subseteq Requests /\ IsFiniteSet(limbo') /\ Cardinality(limbo') <= MaxLimbo
        /\ AbsLimbo' = AbsLimbo \cup {KV!Change(AbsCalls[c])}
    BY <2>1, LimboGrows
  <2>3. secrets' \in [Names -> Values \cup {None}]
    BY <2>1 DEF IInv, TypeOK
  <2>4. calls[c].op \in {"Store", "Delete"}
    BY <2>1, RequestOfCall
  <2> QED
    BY <2>1, <2>2, <2>3, <2>4, FailStep
<1>4. CASE Return(c)
  <2>1. /\ calls[c] # Idle /\ calls[c].ret # Waiting /\ calls' = [calls EXCEPT ![c] = Idle]
        /\ secrets' = secrets /\ limbo' = limbo
    BY <1>4 DEF Return
  <2>2. /\ calls' \in [Clients -> Calls \cup {Idle}]
        /\ AbsCalls' = [AbsCalls EXCEPT ![c] = KV!Idle]
    BY <2>1, IdleStep
  <2>3. AbsCalls[c] # Idle /\ AbsCalls[c].ret = calls[c].ret
    <3>1. calls \in [Clients -> Calls \cup {Idle}]
      BY DEF IInv, TypeOK
    <3>2. /\ AbsCalls[c] # Idle
          /\ AbsCalls[c] = [op |-> calls[c].op, key |-> Name(c), value |-> calls[c].value,
                            ret |-> calls[c].ret]
      BY <2>1, <3>1, CallUnderWay
    <3> QED
      BY <3>2
  <2>4. AbsLimbo' = AbsLimbo
    BY <2>1 DEF AbsLimbo
  <2>5. IInv'
    BY <2>1, <2>2 DEF IInv, TypeOK
  <2> QED
    BY <2>1, <2>2, <2>3, <2>4, <2>5 DEF KV!End, KV!Idle, Idle, KV!Waiting, Waiting
<1>5. CASE Crash(c)
  <2>1. /\ IsWaiting(c) /\ calls' = [calls EXCEPT ![c] = Idle] /\ secrets' = secrets
        /\ \/ limbo' = limbo
           \/ /\ Writes(c)
              /\ Cardinality(limbo \cup {Request(c)}) <= MaxLimbo
              /\ limbo' = limbo \cup {Request(c)}
    BY <1>5 DEF Crash
  <2>2. /\ calls' \in [Clients -> Calls \cup {Idle}]
        /\ AbsCalls' = [AbsCalls EXCEPT ![c] = KV!Idle]
    BY <2>1, IdleStep
  <2>3. KV!IsWaiting(c) /\ AbsCalls[c].op = calls[c].op
    BY <2>1, WaitingCall
  <2>4. CASE limbo' = limbo
    <3>1. AbsLimbo' = AbsLimbo
      BY <2>4 DEF AbsLimbo
    <3>2. IInv'
      BY <2>1, <2>2, <2>4 DEF IInv, TypeOK
    <3> QED
      BY <2>1, <2>2, <2>3, <3>1, <3>2 DEF KV!Crash
  <2>5. CASE /\ Writes(c)
             /\ Cardinality(limbo \cup {Request(c)}) <= MaxLimbo
             /\ limbo' = limbo \cup {Request(c)}
    <3>1. /\ limbo' \subseteq Requests /\ IsFiniteSet(limbo') /\ Cardinality(limbo') <= MaxLimbo
          /\ AbsLimbo' = AbsLimbo \cup {KV!Change(AbsCalls[c])}
      BY <2>1, <2>5, LimboGrows
    <3>2. IInv'
      BY <2>1, <2>2, <3>1 DEF IInv, TypeOK
    <3>3. KV!Changes(AbsCalls[c])
      BY <2>1, <2>3, <2>5, RequestOfCall DEF KV!Changes
    <3> QED
      BY <2>1, <2>2, <2>3, <3>1, <3>2, <3>3 DEF KV!Crash
  <2> QED
    BY <2>1, <2>4, <2>5
<1> QED
  BY <1>1, <1>2, <1>3, <1>4, <1>5

\* A request that is carried out after its call has failed is a late change of the map.
LEMMA LateStep ==
    ASSUME IInv, NEW r \in limbo, LateRequest(r)
    PROVE  IInv' /\ AbsChange(r) \in AbsLimbo /\ KV!Late(AbsChange(r))
<1>1. /\ limbo \subseteq Requests /\ IsFiniteSet(limbo) /\ Cardinality(limbo) <= MaxLimbo
      /\ calls \in [Clients -> Calls \cup {Idle}]
  BY DEF IInv, TypeOK
<1>2. limbo' = limbo \ {r} /\ secrets' = CarriedOut(r) /\ calls' = calls
  BY DEF LateRequest
<1>3. /\ secrets' \in [Names -> Values \cup {None}]
      /\ secrets' \in {secrets, [secrets EXCEPT ![r.name] = r.value]}
  BY <1>1, <1>2, CarriedOutType
<1>4. /\ IsFiniteSet(limbo \ {r}) /\ Cardinality(limbo \ {r}) = Cardinality(limbo) - 1
      /\ Cardinality(limbo) \in Nat
  BY <1>1, FS_RemoveElement, FS_CardinalityType
<1>5. Cardinality(limbo') <= MaxLimbo
  BY <1>1, <1>2, <1>4, StorageAssumption
<1>6. IInv'
  BY <1>1, <1>2, <1>3, <1>4, <1>5 DEF IInv, TypeOK
<1>7. AbsChange(r).key = r.name /\ AbsChange(r).value = r.value
  BY DEF AbsChange
<1>8. secrets' \in {secrets, KV!Changed(secrets, AbsChange(r))}
  BY <1>3, <1>7 DEF KV!Changed
<1>9. AbsCalls' = AbsCalls
  BY <1>2 DEF AbsCalls, AbsCall
<1>10. AbsLimbo' = {AbsChange(q) : q \in limbo \ {r}}
  BY <1>2 DEF AbsLimbo, AbsChange
<1>11. AbsLimbo' \in {AbsLimbo, AbsLimbo \ {AbsChange(r)}}
  <2>1. CASE \E q \in limbo \ {r} : AbsChange(q) = AbsChange(r)
    BY <1>10, <2>1 DEF AbsLimbo
  <2>2. CASE \A q \in limbo \ {r} : AbsChange(q) # AbsChange(r)
    BY <1>10, <2>2 DEF AbsLimbo
  <2> QED
    BY <2>1, <2>2
<1> QED
  BY <1>6, <1>8, <1>9, <1>11 DEF KV!Late, AbsLimbo
-----------------------------------------------------------------------------
(* The theorems.                                                           *)

\* Every step of the storage keeps the invariant and is a step of the map.
LEMMA NextStep ==
    ASSUME IInv, [Next]_vars
    PROVE  IInv' /\ [KV!Next]_(KV!vars)
<1>1. ASSUME NEW c \in Clients,
             Begin(c) \/ Serve(c) \/ RequestLost(c) \/ AnswerLost(c) \/ TimedOut(c)
               \/ Return(c) \/ Crash(c)
      PROVE  IInv' /\ [KV!Next]_(KV!vars)
  BY <1>1, BeginStep, ServeStep, FailureStep DEF KV!Next, KV!vars
<1>2. ASSUME NEW r \in limbo, LateRequest(r)
      PROVE  IInv' /\ [KV!Next]_(KV!vars)
  BY <1>2, LateStep DEF KV!Next
<1>3. CASE UNCHANGED vars
  BY <1>3 DEF vars, IInv, TypeOK, KV!vars, AbsCalls, AbsLimbo, AbsCall
<1> QED
  BY <1>1, <1>2, <1>3 DEF Next

\* The initial states of the storage are those of the map.
LEMMA InitStep ==
    ASSUME Init
    PROVE  IInv /\ KV!Init
<1>1. IsFiniteSet({}) /\ Cardinality({}) = 0
  BY FS_EmptySet
<1>2. IInv
  BY <1>1, StorageAssumption DEF Init, IInv, TypeOK
<1>3. AbsCalls = [c \in Clients |-> Idle] /\ AbsLimbo = {}
  BY DEF Init, AbsCalls, AbsCall, AbsLimbo
<1> QED
  BY <1>2, <1>3 DEF Init, KV!Init, KV!Idle, Idle

\* Type correctness: every call waits for a request, or has an answer, of its own
\* operation, whatever fails and whenever.
THEOREM TypeCorrect == Spec => []TypeOK
<1>1. Init => IInv
  BY InitStep
<1>2. IInv /\ [Next]_vars => IInv'
  BY NextStep
<1>3. IInv => TypeOK
  BY DEF IInv
<1> QED
  BY <1>1, <1>2, <1>3, PTL DEF Spec

\* The storage implements the map KeyValue, for any clients, keys, folders and values and
\* any number of requests that outlive their calls.
THEOREM Refinement == Spec => ImplementsKeyValue
<1>1. Init => IInv /\ KV!Init
  BY InitStep
<1>2. IInv /\ [Next]_vars => IInv' /\ [KV!Next]_(KV!vars)
  BY NextStep
<1> QED
  BY <1>1, <1>2, PTL DEF Spec, ImplementsKeyValue, KV!Spec
-----------------------------------------------------------------------------
(* Names of secrets: what cleanKey makes of a key.                         *)

\* A set of numbers that is not empty has a least one.
LEMMA LeastNumber ==
    ASSUME NEW M \in SUBSET Nat, M # {}
    PROVE  \E i \in M : \A j \in M : i <= j
<1>1. IsWellFoundedOn(OpToRel(<, Nat), Nat)
    BY NatLessThanWellFounded, Zenon
<1>2. PICK i \in M : \A j \in M : ~ (<<j, i>> \in OpToRel(<, Nat))
    BY <1>1, WFMin, Zenon
<1>3. \A j \in M : ~ (j < i)
    BY <1>2 DEF OpToRel
<1> QED  BY <1>3

\* Induction over the places up to n: a set that has 0 and with each place the next one
\* has all of them.
LEMMA AllPlaces ==
    ASSUME NEW n \in Nat, NEW S, 0 \in S, \A k \in 0 .. n : k \in S /\ k < n => k + 1 \in S
    PROVE  \A k \in 0 .. n : k \in S
<1> DEFINE M == {k \in 0 .. n : k \notin S}
<1> SUFFICES ASSUME M # {} PROVE FALSE
    OBVIOUS
<1>1. M \in SUBSET Nat
    OBVIOUS
<1>2. PICK i \in M : \A j \in M : i <= j
  <2> HIDE DEF M
  <2> QED  BY <1>1, LeastNumber
<1>3. i # 0 /\ i \in 0 .. n /\ i \notin S
    BY <1>2
<1>4. i - 1 \in 0 .. n /\ i - 1 \notin M
    BY <1>2, <1>3
<1> QED  BY <1>3, <1>4

\* What is left of a text from p to q.
LEMMA PartOf ==
    ASSUME NEW E, NEW s \in Seq(E), NEW p \in Nat, NEW q \in Nat, 1 <= p, q <= Len(s), p <= q + 1
    PROVE  /\ SubSeq(s, p, q) \in Seq(E) /\ Len(SubSeq(s, p, q)) = q + 1 - p
           /\ \A i \in 1 .. (q + 1 - p) : SubSeq(s, p, q)[i] = s[p + i - 1]
OBVIOUS

\* Lists of the same length and the same members are the same.
LEMMA SameList ==
    ASSUME NEW E, NEW s \in Seq(E), NEW t \in Seq(E), Len(s) = Len(t),
           \A i \in 1 .. Len(s) : s[i] = t[i]
    PROVE  s = t
OBVIOUS

\* TrimRight cuts after the last character that is not one of chars.
LEMMA TrimRightTo ==
    ASSUME NEW E, NEW s \in Seq(E), NEW chars, NEW m \in 0 .. Len(s),
           m # 0 => s[m] \notin chars, \A j \in m + 1 .. Len(s) : s[j] \in chars
    PROVE  TrimRight(s, chars) = SubSeq(s, 1, m)
<1> DEFINE n == Len(s)
           K == {i \in DOMAIN s : \E j \in i .. n : s[j] \notin chars}
<1>1. n \in Nat /\ DOMAIN s = 1 .. n /\ m \in Nat /\ m <= n
    OBVIOUS
<1> HIDE DEF n
<1>2. K = 1 .. m
  <2>1. ASSUME NEW i \in K PROVE i \in 1 .. m
    <3>1. PICK j \in i .. n : s[j] \notin chars
        OBVIOUS
    <3>2. j \notin m + 1 .. n
        BY <3>1 DEF n
    <3> QED  BY <1>1, <2>1, <3>1, <3>2
  <2>2. ASSUME NEW i \in 1 .. m PROVE i \in K
    <3>1. m \in i .. n /\ s[m] \notin chars /\ i \in DOMAIN s
        BY <1>1, <2>2
    <3> QED  BY <3>1
  <2> HIDE DEF K
  <2> QED  BY <2>1, <2>2
<1>3. Cardinality(K) = m
  <2>1. Cardinality(1 .. m) = IF 1 > m THEN 0 ELSE m - 1 + 1
      BY <1>1, FS_Interval
  <2> HIDE DEF K
  <2> QED  BY <1>1, <1>2, <2>1
<1>4. TrimRight(s, chars) = SubSeq(s, 1, Cardinality(K))
    BY DEF TrimRight, n
<1> HIDE DEF K
<1> QED  BY <1>3, <1>4

\* There is such a place.
LEMMA TrimRightPlace ==
    ASSUME NEW E, NEW s \in Seq(E), NEW chars
    PROVE  \E m \in 0 .. Len(s) : /\ m # 0 => s[m] \notin chars
                                  /\ \A j \in m + 1 .. Len(s) : s[j] \in chars
<1> DEFINE n == Len(s)
           M == {k \in 0 .. n : \A j \in k + 1 .. n : s[j] \in chars}
<1>1. n \in Nat
    OBVIOUS
<1> HIDE DEF n
<1>2. n \in M /\ M \in SUBSET Nat
    BY <1>1
<1>3. PICK m \in M : \A k \in M : m <= k
  <2> HIDE DEF M
  <2> QED  BY <1>2, LeastNumber
<1>4. m # 0 => s[m] \notin chars
  <2> SUFFICES ASSUME m # 0, s[m] \in chars PROVE FALSE
      OBVIOUS
  <2>1. m - 1 \in 0 .. n /\ m - 1 \notin M
      BY <1>1, <1>3
  <2>2. \A j \in (m - 1) + 1 .. n : j = m \/ j \in m + 1 .. n
      BY <1>1, <1>3
  <2> QED  BY <1>3, <2>1, <2>2
<1> QED  BY <1>3, <1>4 DEF n

\* TrimLeft cuts before the first character that is not one of chars.
LEMMA TrimLeftTo ==
    ASSUME NEW E, NEW s \in Seq(E), NEW chars, NEW m \in 0 .. Len(s),
           m < Len(s) => s[m + 1] \notin chars, \A j \in 1 .. m : s[j] \in chars
    PROVE  TrimLeft(s, chars) = SubSeq(s, m + 1, Len(s))
<1> DEFINE n == Len(s)
           K == {i \in DOMAIN s : \A j \in 1 .. i : s[j] \in chars}
<1>1. n \in Nat /\ DOMAIN s = 1 .. n /\ m \in Nat /\ m <= n
    OBVIOUS
<1>0. m < n => s[m + 1] \notin chars
    OBVIOUS
<1> HIDE DEF n
<1>2. K = 1 .. m
  <2>1. ASSUME NEW i \in K PROVE i \in 1 .. m
    <3>1. i \in 1 .. n /\ \A j \in 1 .. i : s[j] \in chars
        BY <1>1
    <3> SUFFICES ASSUME i > m PROVE FALSE
        BY <1>1, <3>1
    <3>2. m + 1 \in 1 .. i /\ m < n
        BY <1>1, <3>1
    <3> QED  BY <1>0, <3>1, <3>2
  <2>2. ASSUME NEW i \in 1 .. m PROVE i \in K
    <3>1. i \in DOMAIN s /\ \A j \in 1 .. i : j \in 1 .. m
        BY <1>1, <2>2
    <3> QED  BY <3>1
  <2> HIDE DEF K
  <2> QED  BY <2>1, <2>2
<1>3. Cardinality(K) = m
  <2>1. Cardinality(1 .. m) = IF 1 > m THEN 0 ELSE m - 1 + 1
      BY <1>1, FS_Interval
  <2> HIDE DEF K
  <2> QED  BY <1>1, <1>2, <2>1
<1>4. TrimLeft(s, chars) = SubSeq(s, 1 + Cardinality(K), n)
    BY DEF TrimLeft, n
<1> HIDE DEF K
<1>5. 1 + Cardinality(K) = m + 1
    BY <1>1, <1>3
<1> QED  BY <1>4, <1>5 DEF n

-----------------------------------------------------------------------------
(* Trimming the ends of a text.                                            *)

\* The characters of a text after specialChars.
TextChars == Alphanumeric \cup {"-", "."}

\* No dot stands next to a dot or a dash.
NoRuns(s) ==
    \A i \in 1 .. Len(s) - 1 : /\ s[i] = "." => s[i + 1] \in Alphanumeric
                               /\ s[i + 1] = "." => s[i] \in Alphanumeric

\* The first and the last place of what is left of a text when its ends are trimmed.
Bounds(s, a, b) ==
    /\ a \in 0 .. 1 /\ b \in 0 .. Len(s)
    /\ a = 1 <=> (Len(s) > 0 /\ s[1] = ".")
    /\ b # 0 => s[b] \in Alphanumeric /\ a < b
    /\ \A j \in b + 1 .. Len(s) : s[j] \in {".", "-"}

\* Letters and digits are neither dots nor dashes.
LEMMA CharsDiffer ==
    /\ \A c \in Alphanumeric : c \notin {".", "-"}
    /\ \A c \in TextChars : c \notin {".", "-"} => c \in Alphanumeric
BY DEF TextChars, Alphanumeric, Lowercase, Digits

\* There are such places.
LEMMA BoundsExist ==
    ASSUME NEW s \in Seq(TextChars)
    PROVE  \E a, b : Bounds(s, a, b)
<1> DEFINE n == Len(s)
           a == IF n > 0 /\ s[1] = "." THEN 1 ELSE 0
<1>1. PICK b \in 0 .. n : /\ b # 0 => s[b] \notin {".", "-"}
                          /\ \A j \in b + 1 .. n : s[j] \in {".", "-"}
    BY TrimRightPlace
<1>2. n \in Nat /\ b \in Nat
    OBVIOUS
<1>3. b # 0 => s[b] \in TextChars
    OBVIOUS
<1>4. b # 0 => s[b] \in Alphanumeric
    BY <1>1, <1>3, CharsDiffer
<1>5. b # 0 => a < b
  <2> SUFFICES ASSUME b # 0 PROVE a < b
      OBVIOUS
  <2>1. s[b] # "."
      BY <1>1
  <2> QED  BY <1>2, <2>1
<1>6. a \in 0 .. 1 /\ (a = 1 <=> (n > 0 /\ s[1] = "."))
    OBVIOUS
<1> HIDE DEF a
<1>7. Bounds(s, a, b)
    BY <1>1, <1>4, <1>5, <1>6 DEF Bounds
<1> QED  BY <1>7

\* cleanKey trims a text without runs to what is between these places.
LEMMA TrimmedIs ==
    ASSUME NEW s \in Seq(TextChars), NoRuns(s), NEW a, NEW b, Bounds(s, a, b)
    PROVE  TrimRight(TrimRight(TrimLeft(s, {"."}), {"."}), {"-"}) = SubSeq(s, a + 1, b)
<1> DEFINE n == Len(s)
<1>1. n \in Nat /\ a \in 0 .. 1 /\ b \in 0 .. n /\ (a = 1 <=> (n > 0 /\ s[1] = "."))
    BY DEF Bounds
<1>2. /\ b # 0 => s[b] \in Alphanumeric /\ a < b
      /\ \A j \in b + 1 .. n : s[j] \in {".", "-"}
    BY DEF Bounds
<1>3. \A i \in 1 .. n : i < n => /\ s[i] = "." => s[i + 1] \in Alphanumeric
                                 /\ s[i + 1] = "." => s[i] \in Alphanumeric
  <2>1. \A i \in 1 .. n : i < n => i \in 1 .. n - 1
      BY <1>1
  <2> QED  BY <2>1 DEF NoRuns
<1>4. \A i \in 1 .. n : s[i] \in TextChars
    OBVIOUS
<1>a. a <= n
    BY <1>1
<1> DEFINE h == SubSeq(s, a + 1, n)
<1>5. TrimLeft(s, {"."}) = h
  <2>1. a < n => s[a + 1] # "."
    <3>1. CASE a = 0
        BY <1>1, <3>1
    <3>2. CASE a = 1
      <4>1. n > 0 /\ s[1] = "." /\ 1 \in 1 .. n
          BY <1>1, <3>2
      <4>2. a < n => s[2] \in Alphanumeric
          BY <1>1, <1>3, <3>2, <4>1
      <4> QED  BY <3>2, <4>2, CharsDiffer
    <3> QED  BY <1>1, <3>1, <3>2
  <2>2. \A j \in 1 .. a : s[j] = "."
      BY <1>1
  <2>3. a \in 0 .. n
      BY <1>1, <1>a
  <2> HIDE DEF h
  <2> QED  BY <2>1, <2>2, <2>3, TrimLeftTo DEF h
<1>6. /\ h \in Seq(TextChars) /\ Len(h) = n - a
      /\ \A i \in 1 .. n - a : h[i] = s[a + i]
  <2>1. a + 1 \in Nat /\ 1 <= a + 1 /\ a + 1 <= n + 1 /\ n + 1 - (a + 1) = n - a
      BY <1>1, <1>a
  <2>2. /\ h \in Seq(TextChars) /\ Len(h) = n + 1 - (a + 1)
        /\ \A i \in 1 .. (n + 1 - (a + 1)) : h[i] = s[(a + 1) + i - 1]
    <3> HIDE DEF n
    <3> QED  BY <1>1, <2>1, PartOf DEF n
  <2>3. \A i \in 1 .. n - a : (a + 1) + i - 1 = a + i
      BY <1>1, <1>a
  <2> HIDE DEF h
  <2> QED  BY <2>1, <2>2, <2>3
<1> HIDE DEF h
<1> DEFINE m == IF n > a /\ s[n] = "." THEN n - a - 1 ELSE n - a
           u == SubSeq(h, 1, m)
<1>7. m \in 0 .. n - a /\ n - a \in Nat
    BY <1>1, <1>a
<1>8. TrimRight(h, {"."}) = u
  <2>1. m # 0 => h[m] # "."
    <3> SUFFICES ASSUME m # 0 PROVE h[m] # "."
        OBVIOUS
    <3>1. h[m] = s[a + m]
        BY <1>6, <1>7
    <3>2. CASE n > a /\ s[n] = "."
      <4>1. a + m = n - 1 /\ n - 1 \in 1 .. n /\ n - 1 < n /\ (n - 1) + 1 = n
          BY <1>1, <1>7, <3>2
      <4>2. s[n - 1] \in Alphanumeric
          BY <1>3, <3>2, <4>1
      <4> QED  BY <3>1, <4>1, <4>2, CharsDiffer
    <3>3. CASE ~(n > a /\ s[n] = ".")
      <4>1. a + m = n /\ n > a
          BY <1>1, <1>7, <3>3
      <4> QED  BY <3>1, <3>3, <4>1
    <3> QED  BY <3>2, <3>3
  <2>2. \A j \in m + 1 .. n - a : h[j] = "."
    <3> SUFFICES ASSUME NEW j \in m + 1 .. n - a PROVE h[j] = "."
        OBVIOUS
    <3>1. j = n - a /\ s[n] = "." /\ j \in 1 .. n - a
        BY <1>1, <1>7
    <3> QED  BY <1>1, <1>6, <3>1
  <2>3. m \in 0 .. Len(h)
      BY <1>6, <1>7
  <2>4. m # 0 => h[m] \notin {"."}
      BY <2>1
  <2>5. \A j \in m + 1 .. Len(h) : h[j] \in {"."}
      BY <1>6, <2>2
  <2>6. h \in Seq(TextChars)
      BY <1>6
  <2> HIDE DEF u, m
  <2> QED  BY <2>3, <2>4, <2>5, <2>6, TrimRightTo, Zenon DEF u
<1>9. \A j \in 1 .. m : a + j \in 1 .. n /\ (s[a + j] = "." => a + j < b)
  <2> SUFFICES ASSUME NEW j \in 1 .. m PROVE a + j \in 1 .. n /\ (s[a + j] = "." => a + j < b)
      OBVIOUS
  <2>1. a + j \in 1 .. n
      BY <1>1, <1>7
  <2>2. ASSUME s[a + j] = "." PROVE a + j < b
    <3>1. a + j < n
      <4> SUFFICES ASSUME a + j = n PROVE FALSE
          BY <1>1, <2>1
      <4>1. s[n] = "." /\ n > a
          BY <1>1, <2>2
      <4> QED  BY <1>1, <4>1
    <3>2. s[(a + j) + 1] \in Alphanumeric /\ (a + j) + 1 \in 1 .. n
        BY <1>1, <1>3, <2>1, <2>2, <3>1
    <3>3. (a + j) + 1 \notin b + 1 .. n
        BY <1>2, <3>2, CharsDiffer
    <3>4. (a + j) + 1 <= b
        BY <1>1, <2>1, <3>2, <3>3
    <3> QED  BY <1>1, <3>4
  <2> QED  BY <2>1, <2>2
<1>10. b <= a + m \/ b = 0
  <2> SUFFICES ASSUME b # 0, b > a + m PROVE FALSE
      BY <1>1, <1>7
  <2>1. b = n /\ s[n] = "."
      BY <1>1, <1>7
  <2> QED  BY <1>2, <2>1, CharsDiffer
<1>11. /\ u \in Seq(TextChars) /\ Len(u) = m
       /\ \A i \in 1 .. m : u[i] = s[a + i]
  <2>1. m \in Nat /\ 1 <= 1 /\ m <= Len(h) /\ 1 <= m + 1 /\ m + 1 - 1 = m
      BY <1>6, <1>7
  <2> HIDE DEF m
  <2>2. /\ u \in Seq(TextChars) /\ Len(u) = m + 1 - 1
        /\ \A i \in 1 .. (m + 1 - 1) : u[i] = h[1 + i - 1]
      BY <1>6, <2>1, PartOf
  <2>3. \A i \in 1 .. m : 1 + i - 1 = i /\ i \in 1 .. n - a
      BY <1>7, <2>1
  <2> HIDE DEF u
  <2> QED  BY <1>6, <2>1, <2>2, <2>3
<1> HIDE DEF m, u
<1> DEFINE l == IF b = 0 THEN 0 ELSE b - a
<1>12. l \in 0 .. m /\ l \in Nat
    BY <1>1, <1>2, <1>7, <1>10
<1>13. TrimRight(u, {"-"}) = SubSeq(u, 1, l)
  <2>1. l # 0 => u[l] # "-"
    <3> SUFFICES ASSUME l # 0 PROVE u[l] # "-"
        OBVIOUS
    <3>1. b # 0 /\ a + l = b /\ l \in 1 .. m
        BY <1>1, <1>7, <1>12
    <3> HIDE DEF l
    <3> QED  BY <1>2, <1>11, <3>1, CharsDiffer
  <2>2. \A j \in l + 1 .. m : u[j] = "-"
    <3> SUFFICES ASSUME NEW j \in l + 1 .. m PROVE u[j] = "-"
        OBVIOUS
    <3>1. j \in 1 .. m /\ a + j \in b + 1 .. n
        BY <1>1, <1>2, <1>7, <1>9, <1>12
    <3>2. s[a + j] \in {".", "-"} /\ ~(a + j < b)
        BY <1>1, <1>2, <3>1
    <3>3. s[a + j] # "."
        BY <1>9, <3>1, <3>2
    <3> QED  BY <1>11, <3>1, <3>2, <3>3
  <2>3. l \in 0 .. Len(u)
      BY <1>11, <1>12
  <2>4. l # 0 => u[l] \notin {"-"}
      BY <2>1
  <2> HIDE DEF l
  <2>5. \A j \in l + 1 .. Len(u) : u[j] \in {"-"}
      BY <1>11, <2>2
  <2>6. u \in Seq(TextChars)
      BY <1>11
  <2> QED  BY <2>3, <2>4, <2>5, <2>6, TrimRightTo, Zenon
<1>14. SubSeq(u, 1, l) = SubSeq(s, a + 1, b)
  <2>1. CASE b = 0
    <3>1. l = 0
        BY <2>1
    <3>2. SubSeq(u, 1, 0) = <<>> /\ SubSeq(s, a + 1, 0) = <<>>
        BY <1>1, <1>11
    <3> QED  BY <2>1, <3>1, <3>2
  <2>2. CASE b # 0
    <3>1. l = b - a /\ a < b /\ b <= n /\ l + 1 - 1 = l /\ b + 1 - (a + 1) = l /\ a + 1 \in Nat
        BY <1>1, <1>2, <2>2
    <3>2. l <= Len(u) /\ 1 <= l + 1
        BY <1>11, <1>12, <1>7
    <3>0. b \in Nat /\ 1 <= a + 1 /\ a + 1 <= b + 1
        BY <1>1, <3>1
    <3> HIDE DEF l
    <3>3. /\ SubSeq(u, 1, l) \in Seq(TextChars) /\ Len(SubSeq(u, 1, l)) = l
          /\ \A i \in 1 .. l : SubSeq(u, 1, l)[i] = u[i]
      <4>1. \A i \in 1 .. l : 1 + i - 1 = i
          BY <1>12
      <4>2. /\ SubSeq(u, 1, l) \in Seq(TextChars) /\ Len(SubSeq(u, 1, l)) = l + 1 - 1
            /\ \A i \in 1 .. l + 1 - 1 : SubSeq(u, 1, l)[i] = u[1 + i - 1]
          BY <1>11, <1>12, <3>2, PartOf
      <4> QED  BY <3>1, <4>1, <4>2
    <3>4. /\ SubSeq(s, a + 1, b) \in Seq(TextChars) /\ Len(SubSeq(s, a + 1, b)) = l
          /\ \A i \in 1 .. l : SubSeq(s, a + 1, b)[i] = s[a + i]
      <4>1. \A i \in 1 .. l : (a + 1) + i - 1 = a + i
          BY <1>1, <1>12
      <4>2. /\ SubSeq(s, a + 1, b) \in Seq(TextChars) /\ Len(SubSeq(s, a + 1, b)) = b + 1 - (a + 1)
            /\ \A i \in 1 .. (b + 1 - (a + 1)) : SubSeq(s, a + 1, b)[i] = s[(a + 1) + i - 1]
          BY <3>0, <3>1, PartOf
      <4>3. b + 1 - (a + 1) = l
          BY <3>1
      <4> DEFINE v == SubSeq(s, a + 1, b)
      <4> HIDE DEF v
      <4>4. v \in Seq(TextChars) /\ Len(v) = l /\ \A i \in 1 .. l : v[i] = s[(a + 1) + i - 1]
          BY <4>2, <4>3, Zenon DEF v
      <4>5. \A i \in 1 .. l : v[i] = s[a + i]
          BY <4>1, <4>4, Zenon
      <4> QED  BY <4>4, <4>5 DEF v
    <3>5. \A i \in 1 .. l : i \in 1 .. m
        BY <1>7, <1>12
    <3> DEFINE v == SubSeq(s, a + 1, b)
               w == SubSeq(u, 1, l)
    <3>6. /\ v \in Seq(TextChars) /\ w \in Seq(TextChars) /\ Len(w) = Len(v)
          /\ \A i \in 1 .. Len(w) : w[i] = v[i]
      <4>1. v \in Seq(TextChars) /\ Len(v) = l /\ \A i \in 1 .. l : v[i] = s[a + i]
          BY <3>4
      <4>2. w \in Seq(TextChars) /\ Len(w) = l /\ \A i \in 1 .. l : w[i] = u[i]
          BY <3>3
      <4> HIDE DEF v, w
      <4>3. \A i \in 1 .. l : u[i] = s[a + i]
          BY <1>11, <3>5, Zenon
      <4> QED  BY <4>1, <4>2, <4>3
    <3> HIDE DEF v, w
    <3>7. w = v
        BY <3>6, SameList
    <3> QED  BY <3>7 DEF v, w
  <2> QED  BY <2>1, <2>2
<1> QED  BY <1>5, <1>8, <1>13, <1>14

-----------------------------------------------------------------------------
(* The two loops: ReplaceSpecial and ReplaceDotDashRuns.                   *)

\* One turn of the loops of ReplaceSpecial and of ReplaceDotDashRuns.
NextSpecial(s, c) ==
    IF c \in Lowercase \cup Uppercase \cup Digits \cup {"-"}
    THEN Append(s, Lower(c))
    ELSE IF EndsIn(s, {"."}) THEN s ELSE Append(s, ".")

NextRun(s, c) ==
    CASE c = "." -> Append(TrimRight(s, {".", "-"}), ".")
      [] c = "-" /\ EndsIn(s, {"."}) -> s
      [] OTHER -> Append(s, c)

\* f has what ReplaceSpecial makes of each of the first n characters of a key, and g what
\* ReplaceDotDashRuns makes of those of a text.
SpecialsUpTo(f, key, n) ==
    /\ f[0] = <<>>
    /\ \A i \in 1 .. n : f[i] = NextSpecial(f[i - 1], key[i])

RunsUpTo(g, text, n) ==
    /\ g[0] = <<>>
    /\ \A i \in 1 .. n : g[i] = NextRun(g[i - 1], text[i])

\* The same, as the loop's function.
IsSpecials(f, key, n) ==
    f = [i \in 0 .. n |-> IF i = 0 THEN <<>> ELSE NextSpecial(f[i - 1], key[i])]

IsRuns(g, text, n) ==
    g = [i \in 0 .. n |-> IF i = 0 THEN <<>> ELSE NextRun(g[i - 1], text[i])]

\* There is such a function for every number of characters.
LEMMA SpecialsExist ==
    ASSUME NEW key, NEW n \in Nat
    PROVE  \E f : IsSpecials(f, key, n)
<1> DEFINE S == {k \in 0 .. n : \E f : IsSpecials(f, key, k)}
<1>1. 0 \in S
  <2>1. IsSpecials([i \in 0 .. 0 |-> <<>>], key, 0)
      BY DEF IsSpecials
  <2> QED  BY <2>1
<1>2. ASSUME NEW k \in S, k < n PROVE k + 1 \in S
  <2>1. PICK f : IsSpecials(f, key, k)
      BY <1>2
  <2> DEFINE h == [i \in 0 .. k + 1 |-> IF i = 0 THEN <<>> ELSE NextSpecial(f[i - 1], key[i])]
  <2>2. h = [i \in 0 .. k + 1 |-> IF i = 0 THEN <<>> ELSE NextSpecial(f[i - 1], key[i])]
      OBVIOUS
  <2>3. \A i \in 0 .. k : f[i] = h[i]
      BY <2>1 DEF IsSpecials
  <2> HIDE DEF h
  <2>4. \A i \in 1 .. k + 1 : f[i - 1] = h[i - 1]
    <3>1. \A i \in 1 .. k + 1 : i - 1 \in 0 .. k
        OBVIOUS
    <3> QED  BY <2>3, <3>1
  <2>5. \A i \in 0 .. k + 1 : (IF i = 0 THEN <<>> ELSE NextSpecial(f[i - 1], key[i]))
                                = IF i = 0 THEN <<>> ELSE NextSpecial(h[i - 1], key[i])
      BY <2>4
  <2>6. IsSpecials(h, key, k + 1)
      BY <2>2, <2>5, Zenon DEF IsSpecials
  <2>7. k + 1 \in 0 .. n
      BY <1>2
  <2> QED  BY <2>6, <2>7
<1> HIDE DEF S
<1>3. n \in S
    BY <1>1, <1>2, AllPlaces
<1> QED  BY <1>3 DEF S

\* And one of ReplaceDotDashRuns.
LEMMA RunsExist ==
    ASSUME NEW text, NEW n \in Nat
    PROVE  \E g : IsRuns(g, text, n)
<1> DEFINE S == {k \in 0 .. n : \E f : IsRuns(f, text, k)}
<1>1. 0 \in S
  <2>1. IsRuns([i \in 0 .. 0 |-> <<>>], text, 0)
      BY DEF IsRuns
  <2> QED  BY <2>1
<1>2. ASSUME NEW k \in S, k < n PROVE k + 1 \in S
  <2>1. PICK f : IsRuns(f, text, k)
      BY <1>2
  <2> DEFINE h == [i \in 0 .. k + 1 |-> IF i = 0 THEN <<>> ELSE NextRun(f[i - 1], text[i])]
  <2>2. h = [i \in 0 .. k + 1 |-> IF i = 0 THEN <<>> ELSE NextRun(f[i - 1], text[i])]
      OBVIOUS
  <2>3. \A i \in 0 .. k : f[i] = h[i]
      BY <2>1 DEF IsRuns
  <2> HIDE DEF h
  <2>4. \A i \in 1 .. k + 1 : f[i - 1] = h[i - 1]
    <3>1. \A i \in 1 .. k + 1 : i - 1 \in 0 .. k
        OBVIOUS
    <3> QED  BY <2>3, <3>1
  <2>5. \A i \in 0 .. k + 1 : (IF i = 0 THEN <<>> ELSE NextRun(f[i - 1], text[i]))
                                = IF i = 0 THEN <<>> ELSE NextRun(h[i - 1], text[i])
      BY <2>4
  <2>6. IsRuns(h, text, k + 1)
      BY <2>2, <2>5, Zenon DEF IsRuns
  <2>7. k + 1 \in 0 .. n
      BY <1>2
  <2> QED  BY <2>6, <2>7
<1> HIDE DEF S
<1>3. n \in S
    BY <1>1, <1>2, AllPlaces
<1> QED  BY <1>3 DEF S

\* ReplaceSpecial takes the characters of a key one after the other.
LEMMA ReplaceSpecialIs ==
    ASSUME NEW key, NEW n \in Nat, Len(key) = n
    PROVE  \E f : SpecialsUpTo(f, key, n) /\ ReplaceSpecial(key) = f[n]
<1> DEFINE f == CHOOSE f : f = [i \in 0 .. n |-> IF i = 0 THEN <<>> ELSE NextSpecial(f[i - 1], key[i])]
<1>1. f = [i \in 0 .. n |-> IF i = 0 THEN <<>> ELSE NextSpecial(f[i - 1], key[i])]
    BY SpecialsExist DEF IsSpecials
<1>2. ReplaceSpecial(key) = f[n]
    BY DEF ReplaceSpecial, NextSpecial
<1> HIDE DEF f
<1>3. f[0] = <<>>
    BY <1>1
<1>4. \A i \in 1 .. n : f[i] = NextSpecial(f[i - 1], key[i])
    BY <1>1
<1>5. SpecialsUpTo(f, key, n)
    BY <1>3, <1>4 DEF SpecialsUpTo
<1> QED  BY <1>2, <1>5

\* ReplaceDotDashRuns takes those of a text.
LEMMA ReplaceDotDashRunsIs ==
    ASSUME NEW text, NEW n \in Nat, Len(text) = n
    PROVE  \E g : RunsUpTo(g, text, n) /\ ReplaceDotDashRuns(text) = g[n]
<1> DEFINE g == CHOOSE g : g = [i \in 0 .. n |-> IF i = 0 THEN <<>> ELSE NextRun(g[i - 1], text[i])]
<1>1. g = [i \in 0 .. n |-> IF i = 0 THEN <<>> ELSE NextRun(g[i - 1], text[i])]
    BY RunsExist DEF IsRuns
<1>2. ReplaceDotDashRuns(text) = g[n]
    BY DEF ReplaceDotDashRuns, NextRun
<1> HIDE DEF g
<1>3. g[0] = <<>>
    BY <1>1
<1>4. \A i \in 1 .. n : g[i] = NextRun(g[i - 1], text[i])
    BY <1>1
<1>5. RunsUpTo(g, text, n)
    BY <1>3, <1>4 DEF RunsUpTo
<1> QED  BY <1>2, <1>5

\* What is made of the first characters depends on them alone.
LEMMA SameSpecials ==
    ASSUME NEW key, NEW other, NEW n \in Nat, NEW f, SpecialsUpTo(f, key, n),
           NEW h, SpecialsUpTo(h, other, n), \A i \in 1 .. n : key[i] = other[i]
    PROVE  f[n] = h[n]
<1> DEFINE S == {k \in 0 .. n : f[k] = h[k]}
<1>1. 0 \in S
    BY DEF SpecialsUpTo
<1>2. ASSUME NEW k \in 0 .. n, k \in S, k < n PROVE k + 1 \in S
  <2>1. k + 1 \in 1 .. n /\ (k + 1) - 1 = k
      BY <1>2
  <2>2. f[k + 1] = NextSpecial(f[k], key[k + 1]) /\ h[k + 1] = NextSpecial(h[k], other[k + 1])
      BY <2>1 DEF SpecialsUpTo
  <2> QED  BY <1>2, <2>1, <2>2
<1> HIDE DEF S
<1>3. n \in S
    BY <1>1, <1>2, AllPlaces
<1> QED  BY <1>3 DEF S

\* And likewise for runs.
LEMMA SameRuns ==
    ASSUME NEW text, NEW other, NEW n \in Nat, NEW f, RunsUpTo(f, text, n),
           NEW h, RunsUpTo(h, other, n), \A i \in 1 .. n : text[i] = other[i]
    PROVE  f[n] = h[n]
<1> DEFINE S == {k \in 0 .. n : f[k] = h[k]}
<1>1. 0 \in S
    BY DEF RunsUpTo
<1>2. ASSUME NEW k \in 0 .. n, k \in S, k < n PROVE k + 1 \in S
  <2>1. k + 1 \in 1 .. n /\ (k + 1) - 1 = k
      BY <1>2
  <2>2. f[k + 1] = NextRun(f[k], text[k + 1]) /\ h[k + 1] = NextRun(h[k], other[k + 1])
      BY <2>1 DEF RunsUpTo
  <2> QED  BY <1>2, <2>1, <2>2
<1> HIDE DEF S
<1>3. n \in S
    BY <1>1, <1>2, AllPlaces
<1> QED  BY <1>3 DEF S

\* t begins with the characters of s up to its last letter or digit.
Keeps(s, t) ==
    \A b \in 1 .. Len(s) : s[b] \in Alphanumeric =>
        b <= Len(t) /\ \A i \in 1 .. b : t[i] = s[i]

\* t begins with s.
Extends(s, t) == Len(s) <= Len(t) /\ \A i \in 1 .. Len(s) : t[i] = s[i]

\* The members of a list with one more.
LEMMA Appended ==
    ASSUME NEW E, NEW s \in Seq(E), NEW c \in E, NEW n \in Nat, Len(s) = n
    PROVE  /\ Append(s, c) \in Seq(E) /\ Len(Append(s, c)) = n + 1
           /\ \A i \in 1 .. n : Append(s, c)[i] = s[i]
           /\ Append(s, c)[n + 1] = c
OBVIOUS

\* The classes of characters.
LEMMA LowerChars ==
    /\ \A c \in Lowercase \cup Uppercase \cup Digits : Lower(c) \in Alphanumeric
    /\ Lower("-") = "-"
    /\ \A c \in Alphanumeric : Lower(c) = c /\ c \in Lowercase \cup Uppercase \cup Digits \cup {"-"}
    /\ "." \notin Lowercase \cup Uppercase \cup Digits \cup {"-"}
    /\ "." \in TextChars /\ "-" \in TextChars /\ \A c \in Alphanumeric : c \in TextChars
    /\ \A c \in TextChars : c \in Alphanumeric \/ c = "." \/ c = "-"
BY DEF Lower, Lowercase, Uppercase, Digits, Alphanumeric, TextChars

\* Characters become letters, digits, dashes and dots, and what is there stays.
LEMMA NextSpecialIs ==
    ASSUME NEW s \in Seq(TextChars), NEW c
    PROVE  /\ NextSpecial(s, c) \in Seq(TextChars) /\ Extends(s, NextSpecial(s, c))
           /\ c \in Lowercase \cup Uppercase \cup Digits =>
                /\ Len(NextSpecial(s, c)) # 0
                /\ NextSpecial(s, c)[Len(NextSpecial(s, c))] \in Alphanumeric
<1> DEFINE n == Len(s)
<1>1. n \in Nat
    OBVIOUS
<1> HIDE DEF n
<1>2. ASSUME NEW d \in TextChars
      PROVE  /\ Append(s, d) \in Seq(TextChars) /\ Extends(s, Append(s, d))
             /\ Len(Append(s, d)) # 0 /\ Append(s, d)[Len(Append(s, d))] = d
  <2> DEFINE t == Append(s, d)
  <2>1. t \in Seq(TextChars) /\ Len(t) = n + 1 /\ (\A i \in 1 .. n : t[i] = s[i]) /\ t[n + 1] = d
      BY <1>1, Appended DEF n
  <2> HIDE DEF t
  <2>2. Extends(s, t)
      BY <1>1, <2>1 DEF Extends, n
  <2>3. Len(t) # 0
      BY <1>1, <2>1
  <2> QED  BY <2>1, <2>2, <2>3 DEF t
<1>3. CASE c \in Lowercase \cup Uppercase \cup Digits
  <2>1. NextSpecial(s, c) = Append(s, Lower(c))
      BY <1>3 DEF NextSpecial
  <2>2. Lower(c) \in Alphanumeric /\ Lower(c) \in TextChars
      BY <1>3, LowerChars
  <2> QED  BY <1>2, <2>1, <2>2
<1>4. CASE c = "-"
  <2>1. NextSpecial(s, c) = Append(s, "-")
      BY <1>4, LowerChars DEF NextSpecial
  <2>2. c \notin Lowercase \cup Uppercase \cup Digits
      BY <1>4 DEF Lowercase, Uppercase, Digits
  <2> QED  BY <1>2, <2>1, <2>2, LowerChars
<1>5. CASE c \notin Lowercase \cup Uppercase \cup Digits \cup {"-"}
  <2>1. NextSpecial(s, c) = s \/ NextSpecial(s, c) = Append(s, ".")
      BY <1>5 DEF NextSpecial
  <2>2. Extends(s, s)
      BY <1>1 DEF Extends, n
  <2> QED  BY <1>2, <1>5, <2>1, <2>2, LowerChars
<1> QED  BY <1>3, <1>4, <1>5

\* A dot replaces the dots and dashes before it, other characters are appended.
LEMMA NextRunIs ==
    ASSUME NEW s \in Seq(TextChars), NEW c \in TextChars
    PROVE  /\ c = "." => NextRun(s, c) = Append(TrimRight(s, {".", "-"}), ".")
           /\ c = "-" /\ EndsIn(s, {"."}) => NextRun(s, c) = s
           /\ c = "-" /\ ~ EndsIn(s, {"."}) => NextRun(s, c) = Append(s, c)
           /\ c \in Alphanumeric => NextRun(s, c) = Append(s, c)
<1>1. c \in Alphanumeric => c # "." /\ c # "-"
    BY CharsDiffer
<1> QED  BY <1>1, Zenon DEF NextRun

\* A text with one more character has no runs if the last two characters are none.
LEMMA AppendedNoRuns ==
    ASSUME NEW s \in Seq(TextChars), NEW n \in Nat, Len(s) = n, NoRuns(s), NEW c \in TextChars,
           n # 0 => (s[n] = "." => c \in Alphanumeric) /\ (c = "." => s[n] \in Alphanumeric)
    PROVE  NoRuns(Append(s, c))
<1> DEFINE t == Append(s, c)
<1>1. t \in Seq(TextChars) /\ Len(t) = n + 1 /\ (\A i \in 1 .. n : t[i] = s[i]) /\ t[n + 1] = c
    BY Appended
<1> HIDE DEF t
<1>2. \A i \in 1 .. n - 1 : /\ s[i] = "." => s[i + 1] \in Alphanumeric
                            /\ s[i + 1] = "." => s[i] \in Alphanumeric
    BY DEF NoRuns
<1>3. ASSUME NEW i \in 1 .. n
      PROVE  (t[i] = "." => t[i + 1] \in Alphanumeric) /\ (t[i + 1] = "." => t[i] \in Alphanumeric)
  <2>1. CASE i = n
    <3>1. t[i] = s[n] /\ t[i + 1] = c /\ n # 0
        BY <1>1, <2>1
    <3> QED  BY <3>1
  <2>2. CASE i # n
    <3>1. i \in 1 .. n - 1 /\ i + 1 \in 1 .. n
        BY <2>2
    <3>2. t[i] = s[i] /\ t[i + 1] = s[i + 1]
        BY <1>1, <3>1
    <3> QED  BY <1>2, <3>1, <3>2
  <2> QED  BY <2>1, <2>2
<1>4. Len(t) - 1 = n
    BY <1>1
<1>5. NoRuns(t)
    BY <1>3, <1>4 DEF NoRuns
<1> QED  BY <1>5 DEF t

\* The first characters of a text without runs have none.
LEMMA FirstNoRuns ==
    ASSUME NEW s \in Seq(TextChars), NEW n \in Nat, Len(s) = n, NoRuns(s), NEW m \in 0 .. n
    PROVE  /\ SubSeq(s, 1, m) \in Seq(TextChars) /\ Len(SubSeq(s, 1, m)) = m
           /\ \A i \in 1 .. m : SubSeq(s, 1, m)[i] = s[i]
           /\ NoRuns(SubSeq(s, 1, m))
<1> DEFINE t == SubSeq(s, 1, m)
<1>1. m \in Nat /\ m <= Len(s) /\ 1 <= m + 1 /\ m + 1 - 1 = m
    OBVIOUS
<1>2. /\ t \in Seq(TextChars) /\ Len(t) = m + 1 - 1
      /\ \A i \in 1 .. (m + 1 - 1) : t[i] = s[1 + i - 1]
    BY <1>1, PartOf
<1> HIDE DEF t
<1>3. \A i \in 1 .. m : 1 + i - 1 = i
    OBVIOUS
<1>4. t \in Seq(TextChars) /\ Len(t) = m /\ \A i \in 1 .. m : t[i] = s[i]
    BY <1>1, <1>2, <1>3
<1>5. \A i \in 1 .. n - 1 : /\ s[i] = "." => s[i + 1] \in Alphanumeric
                            /\ s[i + 1] = "." => s[i] \in Alphanumeric
    BY DEF NoRuns
<1>6. ASSUME NEW i \in 1 .. m - 1
      PROVE  (t[i] = "." => t[i + 1] \in Alphanumeric) /\ (t[i + 1] = "." => t[i] \in Alphanumeric)
  <2>1. i \in 1 .. n - 1 /\ i \in 1 .. m /\ i + 1 \in 1 .. m
      OBVIOUS
  <2>2. t[i] = s[i] /\ t[i + 1] = s[i + 1]
      BY <1>4, <2>1
  <2> QED  BY <1>5, <2>1, <2>2
<1>7. NoRuns(t)
    BY <1>4, <1>6 DEF NoRuns
<1> QED  BY <1>4, <1>7 DEF t

\* What one more character does to a text without runs: there is none still, and the
\* text stays up to its last letter or digit.
LEMMA NextRunKeeps ==
    ASSUME NEW s \in Seq(TextChars), NoRuns(s), NEW c \in TextChars
    PROVE  /\ NextRun(s, c) \in Seq(TextChars) /\ NoRuns(NextRun(s, c)) /\ Keeps(s, NextRun(s, c))
           /\ c \in Alphanumeric =>
                /\ Len(NextRun(s, c)) # 0
                /\ NextRun(s, c)[Len(NextRun(s, c))] \in Alphanumeric
<1> DEFINE n == Len(s)
<1>1. n \in Nat /\ Len(s) = n
    OBVIOUS
<1> HIDE DEF n
<1>s. Keeps(s, s)
  <2>1. \A b \in 1 .. n : b <= n
      BY <1>1
  <2> QED  BY <1>1, <2>1 DEF Keeps
<1>2. ASSUME NEW m \in 0 .. n, NEW d \in TextChars,
             \A j \in m + 1 .. n : s[j] \notin Alphanumeric
      PROVE  /\ Append(SubSeq(s, 1, m), d) \in Seq(TextChars)
             /\ Keeps(s, Append(SubSeq(s, 1, m), d))
             /\ Len(Append(SubSeq(s, 1, m), d)) = m + 1
             /\ Append(SubSeq(s, 1, m), d)[m + 1] = d
  <2> DEFINE h == SubSeq(s, 1, m)
             t == Append(h, d)
  <2>1. h \in Seq(TextChars) /\ Len(h) = m /\ (\A i \in 1 .. m : h[i] = s[i])
      BY <1>1, FirstNoRuns
  <2> HIDE DEF h
  <2>m. m \in Nat
      BY <1>1
  <2>2. t \in Seq(TextChars) /\ Len(t) = m + 1 /\ (\A i \in 1 .. m : t[i] = h[i]) /\ t[m + 1] = d
      BY <2>1, <2>m, Appended
  <2> HIDE DEF t
  <2>3. ASSUME NEW b \in 1 .. n, s[b] \in Alphanumeric
        PROVE  b <= Len(t) /\ \A i \in 1 .. b : t[i] = s[i]
    <3>1. b \notin m + 1 .. n
        BY <1>2, <2>3
    <3>2. b <= m
        BY <1>1, <2>m, <3>1
    <3>3. b <= Len(t) /\ \A i \in 1 .. b : i \in 1 .. m
        BY <2>2, <2>m, <3>2
    <3> QED  BY <2>1, <2>2, <3>3
  <2>4. Keeps(s, t)
      BY <1>1, <2>3 DEF Keeps
  <2> QED  BY <2>2, <2>4 DEF h, t
<1>3. SubSeq(s, 1, n) = s
  <2>1. n \in 0 .. n
      BY <1>1
  <2>2. /\ SubSeq(s, 1, n) \in Seq(TextChars) /\ Len(SubSeq(s, 1, n)) = n
        /\ \A i \in 1 .. n : SubSeq(s, 1, n)[i] = s[i]
      BY <1>1, <2>1, FirstNoRuns
  <2> QED  BY <1>1, <2>2, SameList
<1>4. ASSUME NEW d \in TextChars
      PROVE  /\ Append(s, d) \in Seq(TextChars) /\ Keeps(s, Append(s, d))
             /\ Len(Append(s, d)) = n + 1 /\ Append(s, d)[n + 1] = d
  <2>1. n \in 0 .. n /\ \A j \in n + 1 .. n : s[j] \notin Alphanumeric
      BY <1>1
  <2>2. /\ Append(SubSeq(s, 1, n), d) \in Seq(TextChars)
        /\ Keeps(s, Append(SubSeq(s, 1, n), d))
        /\ Len(Append(SubSeq(s, 1, n), d)) = n + 1
        /\ Append(SubSeq(s, 1, n), d)[n + 1] = d
      BY <1>2, <2>1
  <2> QED  BY <1>3, <2>2
<1>5. CASE c = "."
  <2>1. PICK m \in 0 .. n : /\ m # 0 => s[m] \notin {".", "-"}
                            /\ \A j \in m + 1 .. n : s[j] \in {".", "-"}
      BY TrimRightPlace DEF n
  <2>m. m \in Nat /\ (m # 0 => m \in 1 .. n)
      BY <1>1
  <2> DEFINE h == SubSeq(s, 1, m)
  <2>2. TrimRight(s, {".", "-"}) = h
    <3>1. m \in 0 .. Len(s) /\ \A j \in m + 1 .. Len(s) : s[j] \in {".", "-"}
        BY <1>1, <2>1
    <3> QED  BY <2>1, <3>1, TrimRightTo
  <2>3. NextRun(s, c) = Append(h, c)
      BY <1>5, <2>2, NextRunIs
  <2>4. \A j \in m + 1 .. n : s[j] \notin Alphanumeric
      BY <2>1, CharsDiffer
  <2>5. Append(h, c) \in Seq(TextChars) /\ Keeps(s, Append(h, c))
      BY <1>2, <2>4
  <2>6. h \in Seq(TextChars) /\ Len(h) = m /\ NoRuns(h) /\ \A i \in 1 .. m : h[i] = s[i]
      BY <1>1, FirstNoRuns
  <2>7. m # 0 => h[m] \in Alphanumeric
    <3> SUFFICES ASSUME m # 0 PROVE h[m] \in Alphanumeric
        OBVIOUS
    <3>1. m \in 1 .. n /\ m \in 1 .. m
        BY <2>m
    <3>2. s[m] \in TextChars /\ s[m] \notin {".", "-"}
        BY <1>1, <2>1, <3>1
    <3>3. s[m] \in Alphanumeric
        BY <3>2, CharsDiffer
    <3> QED  BY <2>6, <3>1, <3>3
  <2> HIDE DEF h
  <2>8. m # 0 => (h[m] = "." => c \in Alphanumeric) /\ (c = "." => h[m] \in Alphanumeric)
      BY <2>7, CharsDiffer
  <2>9. NoRuns(Append(h, c))
      BY <2>m, <2>6, <2>8, AppendedNoRuns
  <2>10. c \notin Alphanumeric
      BY <1>5, CharsDiffer
  <2> QED  BY <2>3, <2>5, <2>9, <2>10
<1>6. CASE c = "-" /\ EndsIn(s, {"."})
  <2>1. NextRun(s, c) = s /\ c \notin Alphanumeric
      BY <1>6, NextRunIs, CharsDiffer
  <2> QED  BY <1>s, <2>1
<1>7. CASE c = "-" /\ ~ EndsIn(s, {"."})
  <2>1. NextRun(s, c) = Append(s, c) /\ c \notin Alphanumeric /\ c # "."
      BY <1>7, NextRunIs, CharsDiffer
  <2>2. n # 0 => s[n] # "."
      BY <1>1, <1>7 DEF EndsIn
  <2>3. NoRuns(Append(s, c))
      BY <1>1, <2>1, <2>2, AppendedNoRuns
  <2> QED  BY <1>4, <2>1, <2>3
<1>8. CASE c \in Alphanumeric
  <2>1. NextRun(s, c) = Append(s, c) /\ c # "."
      BY <1>8, NextRunIs, CharsDiffer
  <2>3. NoRuns(Append(s, c))
      BY <1>1, <1>8, <2>1, AppendedNoRuns
  <2>4. Len(Append(s, c)) = n + 1 /\ n + 1 # 0 /\ Append(s, c)[n + 1] = c
      BY <1>1, <1>4
  <2> QED  BY <1>4, <1>8, <2>1, <2>3, <2>4
<1> QED  BY <1>5, <1>6, <1>7, <1>8, LowerChars

\* What begins with what begins with s begins with s.
LEMMA ExtendsTransitive ==
    ASSUME NEW s \in Seq(TextChars), NEW t \in Seq(TextChars), NEW u \in Seq(TextChars),
           Extends(s, t), Extends(t, u)
    PROVE  Extends(s, u)
<1>1. Len(s) \in Nat /\ Len(t) \in Nat /\ Len(u) \in Nat
    OBVIOUS
<1>2. Len(s) <= Len(t) /\ Len(t) <= Len(u)
    BY DEF Extends
<1>3. \A i \in 1 .. Len(s) : i \in 1 .. Len(t)
    BY <1>1, <1>2
<1>4. \A i \in 1 .. Len(s) : u[i] = s[i]
    BY <1>3 DEF Extends
<1>5. Len(s) <= Len(u)
    BY <1>1, <1>2
<1> QED  BY <1>4, <1>5 DEF Extends

\* And likewise up to the last letter or digit.
LEMMA KeepsTransitive ==
    ASSUME NEW s \in Seq(TextChars), NEW t \in Seq(TextChars), NEW u \in Seq(TextChars),
           Keeps(s, t), Keeps(t, u)
    PROVE  Keeps(s, u)
<1>1. Len(s) \in Nat /\ Len(t) \in Nat /\ Len(u) \in Nat
    OBVIOUS
<1> SUFFICES ASSUME NEW b \in 1 .. Len(s), s[b] \in Alphanumeric
             PROVE  b <= Len(u) /\ \A i \in 1 .. b : u[i] = s[i]
    BY DEF Keeps
<1>2. b <= Len(t) /\ \A i \in 1 .. b : t[i] = s[i]
    BY DEF Keeps
<1>3. b \in 1 .. Len(t) /\ b \in 1 .. b
    BY <1>1, <1>2
<1>4. t[b] \in Alphanumeric
    BY <1>2, <1>3
<1>5. b <= Len(u) /\ \A i \in 1 .. b : u[i] = t[i]
    BY <1>3, <1>4 DEF Keeps
<1> QED  BY <1>2, <1>5

\* ReplaceSpecial leaves letters, digits, dashes and dots.
LEMMA SpecialsTexts ==
    ASSUME NEW key, NEW n \in Nat, NEW f, SpecialsUpTo(f, key, n)
    PROVE  \A k \in 0 .. n : f[k] \in Seq(TextChars)
<1> DEFINE S == {k \in 0 .. n : f[k] \in Seq(TextChars)}
<1>1. 0 \in S
  <2>1. f[0] = <<>>
      BY DEF SpecialsUpTo
  <2>2. <<>> \in Seq(TextChars)
      OBVIOUS
  <2>3. f[0] \in Seq(TextChars)
      BY <2>1, <2>2, Zenon
  <2> QED  BY <2>3
<1>2. ASSUME NEW k \in 0 .. n, k \in S, k < n PROVE k + 1 \in S
  <2>1. k + 1 \in 1 .. n /\ (k + 1) - 1 = k /\ k + 1 \in 0 .. n
      BY <1>2
  <2>2. f[k + 1] = NextSpecial(f[k], key[k + 1])
      BY <2>1 DEF SpecialsUpTo
  <2>3. f[k + 1] \in Seq(TextChars)
      BY <1>2, <2>2, NextSpecialIs
  <2> QED  BY <2>1, <2>3
<1> HIDE DEF S
<1>3. \A k \in 0 .. n : k \in S
    BY <1>1, <1>2, AllPlaces
<1> QED  BY <1>3 DEF S

\* It never takes back what it has written.
LEMMA SpecialsGrow ==
    ASSUME NEW key, NEW n \in Nat, NEW f, SpecialsUpTo(f, key, n), NEW i \in 0 .. n
    PROVE  Extends(f[i], f[n])
<1> DEFINE S == {k \in 0 .. n : i <= k => Extends(f[i], f[k])}
<1>0. \A k \in 0 .. n : f[k] \in Seq(TextChars)
    BY SpecialsTexts
<1>i. Extends(f[i], f[i])
  <2>1. Len(f[i]) \in Nat
      BY <1>0
  <2> QED  BY <2>1 DEF Extends
<1>1. 0 \in S
    BY <1>i
<1>2. ASSUME NEW k \in 0 .. n, k \in S, k < n PROVE k + 1 \in S
  <2>1. k + 1 \in 1 .. n /\ (k + 1) - 1 = k /\ k + 1 \in 0 .. n
      BY <1>2
  <2>2. f[k + 1] = NextSpecial(f[k], key[k + 1])
      BY <2>1 DEF SpecialsUpTo
  <2>3. Extends(f[k], f[k + 1])
      BY <1>0, <2>2, NextSpecialIs
  <2>4. ASSUME i <= k + 1 PROVE Extends(f[i], f[k + 1])
    <3>1. i = k + 1 \/ i <= k
        BY <2>4
    <3>2. CASE i <= k
      <4>1. Extends(f[i], f[k])
          BY <1>2, <3>2
      <4> QED  BY <1>0, <2>1, <2>3, <4>1, ExtendsTransitive
    <3> QED  BY <1>i, <3>1, <3>2
  <2> QED  BY <2>1, <2>4
<1> HIDE DEF S
<1>3. \A k \in 0 .. n : k \in S
    BY <1>1, <1>2, AllPlaces
<1>4. n \in S /\ i <= n
    BY <1>3
<1> QED  BY <1>4 DEF S

\* ReplaceDotDashRuns leaves no runs.
LEMMA RunsTexts ==
    ASSUME NEW text, NEW n \in Nat, NEW g, RunsUpTo(g, text, n),
           \A i \in 1 .. n : text[i] \in TextChars
    PROVE  \A k \in 0 .. n : g[k] \in Seq(TextChars) /\ NoRuns(g[k])
<1> DEFINE S == {k \in 0 .. n : g[k] \in Seq(TextChars) /\ NoRuns(g[k])}
<1>1. 0 \in S
  <2>1. g[0] = <<>>
      BY DEF RunsUpTo
  <2>2. NoRuns(<<>>) /\ <<>> \in Seq(TextChars)
      BY DEF NoRuns
  <2>3. g[0] \in Seq(TextChars) /\ NoRuns(g[0])
      BY <2>1, <2>2, Zenon
  <2> QED  BY <2>3
<1>2. ASSUME NEW k \in 0 .. n, k \in S, k < n PROVE k + 1 \in S
  <2>1. k + 1 \in 1 .. n /\ (k + 1) - 1 = k /\ k + 1 \in 0 .. n
      BY <1>2
  <2>2. g[k + 1] = NextRun(g[k], text[k + 1])
      BY <2>1 DEF RunsUpTo
  <2>3. g[k + 1] \in Seq(TextChars) /\ NoRuns(g[k + 1])
      BY <1>2, <2>1, <2>2, NextRunKeeps
  <2> QED  BY <2>1, <2>3
<1> HIDE DEF S
<1>3. \A k \in 0 .. n : k \in S
    BY <1>1, <1>2, AllPlaces
<1> QED  BY <1>3 DEF S

\* It takes back dots and dashes only.
LEMMA RunsKeep ==
    ASSUME NEW text, NEW n \in Nat, NEW g, RunsUpTo(g, text, n),
           \A i \in 1 .. n : text[i] \in TextChars, NEW i \in 0 .. n
    PROVE  Keeps(g[i], g[n])
<1> DEFINE S == {k \in 0 .. n : i <= k => Keeps(g[i], g[k])}
<1>0. \A k \in 0 .. n : g[k] \in Seq(TextChars) /\ NoRuns(g[k])
    BY RunsTexts
<1>i. Keeps(g[i], g[i])
  <2>1. Len(g[i]) \in Nat
      BY <1>0
  <2>2. \A b \in 1 .. Len(g[i]) : b <= Len(g[i])
      BY <2>1
  <2> QED  BY <2>2 DEF Keeps
<1>1. 0 \in S
    BY <1>i
<1>2. ASSUME NEW k \in 0 .. n, k \in S, k < n PROVE k + 1 \in S
  <2>1. k + 1 \in 1 .. n /\ (k + 1) - 1 = k /\ k + 1 \in 0 .. n
      BY <1>2
  <2>2. g[k + 1] = NextRun(g[k], text[k + 1])
      BY <2>1 DEF RunsUpTo
  <2>3. Keeps(g[k], g[k + 1])
      BY <1>0, <2>1, <2>2, NextRunKeeps
  <2>4. ASSUME i <= k + 1 PROVE Keeps(g[i], g[k + 1])
    <3>1. i = k + 1 \/ i <= k
        BY <2>4
    <3>2. CASE i <= k
      <4>1. Keeps(g[i], g[k])
          BY <1>2, <3>2
      <4> QED  BY <1>0, <2>1, <2>3, <4>1, KeepsTransitive
    <3> QED  BY <1>i, <3>1, <3>2
  <2> QED  BY <2>1, <2>4
<1> HIDE DEF S
<1>3. \A k \in 0 .. n : k \in S
    BY <1>1, <1>2, AllPlaces
<1>4. n \in S /\ i <= n
    BY <1>3
<1> QED  BY <1>4 DEF S

-----------------------------------------------------------------------------
(* cleanKey as a whole.                                                    *)

\* The steps of cleanKey: f and g are its two loops, over the n characters of the key and
\* the m of the text, and a and b the places between which the ends are trimmed.
Cleans(key, n, f, m, g, a, b) ==
    /\ SpecialsUpTo(f, key, n) /\ m \in Nat /\ m = Len(f[n])
    /\ RunsUpTo(g, f[n], m)
    /\ Bounds(g[m], a, b)
    /\ cleanKey(key) = SubSeq(g[m], a + 1, b)

\* What the loops leave on the way.
LEMMA CleansTexts ==
    ASSUME NEW key, NEW n \in Nat, NEW f, NEW m, NEW g, NEW a, NEW b, Cleans(key, n, f, m, g, a, b)
    PROVE  /\ m \in Nat /\ \A k \in 0 .. n : f[k] \in Seq(TextChars)
           /\ \A i \in 1 .. m : f[n][i] \in TextChars
           /\ \A k \in 0 .. m : g[k] \in Seq(TextChars) /\ NoRuns(g[k])
<1>1. m \in Nat /\ SpecialsUpTo(f, key, n) /\ RunsUpTo(g, f[n], m) /\ m = Len(f[n])
    BY DEF Cleans
<1>2. \A k \in 0 .. n : f[k] \in Seq(TextChars)
    BY <1>1, SpecialsTexts
<1>3. f[n] \in Seq(TextChars)
    BY <1>2
<1>4. \A i \in 1 .. m : f[n][i] \in TextChars
    BY <1>1, <1>3
<1>5. \A k \in 0 .. m : g[k] \in Seq(TextChars) /\ NoRuns(g[k])
    BY <1>1, <1>4, RunsTexts
<1> QED  BY <1>1, <1>2, <1>4, <1>5

\* Every key is cleaned in these steps.
LEMMA CleanKeyIs ==
    ASSUME NEW key, NEW n \in Nat, Len(key) = n
    PROVE  \E f, m, g, a, b : Cleans(key, n, f, m, g, a, b)
<1>1. PICK f : SpecialsUpTo(f, key, n) /\ ReplaceSpecial(key) = f[n]
    BY ReplaceSpecialIs
<1>2. f[n] \in Seq(TextChars)
    BY <1>1, SpecialsTexts
<1> DEFINE m == Len(f[n])
<1>3. m \in Nat /\ \A i \in 1 .. m : f[n][i] \in TextChars
    BY <1>2
<1> HIDE DEF m
<1>4. PICK g : RunsUpTo(g, f[n], m) /\ ReplaceDotDashRuns(f[n]) = g[m]
    BY <1>3, ReplaceDotDashRunsIs DEF m
<1>5. g[m] \in Seq(TextChars) /\ NoRuns(g[m])
    BY <1>3, <1>4, RunsTexts
<1>6. PICK a, b : Bounds(g[m], a, b)
    BY <1>5, BoundsExist
<1>7. cleanKey(key) = TrimRight(TrimRight(TrimLeft(g[m], {"."}), {"."}), {"-"})
    BY <1>1, <1>4 DEF cleanKey
<1>8. cleanKey(key) = SubSeq(g[m], a + 1, b)
    BY <1>5, <1>6, <1>7, TrimmedIs
<1>9. Cleans(key, n, f, m, g, a, b)
    BY <1>1, <1>3, <1>4, <1>6, <1>8 DEF Cleans, m
<1> QED  BY <1>9

\* What is left of a text when its ends are trimmed.
LEMMA CutIs ==
    ASSUME NEW s \in Seq(TextChars), NEW a, NEW b, Bounds(s, a, b)
    PROVE  /\ a \in 0 .. 1 /\ b \in Nat
           /\ b = 0 => SubSeq(s, a + 1, b) = <<>>
           /\ b # 0 => /\ a < b /\ b <= Len(s) /\ b - a \in Nat
                       /\ SubSeq(s, a + 1, b) \in Seq(TextChars) /\ Len(SubSeq(s, a + 1, b)) = b - a
                       /\ \A i \in 1 .. b - a : SubSeq(s, a + 1, b)[i] = s[a + i]
<1>1. /\ Len(s) \in Nat /\ a \in 0 .. 1 /\ b \in 0 .. Len(s)
      /\ b # 0 => a < b
    BY DEF Bounds
<1>2. CASE b = 0
  <2>1. SubSeq(s, a + 1, 0) = <<>>
      BY <1>1
  <2> QED  BY <1>1, <1>2, <2>1
<1>3. CASE b # 0
  <2>1. a < b /\ b <= Len(s) /\ b - a \in Nat /\ a + 1 \in Nat /\ b \in Nat
      BY <1>1, <1>3
  <2>2. 1 <= a + 1 /\ a + 1 <= b + 1 /\ b + 1 - (a + 1) = b - a
      BY <1>1, <2>1
  <2> DEFINE t == SubSeq(s, a + 1, b)
             l == b - a
  <2>3. /\ t \in Seq(TextChars) /\ Len(t) = b + 1 - (a + 1)
        /\ \A i \in 1 .. (b + 1 - (a + 1)) : t[i] = s[(a + 1) + i - 1]
      BY <2>1, <2>2, PartOf
  <2>4. \A i \in 1 .. l : (a + 1) + i - 1 = a + i
      BY <1>1, <2>1
  <2>5. b + 1 - (a + 1) = l
      BY <2>2
  <2> HIDE DEF t, l
  <2>6. t \in Seq(TextChars) /\ Len(t) = l /\ \A i \in 1 .. l : t[i] = s[(a + 1) + i - 1]
      BY <2>3, <2>5, Zenon
  <2>7. \A i \in 1 .. l : t[i] = s[a + i]
      BY <2>4, <2>6, Zenon
  <2> QED  BY <1>1, <1>3, <2>1, <2>6, <2>7 DEF t, l
<1> QED  BY <1>2, <1>3

\* A text that cleanKey leaves as it is.
Clean(t) ==
    /\ t \in Seq(TextChars) /\ NoRuns(t)
    /\ Len(t) # 0 => t[1] # "." /\ t[Len(t)] \in Alphanumeric

\* What is left of a text without runs is clean.
LEMMA CutIsClean ==
    ASSUME NEW s \in Seq(TextChars), NoRuns(s), NEW a, NEW b, Bounds(s, a, b)
    PROVE  Clean(SubSeq(s, a + 1, b))
<1> DEFINE n == Len(s)
           t == SubSeq(s, a + 1, b)
           l == b - a
<1>1. /\ n \in Nat /\ a \in 0 .. 1 /\ (a = 1 <=> (n > 0 /\ s[1] = "."))
      /\ b # 0 => s[b] \in Alphanumeric
    BY DEF Bounds
<1>2. /\ b \in Nat /\ (b = 0 => t = <<>>)
      /\ b # 0 => /\ a < b /\ b <= n /\ l \in Nat
                  /\ t \in Seq(TextChars) /\ Len(t) = l
                  /\ \A i \in 1 .. l : t[i] = s[a + i]
    BY CutIs
<1> HIDE DEF t
<1>3. CASE b = 0
  <2>1. Clean(<<>>)
      BY DEF Clean, NoRuns
  <2>2. t = <<>>
      BY <1>2, <1>3
  <2> QED  BY <2>1, <2>2 DEF t
<1>4. CASE b # 0
  <2>1. /\ a < b /\ b <= n /\ l \in Nat /\ t \in Seq(TextChars) /\ Len(t) = l
        /\ \A i \in 1 .. l : t[i] = s[a + i]
      BY <1>2, <1>4
  <2>2. \A i \in 1 .. n - 1 : /\ s[i] = "." => s[i + 1] \in Alphanumeric
                              /\ s[i + 1] = "." => s[i] \in Alphanumeric
      BY DEF NoRuns
  <2>3. ASSUME NEW i \in 1 .. l - 1
        PROVE  (t[i] = "." => t[i + 1] \in Alphanumeric) /\ (t[i + 1] = "." => t[i] \in Alphanumeric)
    <3>1. i \in 1 .. l /\ i + 1 \in 1 .. l /\ a + i \in 1 .. n - 1 /\ a + (i + 1) = (a + i) + 1
        BY <1>1, <1>2, <2>1
    <3> HIDE DEF l
    <3>2. t[i] = s[a + i] /\ t[i + 1] = s[(a + i) + 1]
        BY <2>1, <3>1
    <3> QED  BY <2>2, <3>1, <3>2
  <2>4. NoRuns(t)
      BY <2>1, <2>3 DEF NoRuns
  <2>5. t[1] # "."
    <3>1. 1 \in 1 .. l
        BY <1>1, <1>2, <2>1
    <3>2. t[1] = s[a + 1]
        BY <2>1, <3>1
    <3>3. CASE a = 0
      <4>1. s[1] # "." /\ a + 1 = 1
          BY <1>1, <1>2, <2>1, <3>3
      <4> QED  BY <3>2, <4>1
    <3>4. CASE a = 1
      <4>1. s[1] = "." /\ 1 \in 1 .. n - 1 /\ a + 1 = 1 + 1
          BY <1>1, <1>2, <2>1, <3>4
      <4>2. s[1 + 1] \in Alphanumeric
          BY <2>2, <4>1
      <4> QED  BY <3>2, <4>1, <4>2, CharsDiffer
    <3> QED  BY <1>1, <3>3, <3>4
  <2>6. t[Len(t)] \in Alphanumeric
    <3>1. l \in 1 .. l /\ a + l = b
        BY <1>1, <1>2, <2>1
    <3> HIDE DEF l
    <3> QED  BY <1>1, <1>4, <2>1, <3>1
  <2>7. Clean(t)
      BY <2>1, <2>4, <2>5, <2>6 DEF Clean
  <2> QED  BY <2>7 DEF t
<1> QED  BY <1>3, <1>4

\* Names are clean, whatever the key.
LEMMA NamesAreClean ==
    ASSUME NEW key, NEW n \in Nat, Len(key) = n
    PROVE  Clean(cleanKey(key))
<1>1. PICK f, m, g, a, b : Cleans(key, n, f, m, g, a, b)
    BY CleanKeyIs
<1>2. m \in Nat /\ \A k \in 0 .. m : g[k] \in Seq(TextChars) /\ NoRuns(g[k])
    BY <1>1, CleansTexts
<1>3. g[m] \in Seq(TextChars) /\ NoRuns(g[m])
    BY <1>2
<1>4. Bounds(g[m], a, b) /\ cleanKey(key) = SubSeq(g[m], a + 1, b)
    BY <1>1 DEF Cleans
<1>5. Clean(SubSeq(g[m], a + 1, b))
    BY <1>3, <1>4, CutIsClean
<1> QED  BY <1>4, <1>5

\* The first characters of a text and the next one.
LEMMA OneMore ==
    ASSUME NEW s \in Seq(TextChars), NEW n \in Nat, Len(s) = n, NEW i \in Nat, i < n
    PROVE  Append(SubSeq(s, 1, i), s[i + 1]) = SubSeq(s, 1, i + 1)
OBVIOUS

\* The loops leave a clean text as it is.
LEMMA CleanStays ==
    ASSUME NEW t, Clean(t), NEW n \in Nat, Len(t) = n
    PROVE  /\ \A f : SpecialsUpTo(f, t, n) => f[n] = t
           /\ \A g : RunsUpTo(g, t, n) => g[n] = t
<1>1. /\ n # 0 => t[1] # "."
      /\ \A i \in 1 .. n - 1 : /\ t[i] = "." => t[i + 1] \in Alphanumeric
                               /\ t[i + 1] = "." => t[i] \in Alphanumeric
    BY DEF Clean, NoRuns
<1>0. t \in Seq(TextChars) /\ NoRuns(t)
    BY DEF Clean
<1>2. SubSeq(t, 1, 0) = <<>> /\ SubSeq(t, 1, n) = t
    BY <1>0
<1>3. ASSUME NEW k \in Nat, k < n
      PROVE  /\ NextSpecial(SubSeq(t, 1, k), t[k + 1]) = SubSeq(t, 1, k + 1)
             /\ NextRun(SubSeq(t, 1, k), t[k + 1]) = SubSeq(t, 1, k + 1)
  <2> DEFINE s == SubSeq(t, 1, k)
             c == t[k + 1]
  <2>1. k + 1 \in 1 .. n /\ k \in 0 .. n /\ (k # 0 => k \in 1 .. n - 1)
      BY <1>3
  <2>2. c \in TextChars
      BY <1>0, <2>1
  <2>3. Append(s, c) = SubSeq(t, 1, k + 1)
      BY <1>0, <1>3, OneMore
  <2>4. s \in Seq(TextChars) /\ Len(s) = k /\ (\A i \in 1 .. k : s[i] = t[i])
      BY <1>0, <2>1, FirstNoRuns
  <2>5. c = "." => k # 0 /\ s[k] \in Alphanumeric
    <3> SUFFICES ASSUME c = "." PROVE k # 0 /\ s[k] \in Alphanumeric
        OBVIOUS
    <3>1. k # 0
        BY <1>1, <1>3
    <3>2. k \in 1 .. n - 1 /\ k \in 1 .. k
        BY <2>1, <3>1
    <3>3. t[k] \in Alphanumeric
        BY <1>1, <3>2
    <3> QED  BY <2>4, <3>1, <3>2, <3>3
  <2>6. c = "-" => ~ EndsIn(s, {"."})
    <3> SUFFICES ASSUME c = "-", EndsIn(s, {"."}) PROVE FALSE
        OBVIOUS
    <3>1. k # 0 /\ s[k] = "."
        BY <2>4 DEF EndsIn
    <3>2. t[k] = "."
        BY <2>4, <3>1
    <3>3. c \in Alphanumeric
        BY <1>1, <2>1, <3>1, <3>2
    <3> QED  BY <3>3, CharsDiffer
  <2> HIDE DEF s, c
  <2>7. CASE c \in Alphanumeric
    <3>1. NextSpecial(s, c) = Append(s, c)
        BY <2>7, LowerChars DEF NextSpecial
    <3>2. NextRun(s, c) = Append(s, c)
        BY <2>2, <2>4, <2>7, NextRunIs
    <3> QED  BY <2>3, <3>1, <3>2 DEF s, c
  <2>8. CASE c = "-"
    <3>1. NextSpecial(s, c) = Append(s, c)
        BY <2>8, LowerChars DEF NextSpecial
    <3>2. NextRun(s, c) = Append(s, c)
        BY <2>2, <2>4, <2>6, <2>8, NextRunIs
    <3> QED  BY <2>3, <3>1, <3>2 DEF s, c
  <2>9. CASE c = "."
    <3>1. k # 0 /\ s[k] \in Alphanumeric /\ s[k] \notin {".", "-"} /\ s[k] # "."
        BY <2>5, <2>9, CharsDiffer
    <3>2. ~ EndsIn(s, {"."})
        BY <2>4, <3>1 DEF EndsIn
    <3>3. NextSpecial(s, c) = Append(s, c)
        BY <2>9, <3>2, LowerChars DEF NextSpecial
    <3>4. TrimRight(s, {".", "-"}) = SubSeq(s, 1, k)
      <4>1. k \in 0 .. Len(s) /\ (k # 0 => s[k] \notin {".", "-"})
            /\ \A j \in k + 1 .. Len(s) : s[j] \in {".", "-"}
          BY <2>4, <3>1
      <4> QED  BY <2>4, <4>1, TrimRightTo
    <3>5. SubSeq(s, 1, k) = s
        BY <2>4
    <3>6. NextRun(s, c) = Append(s, c)
        BY <2>2, <2>4, <2>9, <3>4, <3>5, NextRunIs
    <3> QED  BY <2>3, <3>3, <3>6 DEF s, c
  <2> QED  BY <2>2, <2>7, <2>8, <2>9, LowerChars DEF s, c
<1> DEFINE First(k) == SubSeq(t, 1, k)
<1>a. First(0) = <<>> /\ First(n) = t
    BY <1>2
<1>b. ASSUME NEW k \in Nat, k < n
      PROVE  NextSpecial(First(k), t[k + 1]) = First(k + 1) /\ NextRun(First(k), t[k + 1]) = First(k + 1)
    BY <1>3, <1>b
<1> HIDE DEF First
<1>4. ASSUME NEW f, SpecialsUpTo(f, t, n) PROVE f[n] = t
  <2> DEFINE S == {k \in 0 .. n : f[k] = First(k)}
  <2>1. 0 \in S
    <3>1. f[0] = <<>>
        BY <1>4, Zenon DEF SpecialsUpTo
    <3>2. f[0] = First(0)
        BY <1>a, <3>1, Zenon
    <3> QED  BY <3>2
  <2>2. ASSUME NEW k \in 0 .. n, k \in S, k < n PROVE k + 1 \in S
    <3>1. k + 1 \in 1 .. n /\ (k + 1) - 1 = k /\ k \in Nat
        BY <2>2
    <3>2. f[k + 1] = NextSpecial(f[k], t[k + 1])
        BY <1>4, <3>1 DEF SpecialsUpTo
    <3> QED  BY <1>b, <2>2, <3>1, <3>2
  <2> HIDE DEF S
  <2>a. \A k \in 0 .. n : k \in S /\ k < n => k + 1 \in S
      BY <2>2
  <2>b. \A k \in 0 .. n : k \in S
      BY <2>1, <2>a, AllPlaces, Zenon
  <2>3. n \in S
      BY <2>b
  <2> QED  BY <1>a, <2>3 DEF S
<1>5. ASSUME NEW g, RunsUpTo(g, t, n) PROVE g[n] = t
  <2> DEFINE S == {k \in 0 .. n : g[k] = First(k)}
  <2>1. 0 \in S
    <3>1. g[0] = <<>>
        BY <1>5, Zenon DEF RunsUpTo
    <3>2. g[0] = First(0)
        BY <1>a, <3>1, Zenon
    <3> QED  BY <3>2
  <2>2. ASSUME NEW k \in 0 .. n, k \in S, k < n PROVE k + 1 \in S
    <3>1. k + 1 \in 1 .. n /\ (k + 1) - 1 = k /\ k \in Nat
        BY <2>2
    <3>2. g[k + 1] = NextRun(g[k], t[k + 1])
        BY <1>5, <3>1 DEF RunsUpTo
    <3> QED  BY <1>b, <2>2, <3>1, <3>2
  <2> HIDE DEF S
  <2>a. \A k \in 0 .. n : k \in S /\ k < n => k + 1 \in S
      BY <2>2
  <2>b. \A k \in 0 .. n : k \in S
      BY <2>1, <2>a, AllPlaces, Zenon
  <2>3. n \in S
      BY <2>b
  <2> QED  BY <1>a, <2>3 DEF S
<1> QED  BY <1>4, <1>5

\* cleanKey leaves a clean text as it is.
LEMMA CleanIsName ==
    ASSUME NEW t, Clean(t)
    PROVE  cleanKey(t) = t
<1> DEFINE n == Len(t)
<1>1. t \in Seq(TextChars) /\ NoRuns(t) /\ n \in Nat /\ (n # 0 => t[1] # "." /\ t[n] \in Alphanumeric)
    BY DEF Clean
<1>2. Bounds(t, 0, n)
    BY <1>1 DEF Bounds
<1>3. SubSeq(t, 0 + 1, n) = t
    BY <1>1
<1> HIDE DEF n
<1>4. PICK f : SpecialsUpTo(f, t, n) /\ ReplaceSpecial(t) = f[n]
    BY <1>1, ReplaceSpecialIs DEF n
<1>5. PICK g : RunsUpTo(g, t, n) /\ ReplaceDotDashRuns(t) = g[n]
    BY <1>1, ReplaceDotDashRunsIs DEF n
<1>6. f[n] = t /\ g[n] = t
    BY <1>1, <1>4, <1>5, CleanStays DEF n
<1>7. cleanKey(t) = TrimRight(TrimRight(TrimLeft(t, {"."}), {"."}), {"-"})
    BY <1>4, <1>5, <1>6 DEF cleanKey
<1>8. TrimRight(TrimRight(TrimLeft(t, {"."}), {"."}), {"-"}) = SubSeq(t, 0 + 1, n)
    BY <1>1, <1>2, TrimmedIs
<1> QED  BY <1>3, <1>7, <1>8

\* A letter or a digit of the key is left.
LEMMA LetterIsLeft ==
    ASSUME NEW key, NEW n \in Nat, NEW f, NEW m, NEW g, NEW a, NEW b, Cleans(key, n, f, m, g, a, b),
           NEW i \in 1 .. n, key[i] \in Lowercase \cup Uppercase \cup Digits
    PROVE  b # 0
<1>1. /\ m \in Nat /\ \A k \in 0 .. n : f[k] \in Seq(TextChars)
      /\ \A j \in 1 .. m : f[n][j] \in TextChars
      /\ \A k \in 0 .. m : g[k] \in Seq(TextChars) /\ NoRuns(g[k])
    BY CleansTexts
<1>2. SpecialsUpTo(f, key, n) /\ m = Len(f[n]) /\ RunsUpTo(g, f[n], m) /\ Bounds(g[m], a, b)
    BY DEF Cleans
<1>3. i - 1 \in 0 .. n /\ i \in 0 .. n
    OBVIOUS
<1>4. f[i] = NextSpecial(f[i - 1], key[i])
    BY <1>2 DEF SpecialsUpTo
<1> DEFINE p == Len(f[i])
<1>5. p \in Nat /\ p # 0 /\ f[i][p] \in Alphanumeric
  <2>1. f[i - 1] \in Seq(TextChars) /\ f[i] \in Seq(TextChars)
      BY <1>1, <1>3
  <2>2. p \in Nat
      BY <2>1
  <2> QED  BY <1>4, <2>1, <2>2, NextSpecialIs
<1>6. Extends(f[i], f[n])
    BY <1>2, <1>3, SpecialsGrow
<1>7. p <= m /\ p \in 1 .. p /\ \A j \in 1 .. p : f[n][j] = f[i][j]
    BY <1>2, <1>5, <1>6 DEF Extends
<1> HIDE DEF p
<1>8. p \in 1 .. m /\ p \in 0 .. m /\ p - 1 \in 0 .. m /\ f[n][p] \in Alphanumeric
    BY <1>1, <1>5, <1>7
<1>9. g[p] = NextRun(g[p - 1], f[n][p])
    BY <1>2, <1>8 DEF RunsUpTo
<1> DEFINE q == Len(g[p])
<1>10. q \in Nat /\ q # 0 /\ g[p][q] \in Alphanumeric
  <2>1. g[p - 1] \in Seq(TextChars) /\ NoRuns(g[p - 1]) /\ g[p] \in Seq(TextChars) /\ f[n][p] \in TextChars
      BY <1>1, <1>8
  <2>2. q \in Nat
      BY <2>1
  <2> QED  BY <1>8, <1>9, <2>1, <2>2, NextRunKeeps
<1>11. Keeps(g[p], g[m])
    BY <1>1, <1>2, <1>8, RunsKeep
<1>12. q \in 1 .. Len(g[p]) /\ q \in 1 .. q
    BY <1>10
<1>13. q <= Len(g[m]) /\ \A j \in 1 .. q : g[m][j] = g[p][j]
    BY <1>10, <1>11, <1>12 DEF Keeps
<1> HIDE DEF q
<1>14. g[m][q] \in Alphanumeric
    BY <1>10, <1>12, <1>13
<1>15. Len(g[m]) \in Nat
  <2>1. g[m] \in Seq(TextChars)
      BY <1>1
  <2> QED  BY <2>1
<1> SUFFICES ASSUME b = 0 PROVE FALSE
    OBVIOUS
<1>16. q \in b + 1 .. Len(g[m])
    BY <1>10, <1>13, <1>15
<1>17. g[m][q] \in {".", "-"}
    BY <1>2, <1>16 DEF Bounds
<1> QED  BY <1>14, <1>17, CharsDiffer

\* The name of a key with a letter or a digit has well-formed labels.
LEMMA NameOfLetters ==
    ASSUME NEW E, NEW key \in Seq(E), NEW k \in DOMAIN key,
           key[k] \in Lowercase \cup Uppercase \cup Digits,
           NEW name, name = cleanKey(key)
    PROVE  /\ name # <<>> /\ name[Len(name)] \in Alphanumeric /\ name[1] # "."
           /\ \A i \in DOMAIN name : name[i] \in Alphanumeric \cup {"-", "."}
           /\ \A i \in DOMAIN name \ {1} :
                 name[i] = "." => name[i - 1] \in Alphanumeric /\ name[i + 1] \in Alphanumeric
<1> DEFINE n == Len(key)
<1>1. n \in Nat /\ k \in 1 .. n
    OBVIOUS
<1> HIDE DEF n
<1>2. PICK f, m, g, a, b : Cleans(key, n, f, m, g, a, b)
    BY <1>1, CleanKeyIs DEF n
<1>3. b # 0
    BY <1>1, <1>2, LetterIsLeft
<1>4. g[m] \in Seq(TextChars) /\ Bounds(g[m], a, b) /\ name = SubSeq(g[m], a + 1, b)
  <2>1. m \in Nat /\ \A j \in 0 .. m : g[j] \in Seq(TextChars)
      BY <1>1, <1>2, CleansTexts
  <2> QED  BY <1>2, <2>1 DEF Cleans
<1> DEFINE l == Len(name)
<1>5. l \in Nat /\ l # 0
  <2>1. a \in 0 .. 1 /\ b \in Nat /\ a < b /\ l = b - a
      BY <1>3, <1>4, CutIs
  <2> QED  BY <2>1
<1>6. Clean(name)
    BY <1>1, NamesAreClean DEF n
<1>7. /\ name \in Seq(TextChars) /\ name[1] # "." /\ name[l] \in Alphanumeric
      /\ \A i \in 1 .. l - 1 : /\ name[i] = "." => name[i + 1] \in Alphanumeric
                               /\ name[i + 1] = "." => name[i] \in Alphanumeric
    BY <1>5, <1>6 DEF Clean, NoRuns
<1>8. DOMAIN name = 1 .. l /\ (\A i \in 1 .. l : name[i] \in TextChars) /\ name # <<>>
    BY <1>5, <1>7
<1> HIDE DEF l
<1>9. ASSUME NEW i \in 1 .. l, i # 1, name[i] = "."
      PROVE  name[i - 1] \in Alphanumeric /\ name[i + 1] \in Alphanumeric
  <2>1. i # l
      BY <1>7, <1>9, CharsDiffer
  <2>2. i \in 1 .. l - 1 /\ i - 1 \in 1 .. l - 1 /\ (i - 1) + 1 = i
      BY <1>5, <1>9, <2>1
  <2> QED  BY <1>7, <1>9, <2>2
<1> QED  BY <1>7, <1>8, <1>9 DEF TextChars, l

\* The name of a folder, cut off anywhere, begins the names of the keys below it.
LEMMA FolderBeginsKey ==
    ASSUME NEW E, NEW key \in Seq(E), NEW k \in 0 .. Len(key)
    PROVE  IsPrefix(cleanKey(SubSeq(key, 1, k)), cleanKey(key))
<1> DEFINE n == Len(key)
           folder == SubSeq(key, 1, k)
<1>1. n \in Nat /\ k \in Nat /\ k \in 0 .. n
    OBVIOUS
<1>2. Len(folder) = k /\ \A i \in 1 .. k : folder[i] = key[i]
    OBVIOUS
<1> HIDE DEF n, folder
<1>3. PICK f, m, g, a, b : Cleans(key, n, f, m, g, a, b)
    BY <1>1, CleanKeyIs DEF n
<1>4. PICK ff, fm, fg, fa, fb : Cleans(folder, k, ff, fm, fg, fa, fb)
    BY <1>1, <1>2, CleanKeyIs
<1>5. /\ m \in Nat /\ \A i \in 0 .. n : f[i] \in Seq(TextChars)
      /\ \A j \in 1 .. m : f[n][j] \in TextChars
      /\ \A i \in 0 .. m : g[i] \in Seq(TextChars) /\ NoRuns(g[i])
    BY <1>1, <1>3, CleansTexts
<1>6. /\ SpecialsUpTo(f, key, n) /\ m = Len(f[n]) /\ RunsUpTo(g, f[n], m)
      /\ Bounds(g[m], a, b) /\ cleanKey(key) = SubSeq(g[m], a + 1, b)
    BY <1>3 DEF Cleans
<1>7. /\ SpecialsUpTo(ff, folder, k) /\ fm = Len(ff[k]) /\ RunsUpTo(fg, ff[k], fm)
      /\ Bounds(fg[fm], fa, fb) /\ cleanKey(folder) = SubSeq(fg[fm], fa + 1, fb) /\ fm \in Nat
    BY <1>4 DEF Cleans
<1>8. ff[k] = f[k]
  <2>1. \A i \in 1 .. k : i \in 1 .. n
      BY <1>1
  <2>2. SpecialsUpTo(f, key, k)
      BY <1>6, <2>1 DEF SpecialsUpTo
  <2> QED  BY <1>1, <1>2, <1>7, <2>2, SameSpecials
<1>9. Extends(f[k], f[n])
    BY <1>1, <1>6, SpecialsGrow
<1>10. fm <= m /\ \A i \in 1 .. fm : f[n][i] = f[k][i]
    BY <1>6, <1>7, <1>8, <1>9 DEF Extends
<1>11. fg[fm] = g[fm]
  <2>1. \A i \in 1 .. fm : i \in 1 .. m
      BY <1>5, <1>7, <1>10
  <2>2. RunsUpTo(g, f[n], fm)
      BY <1>6, <2>1 DEF RunsUpTo
  <2>3. RunsUpTo(fg, f[k], fm)
      BY <1>7, <1>8
  <2>4. \A i \in 1 .. fm : f[k][i] = f[n][i]
      BY <1>10
  <2>5. fm \in Nat
      BY <1>7
  <2> DEFINE x == f[k]
             y == f[n]
  <2>6. RunsUpTo(g, y, fm) /\ RunsUpTo(fg, x, fm) /\ \A i \in 1 .. fm : x[i] = y[i]
      BY <2>2, <2>3, <2>4
  <2> HIDE DEF x, y
  <2> QED  BY <2>5, <2>6, SameRuns
<1>12. fm \in 0 .. m
    BY <1>5, <1>7, <1>10
<1> DEFINE s == g[fm]
           t == g[m]
<1>13. s \in Seq(TextChars) /\ t \in Seq(TextChars) /\ Keeps(s, t)
  <2>1. m \in 0 .. m
      BY <1>5
  <2>2. Keeps(g[fm], g[m])
    <3>1. m \in Nat /\ RunsUpTo(g, f[n], m) /\ \A j \in 1 .. m : f[n][j] \in TextChars
        BY <1>5, <1>6
    <3> QED  BY <1>12, <3>1, RunsKeep
  <2> QED  BY <1>5, <1>12, <2>1, <2>2
<1>14. Bounds(s, fa, fb) /\ Bounds(t, a, b)
    BY <1>6, <1>7, <1>11
<1> HIDE DEF s, t
<1> DEFINE u == SubSeq(s, fa + 1, fb)
           v == SubSeq(t, a + 1, b)
<1>15. /\ fa \in 0 .. 1 /\ fb \in Nat
       /\ fb = 0 => u = <<>>
       /\ fb # 0 => /\ fa < fb /\ fb <= Len(s) /\ fb - fa \in Nat
                    /\ u \in Seq(TextChars) /\ Len(u) = fb - fa
                    /\ \A i \in 1 .. fb - fa : u[i] = s[fa + i]
    BY <1>13, <1>14, CutIs
<1>16. /\ a \in 0 .. 1 /\ b \in Nat
       /\ b = 0 => v = <<>>
       /\ b # 0 => /\ a < b /\ b <= Len(t) /\ b - a \in Nat
                   /\ v \in Seq(TextChars) /\ Len(v) = b - a
                   /\ \A i \in 1 .. b - a : v[i] = t[a + i]
    BY <1>13, <1>14, CutIs
<1>17. /\ Len(s) \in Nat /\ (fa = 1 <=> (Len(s) > 0 /\ s[1] = "."))
       /\ fb # 0 => s[fb] \in Alphanumeric
    BY <1>13, <1>14 DEF Bounds
<1>18. /\ Len(t) \in Nat /\ (a = 1 <=> (Len(t) > 0 /\ t[1] = "."))
       /\ \A j \in b + 1 .. Len(t) : t[j] \in {".", "-"}
    BY <1>13, <1>14 DEF Bounds
<1> HIDE DEF u, v
<1>19. IsPrefix(u, v)
  <2>1. CASE fb = 0
    <3>1. u = <<>>
        BY <1>15, <2>1
    <3>2. v \in Seq(TextChars)
      <4>1. CASE b = 0
        <5>1. v = <<>> /\ <<>> \in Seq(TextChars)
            BY <1>16, <4>1
        <5> QED  BY <5>1, Zenon
      <4> QED  BY <1>16, <4>1
    <3>3. IsPrefix(<<>>, v)
        BY <3>2 DEF IsPrefix
    <3> QED  BY <3>1, <3>3
  <2>2. CASE fb # 0
    <3>1. /\ fa < fb /\ fb <= Len(s) /\ s[fb] \in Alphanumeric /\ fb \in 1 .. Len(s)
          /\ u \in Seq(TextChars) /\ Len(u) = fb - fa
          /\ \A i \in 1 .. fb - fa : u[i] = s[fa + i]
        BY <1>15, <1>17, <2>2
    <3>2. fb <= Len(t) /\ \A i \in 1 .. fb : t[i] = s[i]
        BY <1>13, <3>1 DEF Keeps
    <3>3. 1 \in 1 .. fb /\ fb \in 1 .. fb /\ Len(s) > 0 /\ Len(t) > 0
        BY <1>15, <1>17, <1>18, <2>2, <3>1, <3>2
    <3>4. a = fa
      <4>1. t[1] = s[1]
          BY <3>2, <3>3
      <4> QED  BY <1>15, <1>16, <1>17, <1>18, <3>3, <4>1
    <3>5. fb <= b
      <4>1. t[fb] \in Alphanumeric
          BY <3>1, <3>2, <3>3
      <4>2. fb \notin b + 1 .. Len(t)
          BY <1>18, <4>1, CharsDiffer
      <4> QED  BY <1>15, <1>16, <1>18, <3>2, <4>2
    <3>6. b # 0 /\ fb - fa <= b - a
        BY <1>15, <1>16, <2>2, <3>4, <3>5
    <3>7. /\ v \in Seq(TextChars) /\ Len(v) = b - a
          /\ \A i \in 1 .. b - a : v[i] = t[a + i]
        BY <1>16, <3>6
    <3>8. ASSUME NEW i \in 1 .. fb - fa PROVE u[i] = v[i]
      <4>1. i \in 1 .. b - a /\ fa + i \in 1 .. fb
          BY <1>15, <1>16, <3>1, <3>6
      <4>2. u[i] = s[fa + i] /\ v[i] = t[fa + i]
          BY <3>1, <3>4, <3>7, <4>1
      <4> QED  BY <3>2, <4>1, <4>2
    <3> DEFINE l == fb - fa
    <3>9. l \in Nat /\ Len(u) = l /\ l <= Len(v) /\ \A i \in 1 .. l : u[i] = v[i]
      <4>1. l \in Nat /\ l <= b - a
          BY <1>15, <3>1, <3>6
      <4> QED  BY <3>1, <3>7, <3>8, <4>1
    <3> HIDE DEF l
    <3>10. SubSeq(u, 1, l) = SubSeq(v, 1, l)
        BY <3>1, <3>7, <3>9
    <3> QED  BY <3>9, <3>10 DEF IsPrefix
  <2> QED  BY <2>1, <2>2
<1> QED  BY <1>6, <1>7, <1>11, <1>19 DEF u, v, s, t, folder
-----------------------------------------------------------------------------
(* The theorems about names.                                               *)

\* What is spelled is a key.
SpelledInv == spelled \in Seq(Characters)

\* Spelling, and using the storage, keep it one.
LEMMA SpelledHolds == MCSpec => []SpelledInv
<1>1. MCInit => SpelledInv
    BY DEF MCInit, SpelledInv
<1>2. ASSUME SpelledInv, [MCNext]_<<vars, spelled>> PROVE SpelledInv'
  <2>1. CASE spelled' = spelled
      BY <1>2, <2>1 DEF SpelledInv
  <2>2. ASSUME NEW c \in Characters, spelled' = Append(spelled, c) PROVE SpelledInv'
      BY <1>2, <2>2 DEF SpelledInv
  <2>3. CASE spelled' = <<>>
      BY <2>3 DEF SpelledInv
  <2>4. spelled' = spelled \/ spelled' = <<>> \/ \E c \in Characters : spelled' = Append(spelled, c)
      BY <1>2 DEF MCNext, Use, Spell
  <2> QED  BY <2>1, <2>2, <2>3, <2>4
<1> QED  BY <1>1, <1>2, PTL DEF MCSpec

\* Every key with a letter or a digit, of any length, becomes a name whose labels have the
\* form Kubernetes asks for; that the name is not too long is not claimed.
THEOREM NamesAreWellFormed == MCSpec => []WellFormedName
<1>1. SpelledInv => WellFormedName
  <2> SUFFICES ASSUME spelled \in Seq(Characters),
                      NEW k \in DOMAIN spelled, spelled[k] \in Lowercase \cup Uppercase \cup Digits,
                      NEW name, name = cleanKey(spelled)
               PROVE  /\ name # <<>> /\ name[Len(name)] \in Alphanumeric /\ name[1] # "."
                      /\ \A i \in DOMAIN name : name[i] \in Alphanumeric \cup {"-", "."}
                      /\ \A i \in DOMAIN name \ {1} :
                            name[i] = "." => name[i - 1] \in Alphanumeric /\ name[i + 1] \in Alphanumeric
      BY Zenon DEF SpelledInv, WellFormedName
  <2> QED  BY NameOfLetters
<1> QED  BY <1>1, SpelledHolds, PTL

\* What List answers with can be loaded and deleted: cleaning a name again changes nothing.
THEOREM NamesStay == MCSpec => []ListedKeysLoad
<1>1. SpelledInv => ListedKeysLoad
  <2> SUFFICES ASSUME spelled \in Seq(Characters) PROVE ListedKeysLoad
      BY DEF SpelledInv
  <2>1. Clean(cleanKey(spelled))
    <3> DEFINE n == Len(spelled)
    <3>1. n \in Nat
        OBVIOUS
    <3> HIDE DEF n
    <3> QED  BY <3>1, NamesAreClean DEF n
  <2>2. cleanKey(cleanKey(spelled)) = cleanKey(spelled)
      BY <2>1, CleanIsName
  <2> QED  BY <2>2 DEF ListedKeysLoad
<1> QED  BY <1>1, SpelledHolds, PTL

\* List finds every key below a folder, of any length and cut off anywhere.
THEOREM FoldersFindKeys == MCSpec => []FolderFindsKeys
<1>1. SpelledInv => FolderFindsKeys
    BY FolderBeginsKey DEF SpelledInv, FolderFindsKeys
<1> QED  BY <1>1, SpelledHolds, PTL
=============================================================================
