--------------------------- MODULE SecretStorage ---------------------------
(***************************************************************************)
(* The values of the certificate storage (pkg/storage/storage.go): Store,  *)
(* Load, Delete, Exists, Stat and List, which certmagic calls from several *)
(* goroutines of several replicas, on secrets of one namespace.  Each call *)
(* is one or two requests to the API server.  A request is carried out and *)
(* answered, or it fails: before it reaches the server, on the way back,   *)
(* or by kubeAPITimeout while the server has still to carry it out.        *)
(***************************************************************************)
EXTENDS Integers, FiniteSets, SequencesExt, CleanKey

CONSTANTS
    Clients,   \* goroutines that use the storage
    Keys,      \* storage keys
    Folders,   \* prefixes that are listed
    Values,    \* what is stored
    None,      \* no secret
    MaxLimbo   \* bound on the requests that have timed out and are still alive

ASSUME StorageAssumption == None \notin Values /\ MaxLimbo \in Nat

\* The name of the secret of a key, and the beginning of those of a folder.
NameOf == [k \in Keys \cup Folders |-> cleanKey(k)]
Names == {NameOf[k] : k \in Keys}

VARIABLES
    secrets,  \* name -> the value of its secret, or None
    calls,    \* client -> the call it is in
    limbo     \* requests that nobody waits for any more

vars == <<secrets, calls, limbo>>

Idle == [op |-> "none"]
Waiting == <<>>

\* verb is the request the call waits for.
NewCall(op, key, value, verb) ==
    [op |-> op, key |-> key, value |-> value, verb |-> verb, ret |-> Waiting]

CallsOf(op, keys, values, verbs, answers) ==
    [op : {op}, key : keys, value : values, verb : verbs, ret : {Waiting} \cup answers]

Contents == {<<"value", v>> : v \in Values}

\* Each operation with its requests and answers.
Calls ==
    UNION {CallsOf("Store", Keys, Values, {"create", "update"}, {<<"ok">>, <<"error">>}),
           CallsOf("Delete", Keys, {None}, {"delete"}, {<<"ok">>, <<"error">>}),
           CallsOf("Load", Keys, {None}, {"get"}, {<<"notexist">>, <<"error">>} \cup Contents),
           CallsOf("Stat", Keys, {None}, {"get"}, {<<"error">>} \cup Contents),
           CallsOf("Exists", Keys, {None}, {"get"}, {<<"yes">>, <<"no">>}),
           CallsOf("List", Folders, {None}, {"list"},
                   {<<"error">>} \cup {<<"keys", s>> : s \in SUBSET Names})}

Requests ==
    [verb : {"create", "update"}, name : Names, value : Values]
    \cup [verb : {"delete"}, name : Names, value : {None}]

\* Every variable has its type: each call waits for a request, or has an answer, of its
\* own operation.
TypeOK ==
    /\ secrets \in [Names -> Values \cup {None}]
    /\ calls \in [Clients -> Calls \cup {Idle}]
    /\ limbo \subseteq Requests
    /\ Cardinality(limbo) <= MaxLimbo

Init ==
    /\ secrets = [n \in Names |-> None]
    /\ calls = [c \in Clients |-> Idle]
    /\ limbo = {}
-----------------------------------------------------------------------------
(* The calls and their first requests.                                     *)

Starts(c, call) ==
    /\ calls[c] = Idle
    /\ calls' = [calls EXCEPT ![c] = call]
    /\ UNCHANGED <<secrets, limbo>>

Store(c, key, value) == Starts(c, NewCall("Store", key, value, "create"))
Load(c, key) == Starts(c, NewCall("Load", key, None, "get"))
Delete(c, key) == Starts(c, NewCall("Delete", key, None, "delete"))
Exists(c, key) == Starts(c, NewCall("Exists", key, None, "get"))
Stat(c, key) == Starts(c, NewCall("Stat", key, None, "get"))
List(c, prefix) == Starts(c, NewCall("List", prefix, None, "list"))
-----------------------------------------------------------------------------
(* The API server carries out the request of a call and answers.           *)

Requesting(c, verb) == calls[c] # Idle /\ calls[c].ret = Waiting /\ calls[c].verb = verb

Name(c) == NameOf[calls[c].key]

Answer(c, ret) == calls' = [calls EXCEPT ![c].ret = ret]

Created(c) ==
    /\ Requesting(c, "create") /\ secrets[Name(c)] = None
    /\ secrets' = [secrets EXCEPT ![Name(c)] = calls[c].value]
    /\ Answer(c, <<"ok">>)
    /\ UNCHANGED limbo

\* Faulty variant of AlreadyExists: the secret is deleted to be created again.
AlreadyExists_deletes_first(c) ==
    /\ Requesting(c, "create") /\ secrets[Name(c)] # None
    /\ calls' = [calls EXCEPT ![c].verb = "delete"]
    /\ UNCHANGED <<secrets, limbo>>

\* Faulty variant of AlreadyExists: what is there is taken for what is stored.
AlreadyExists_is_success(c) ==
    /\ Requesting(c, "create") /\ secrets[Name(c)] # None
    /\ Answer(c, <<"ok">>)
    /\ UNCHANGED <<secrets, limbo>>

\* Store falls back to an update.
AlreadyExists(c) ==
    /\ Requesting(c, "create") /\ secrets[Name(c)] # None
    /\ calls' = [calls EXCEPT ![c].verb = "update"]
    /\ UNCHANGED <<secrets, limbo>>

Updated(c) ==
    /\ Requesting(c, "update") /\ secrets[Name(c)] # None
    /\ secrets' = [secrets EXCEPT ![Name(c)] = calls[c].value]
    /\ Answer(c, <<"ok">>)
    /\ UNCHANGED limbo

\* The secret has been deleted between the two requests: Store fails.
UpdateGone(c) ==
    /\ Requesting(c, "update") /\ secrets[Name(c)] = None
    /\ Answer(c, <<"error">>)
    /\ UNCHANGED <<secrets, limbo>>

Deleted(c) ==
    /\ Requesting(c, "delete") /\ secrets[Name(c)] # None
    /\ secrets' = [secrets EXCEPT ![Name(c)] = None]
    /\ Answer(c, <<"ok">>)
    /\ UNCHANGED limbo

DeleteGone(c) ==
    /\ Requesting(c, "delete") /\ secrets[Name(c)] = None
    /\ Answer(c, <<"error">>)
    /\ UNCHANGED <<secrets, limbo>>

Found(c) ==
    /\ Requesting(c, "get") /\ secrets[Name(c)] # None
    /\ Answer(c, IF calls[c].op = "Exists" THEN <<"yes">> ELSE <<"value", secrets[Name(c)]>>)
    /\ UNCHANGED <<secrets, limbo>>

\* Only Load turns what the server says into fs.ErrNotExist.
NotFound(c) ==
    /\ Requesting(c, "get") /\ secrets[Name(c)] = None
    /\ Answer(c, CASE calls[c].op = "Exists" -> <<"no">>
                   [] calls[c].op = "Load"   -> <<"notexist">>
                   [] calls[c].op = "Stat"   -> <<"error">>)
    /\ UNCHANGED <<secrets, limbo>>

\* Names that begin like the cleaned prefix; recursive makes no difference.
Listed(c) ==
    /\ Requesting(c, "list")
    /\ Answer(c, <<"keys", {n \in Names : secrets[n] # None /\ IsPrefix(Name(c), n)}>>)
    /\ UNCHANGED <<secrets, limbo>>

Serve(c) ==
    \/ Created(c) \/ AlreadyExists(c) \/ Updated(c) \/ UpdateGone(c)
    \/ Deleted(c) \/ DeleteGone(c) \/ Found(c) \/ NotFound(c) \/ Listed(c)
-----------------------------------------------------------------------------
(* Requests that fail.                                                     *)

Request(c) == [verb |-> calls[c].verb, name |-> Name(c), value |-> calls[c].value]

Writes(c) == calls[c].verb \in {"create", "update", "delete"}

\* The secrets after a request the server carries out.
CarriedOut(r) ==
    IF (r.verb = "create") = (secrets[r.name] = None)
    THEN [secrets EXCEPT ![r.name] = r.value]
    ELSE secrets

\* An error other than "not found"; Exists logs it and says no.
CallFails(c) == Answer(c, IF calls[c].op = "Exists" THEN <<"no">> ELSE <<"error">>)

IsWaiting(c) == calls[c] # Idle /\ calls[c].ret = Waiting

RequestLost(c) ==
    /\ IsWaiting(c)
    /\ CallFails(c)
    /\ UNCHANGED <<secrets, limbo>>

AnswerLost(c) ==
    /\ IsWaiting(c) /\ Writes(c)
    /\ secrets' = CarriedOut(Request(c))
    /\ CallFails(c)
    /\ UNCHANGED limbo

\* kubeAPITimeout passes while the server is still busy with the request.
TimedOut(c) ==
    /\ IsWaiting(c) /\ Writes(c)
    /\ Cardinality(limbo \cup {Request(c)}) <= MaxLimbo
    /\ limbo' = limbo \cup {Request(c)}
    /\ CallFails(c)
    /\ UNCHANGED secrets

LateRequest(r) ==
    /\ limbo' = limbo \ {r}
    /\ secrets' = CarriedOut(r)
    /\ UNCHANGED calls

Return(c) ==
    /\ calls[c] # Idle /\ calls[c].ret # Waiting
    /\ calls' = [calls EXCEPT ![c] = Idle]
    /\ UNCHANGED <<secrets, limbo>>

\* The process dies between, or during, the requests of a call.
Crash(c) ==
    /\ IsWaiting(c)
    /\ calls' = [calls EXCEPT ![c] = Idle]
    /\ \/ UNCHANGED limbo
       \/ /\ Writes(c)
          /\ Cardinality(limbo \cup {Request(c)}) <= MaxLimbo
          /\ limbo' = limbo \cup {Request(c)}
    /\ UNCHANGED secrets
-----------------------------------------------------------------------------
Begin(c) ==
    \/ \E key \in Keys, value \in Values : Store(c, key, value)
    \/ \E key \in Keys : Load(c, key) \/ Delete(c, key) \/ Exists(c, key) \/ Stat(c, key)
    \/ \E prefix \in Folders : List(c, prefix)

Next ==
    \/ \E c \in Clients :
          Begin(c) \/ Serve(c) \/ RequestLost(c) \/ AnswerLost(c) \/ TimedOut(c)
            \/ Return(c) \/ Crash(c)
    \/ \E r \in limbo : LateRequest(r)

Spec == Init /\ [][Next]_vars
-----------------------------------------------------------------------------
(* Properties.                                                             *)

\* What a caller can see of a call and of a request that outlived its call.
AbsCall(call) ==
    IF call = Idle THEN Idle
    ELSE [op |-> call.op, key |-> NameOf[call.key], value |-> call.value, ret |-> call.ret]

AbsChange(r) ==
    [op |-> IF r.verb = "delete" THEN "Delete" ELSE "Store", key |-> r.name, value |-> r.value]

AbsCalls == [c \in Clients |-> AbsCall(calls[c])]
AbsLimbo == {AbsChange(r) : r \in limbo}
FolderNames == {NameOf[f] : f \in Folders}

KV == INSTANCE KeyValue WITH
    Keys <- Names, Folders <- FolderNames,
    data <- secrets, calls <- AbsCalls, limbo <- AbsLimbo

\* The storage is a map from cleaned keys to values: although Store is two requests,
\* requests fail, overtake each other and outlive their calls, every call takes effect
\* at one moment, or fails.
ImplementsKeyValue == KV!Spec
=============================================================================
