-------------------------- MODULE Pipeline_proofs --------------------------
(***************************************************************************)
(* The way of an object from the cluster to the store, through the watch,  *)
(* the informer's cache and the work queue: proofs that nothing is lost,   *)
(* that nothing stays behind and that no older version comes back.         *)
(***************************************************************************)
EXTENDS Controller_proofs

-----------------------------------------------------------------------------
(* Sequences: where the elements go when one is appended or taken.         *)

\* What Append does to the places of a sequence.
LEMMA AppendPlaces ==
    ASSUME NEW T, NEW s \in Seq(T), NEW e \in T
    PROVE  /\ Append(s, e) \in Seq(T)
           /\ DOMAIN Append(s, e) = DOMAIN s \cup {Len(s) + 1}
           /\ \A i \in DOMAIN s : Append(s, e)[i] = s[i] /\ i < Len(s) + 1 /\ i \in Nat
           /\ Append(s, e)[Len(s) + 1] = e
           /\ Len(s) + 1 \in Nat
<1>1. Len(s) \in Nat /\ DOMAIN s = 1 .. Len(s)
  OBVIOUS
<1>2. DOMAIN Append(s, e) = 1 .. Len(s) + 1
  OBVIOUS
<1>3. 1 .. Len(s) + 1 = (1 .. Len(s)) \cup {Len(s) + 1}
  BY <1>1
<1> QED
  BY <1>1, <1>2, <1>3

\* What Tail does to them.
LEMMA TailPlaces ==
    ASSUME NEW T, NEW s \in Seq(T), s # <<>>
    PROVE  /\ Tail(s) \in Seq(T) /\ Head(s) \in T
           /\ 1 \in DOMAIN s /\ s[1] = Head(s)
           /\ \A i \in DOMAIN Tail(s) : /\ i \in Nat /\ i + 1 \in DOMAIN s
                                        /\ Tail(s)[i] = s[i + 1] /\ 1 < i + 1
           /\ \A i \in DOMAIN s : /\ i \in Nat /\ 1 <= i
                                  /\ i # 1 => /\ i - 1 \in DOMAIN Tail(s)
                                              /\ Tail(s)[i - 1] = s[i]
<1>1. Len(s) \in Nat /\ Len(s) >= 1 /\ DOMAIN s = 1 .. Len(s)
  OBVIOUS
<1>2. Tail(s) \in Seq(T) /\ Len(Tail(s)) = Len(s) - 1 /\ DOMAIN Tail(s) = 1 .. Len(s) - 1
  BY <1>1
<1>3. \A i \in 1 .. Len(s) - 1 : Tail(s)[i] = s[i + 1]
  BY <1>1
<1>4. Head(s) = s[1] /\ Head(s) \in T
  BY <1>1
<1> QED
  BY <1>1, <1>2, <1>3, <1>4

\* The last element of s that is in W is in X; none is in W.
LastWord(s, W, X) ==
    \E i \in DOMAIN s : s[i] \in X /\ \A j \in DOMAIN s : s[j] \in W => j <= i

NoWord(s, W) == \A i \in DOMAIN s : s[i] \notin W

\* The last word and an appended element.
LEMMA AppendWord ==
    ASSUME NEW T, NEW s \in Seq(T), NEW e \in T, NEW W, NEW X \in SUBSET W
    PROVE  /\ e \notin W => /\ LastWord(Append(s, e), W, X) <=> LastWord(s, W, X)
                            /\ NoWord(Append(s, e), W) <=> NoWord(s, W)
           /\ e \in W => /\ LastWord(Append(s, e), W, X) <=> e \in X
                         /\ ~NoWord(Append(s, e), W)
<1> DEFINE t == Append(s, e)
           n == Len(s) + 1
<1>1. /\ DOMAIN t = DOMAIN s \cup {n} /\ t[n] = e /\ n \in Nat
      /\ \A i \in DOMAIN s : t[i] = s[i] /\ i < n /\ i \in Nat
  BY AppendPlaces
<1> HIDE DEF t, n
<1>2. ASSUME e \notin W
      PROVE  LastWord(t, W, X) <=> LastWord(s, W, X)
  <2>1. ASSUME LastWord(t, W, X) PROVE LastWord(s, W, X)
    <3>1. PICK i \in DOMAIN t : t[i] \in X /\ \A j \in DOMAIN t : t[j] \in W => j <= i
      BY <2>1 DEF LastWord
    <3>2. i \in DOMAIN s
      BY <1>1, <1>2, <3>1
    <3> QED
      BY <1>1, <3>1, <3>2 DEF LastWord
  <2>2. ASSUME LastWord(s, W, X) PROVE LastWord(t, W, X)
    <3>1. PICK i \in DOMAIN s : s[i] \in X /\ \A j \in DOMAIN s : s[j] \in W => j <= i
      BY <2>2 DEF LastWord
    <3>2. \A j \in DOMAIN t : t[j] \in W => j \in DOMAIN s /\ j <= i
      BY <1>1, <1>2, <3>1
    <3> QED
      BY <1>1, <3>1, <3>2 DEF LastWord
  <2> QED
    BY <2>1, <2>2
<1>3. ASSUME e \in W
      PROVE  LastWord(t, W, X) <=> e \in X
  <2>1. ASSUME LastWord(t, W, X) PROVE e \in X
    <3>1. PICK i \in DOMAIN t : t[i] \in X /\ \A j \in DOMAIN t : t[j] \in W => j <= i
      BY <2>1 DEF LastWord
    <3>2. n <= i
      BY <1>1, <1>3, <3>1
    <3>3. i = n
      BY <1>1, <3>2
    <3> QED
      BY <1>1, <3>1, <3>3
  <2>2. ASSUME e \in X PROVE LastWord(t, W, X)
    <3>1. \A j \in DOMAIN t : j <= n
      BY <1>1
    <3> QED
      BY <1>1, <2>2, <3>1 DEF LastWord
  <2> QED
    BY <2>1, <2>2
<1>4. e \notin W => (NoWord(t, W) <=> NoWord(s, W))
  BY <1>1 DEF NoWord
<1>5. e \in W => ~NoWord(t, W)
  BY <1>1 DEF NoWord
<1> QED
  BY <1>2, <1>3, <1>4, <1>5 DEF t

\* The last word when the first element is taken.
LEMMA TailWord ==
    ASSUME NEW T, NEW s \in Seq(T), s # <<>>, NEW W, NEW X \in SUBSET W
    PROVE  /\ NoWord(s, W) <=> Head(s) \notin W /\ NoWord(Tail(s), W)
           /\ LastWord(s, W, X) <=> \/ LastWord(Tail(s), W, X)
                                    \/ NoWord(Tail(s), W) /\ Head(s) \in X
<1> DEFINE t == Tail(s)
           h == Head(s)
<1>1. /\ 1 \in DOMAIN s /\ s[1] = h
      /\ \A i \in DOMAIN t : i \in Nat /\ i + 1 \in DOMAIN s /\ t[i] = s[i + 1] /\ 1 < i + 1
      /\ \A i \in DOMAIN s : i \in Nat /\ 1 <= i /\ (i # 1 => i - 1 \in DOMAIN t /\ t[i - 1] = s[i])
  BY TailPlaces
<1> HIDE DEF t, h
<1>2. NoWord(s, W) <=> h \notin W /\ NoWord(t, W)
  <2>1. NoWord(s, W) => h \notin W /\ NoWord(t, W)
    BY <1>1 DEF NoWord
  <2>2. h \notin W /\ NoWord(t, W) => NoWord(s, W)
    BY <1>1 DEF NoWord
  <2> QED
    BY <2>1, <2>2
<1>3. ASSUME LastWord(s, W, X)
      PROVE  LastWord(t, W, X) \/ (NoWord(t, W) /\ h \in X)
  <2>1. PICK i \in DOMAIN s : s[i] \in X /\ \A j \in DOMAIN s : s[j] \in W => j <= i
    BY <1>3 DEF LastWord
  <2>2. CASE i = 1
    <3>1. \A j \in DOMAIN t : t[j] \notin W
      BY <1>1, <2>1, <2>2
    <3> QED
      BY <1>1, <2>1, <2>2, <3>1 DEF NoWord
  <2>3. CASE i # 1
    <3>1. i - 1 \in DOMAIN t /\ t[i - 1] \in X
      BY <1>1, <2>1, <2>3
    <3>2. ASSUME NEW j \in DOMAIN t, t[j] \in W PROVE j <= i - 1
      <4>1. j + 1 <= i /\ j \in Nat /\ i \in Nat
        BY <1>1, <2>1, <3>2
      <4> QED
        BY <4>1
    <3> QED
      BY <3>1, <3>2 DEF LastWord
  <2> QED
    BY <2>2, <2>3
<1>4. ASSUME LastWord(t, W, X)
      PROVE  LastWord(s, W, X)
  <2>1. PICK i \in DOMAIN t : t[i] \in X /\ \A j \in DOMAIN t : t[j] \in W => j <= i
    BY <1>4 DEF LastWord
  <2>2. i + 1 \in DOMAIN s /\ s[i + 1] \in X /\ i \in Nat
    BY <1>1, <2>1
  <2>3. ASSUME NEW j \in DOMAIN s, s[j] \in W PROVE j <= i + 1
    <3>1. CASE j = 1
      BY <2>2, <3>1
    <3>2. CASE j # 1
      <4>1. j - 1 \in DOMAIN t /\ t[j - 1] \in W /\ j \in Nat
        BY <1>1, <2>3, <3>2
      <4>2. j - 1 <= i
        BY <2>1, <4>1
      <4> QED
        BY <2>2, <4>1, <4>2
    <3> QED
      BY <3>1, <3>2
  <2> QED
    BY <2>2, <2>3 DEF LastWord
<1>5. ASSUME NoWord(t, W), h \in X
      PROVE  LastWord(s, W, X)
  <2>1. \A j \in DOMAIN s : s[j] \in W => j = 1
    BY <1>1, <1>5 DEF NoWord
  <2> QED
    BY <1>1, <1>5, <2>1 DEF LastWord
<1> QED
  BY <1>2, <1>3, <1>4, <1>5 DEF t, h

\* Where there is no word there is no last one.
LEMMA NoLastWord ==
    ASSUME NEW s, NEW W, NEW X \in SUBSET W, NoWord(s, W)
    PROVE  ~LastWord(s, W, X)
BY DEF NoWord, LastWord
-----------------------------------------------------------------------------
(* What will be in the store.                                              *)

\* The events and the items that decide the topic of o, and those of them that
\* bring o itself.
EventWords(o) == {e \in Events : EventDecides(e, Topic(o))}

EventsFor(o) == {e \in EventWords(o) : e = Event("set", o)}

ItemWords(o) == {a \in Actions : ItemDecides(a, Topic(o))}

ItemsFor(o) == {a \in ItemWords(o) : a.op # "delete" /\ a.obj = o}

\* WillBeStored as a function of the watch w, the queue q, the item in hand (the set h
\* of at most one) and whether the store has o.
Fate(w, q, h, b, o) ==
    \/ LastWord(w, EventWords(o), EventsFor(o))
    \/ /\ NoWord(w, EventWords(o))
       /\ LastWord(q, ItemWords(o), ItemsFor(o))
    \/ /\ NoWord(w, EventWords(o)) /\ NoWord(q, ItemWords(o))
       /\ h \cap ItemsFor(o) # {}
    \/ /\ NoWord(w, EventWords(o)) /\ NoWord(q, ItemWords(o))
       /\ h \cap ItemWords(o) = {}
       /\ b

Hand == IF worker = "handle" THEN {action} ELSE {}

\* The words that bring o are words.
LEMMA WordsFor ==
    ASSUME NEW o
    PROVE  EventsFor(o) \in SUBSET EventWords(o) /\ ItemsFor(o) \in SUBSET ItemWords(o)
BY DEF EventsFor, ItemsFor

FateHolds ==
    Typed => \A o \in Objects :
        WillBeStored(o) <=> Fate(watch[o.kind], queue.waiting, Hand, InStore(o), o)

\* WillBeStored is the fate of o in the present state.
LEMMA FateNow == FateHolds
<1> SUFFICES ASSUME Typed, NEW o \in Objects
             PROVE  WillBeStored(o) <=> Fate(watch[o.kind], queue.waiting, Hand, InStore(o), o)
  BY DEF FateHolds
<1> DEFINE t == Topic(o)
           w == watch[o.kind]
           q == queue.waiting
<1>1. w \in Seq(Events) /\ q \in Seq(Actions) /\ watch[t[1]] = w
  BY DEF Typed, VarTypes, Queues, Objects, Topic
<1>2. worker = "handle" => action \in Actions
  BY DEF Typed, VarTypes
<1>3. \A i \in DOMAIN w : w[i] \in Events
  BY <1>1
<1>4. \A i \in DOMAIN q : q[i] \in Actions
  BY <1>1
<1>5. WatchWords(t) = {i \in DOMAIN w : w[i] \in EventWords(o)}
  BY <1>1, <1>3 DEF WatchWords, EventWords
<1>6. QueueWords(t) = {i \in DOMAIN q : q[i] \in ItemWords(o)}
  BY <1>4 DEF QueueWords, ItemWords
<1>7. /\ InHand(t) <=> Hand \cap ItemWords(o) # {}
      /\ InHand(t) /\ action.op # "delete" /\ action.obj = o <=> Hand \cap ItemsFor(o) # {}
  BY <1>2 DEF InHand, Hand, ItemWords, ItemsFor
<1> DEFINE W == WatchWords(t)
           Q == QueueWords(t)
<1>8. W = {} <=> NoWord(w, EventWords(o))
  BY <1>5 DEF NoWord
<1>9. Q = {} <=> NoWord(q, ItemWords(o))
  BY <1>6 DEF NoWord
<1>10. (\E i \in W : w[i] = Event("set", o) /\ \A j \in W : j <= i)
         <=> LastWord(w, EventWords(o), EventsFor(o))
  BY <1>5 DEF LastWord, EventsFor
<1>11. (\E i \in Q : q[i].op # "delete" /\ q[i].obj = o /\ \A j \in Q : j <= i)
         <=> LastWord(q, ItemWords(o), ItemsFor(o))
  BY <1>6 DEF LastWord, ItemsFor
<1>12. WillBeStored(o) <=>
         \/ \E i \in W : w[i] = Event("set", o) /\ \A j \in W : j <= i
         \/ W = {} /\ \E i \in Q : q[i].op # "delete" /\ q[i].obj = o /\ \A j \in Q : j <= i
         \/ W = {} /\ Q = {} /\ InHand(t) /\ action.op # "delete" /\ action.obj = o
         \/ W = {} /\ Q = {} /\ ~InHand(t) /\ InStore(o)
  BY DEF WillBeStored
<1> HIDE DEF t, w, q, W, Q
<1>13. Fate(w, q, Hand, InStore(o), o) <=>
         \/ LastWord(w, EventWords(o), EventsFor(o))
         \/ NoWord(w, EventWords(o)) /\ LastWord(q, ItemWords(o), ItemsFor(o))
         \/ NoWord(w, EventWords(o)) /\ NoWord(q, ItemWords(o)) /\ Hand \cap ItemsFor(o) # {}
         \/ NoWord(w, EventWords(o)) /\ NoWord(q, ItemWords(o)) /\ Hand \cap ItemWords(o) = {}
            /\ InStore(o)
  BY DEF Fate
<1>14. WillBeStored(o) <=> Fate(w, q, Hand, InStore(o), o)
  BY <1>7, <1>8, <1>9, <1>10, <1>11, <1>12, <1>13
<1> QED
  BY <1>14 DEF w, q

\* So it is in the next state.
LEMMA FateNext == FateHolds'
BY FateNow, PTL

\* An event that decides something else comes in.
LEMMA FateOther ==
    ASSUME NEW o, NEW w \in Seq(Events), NEW q, NEW h, NEW b, NEW e \in Events,
           e \notin EventWords(o)
    PROVE  Fate(Append(w, e), q, h, b, o) <=> Fate(w, q, h, b, o)
BY AppendWord, WordsFor DEF Fate

\* An event that decides the topic comes in: it alone counts.
LEMMA FateWord ==
    ASSUME NEW o, NEW w \in Seq(Events), NEW q, NEW h, NEW b, NEW e \in Events,
           e \in EventWords(o)
    PROVE  Fate(Append(w, e), q, h, b, o) <=> e \in EventsFor(o)
BY AppendWord, WordsFor DEF Fate

\* An item that decides something else is queued.
LEMMA FateQueueOther ==
    ASSUME NEW o, NEW w, NEW q \in Seq(Actions), NEW h, NEW b, NEW a \in Actions,
           a \notin ItemWords(o)
    PROVE  Fate(w, Append(q, a), h, b, o) <=> Fate(w, q, h, b, o)
BY AppendWord, WordsFor DEF Fate

\* An item that decides the topic is queued: it alone counts, unless the watch has a word.
LEMMA FateQueueWord ==
    ASSUME NEW o, NEW w, NEW q \in Seq(Actions), NEW h, NEW b, NEW a \in Actions,
           a \in ItemWords(o)
    PROVE  /\ NoWord(w, EventWords(o)) => (Fate(w, Append(q, a), h, b, o) <=> a \in ItemsFor(o))
           /\ ~NoWord(w, EventWords(o)) => (Fate(w, Append(q, a), h, b, o) <=> Fate(w, q, h, b, o))
<1> DEFINE W == EventWords(o)
           X == EventsFor(o)
           V == ItemWords(o)
           Y == ItemsFor(o)
<1>1. (LastWord(Append(q, a), V, Y) <=> a \in Y) /\ ~NoWord(Append(q, a), V)
  BY AppendWord, WordsFor
<1>2. NoWord(w, W) => ~LastWord(w, W, X)
  BY NoLastWord, WordsFor
<1> HIDE DEF W, X, V, Y
<1> QED
  BY <1>1, <1>2 DEF Fate, W, X, V, Y

\* The informer takes an event and queues an item that says the same, or nothing.
LEMMA FateMove ==
    ASSUME NEW o, NEW w \in Seq(Events), w # <<>>, NEW q \in Seq(Actions), NEW h, NEW b,
           NEW r,
           \/ Head(w) \notin EventWords(o) /\ r = q
           \/ \E a \in Actions : /\ r = Append(q, a)
                                 /\ Head(w) \in EventWords(o) <=> a \in ItemWords(o)
                                 /\ Head(w) \in EventsFor(o) <=> a \in ItemsFor(o)
    PROVE  Fate(Tail(w), r, h, b, o) <=> Fate(w, q, h, b, o)
<1> DEFINE W == EventWords(o)
           X == EventsFor(o)
           V == ItemWords(o)
           Y == ItemsFor(o)
<1>1. /\ NoWord(w, W) <=> Head(w) \notin W /\ NoWord(Tail(w), W)
      /\ LastWord(w, W, X) <=> LastWord(Tail(w), W, X) \/ (NoWord(Tail(w), W) /\ Head(w) \in X)
  BY TailWord, WordsFor
<1>2. X \in SUBSET W /\ Y \in SUBSET V
  BY WordsFor
<1>3. NoWord(Tail(w), W) => ~LastWord(Tail(w), W, X)
  BY NoLastWord, WordsFor
<1>4. CASE Head(w) \notin W /\ r = q
  <2> HIDE DEF W, X, V, Y
  <2> QED
    BY <1>1, <1>2, <1>4 DEF Fate, W, X, V, Y
<1>5. ASSUME NEW a \in Actions, r = Append(q, a), Head(w) \in W <=> a \in V,
             Head(w) \in X <=> a \in Y
      PROVE  Fate(Tail(w), r, h, b, o) <=> Fate(w, q, h, b, o)
  <2>1. CASE Head(w) \notin W
    <3>1. Fate(Tail(w), r, h, b, o) <=> Fate(Tail(w), q, h, b, o)
      BY <1>5, <2>1, FateQueueOther
    <3> HIDE DEF W, X, V, Y
    <3>2. Fate(Tail(w), q, h, b, o) <=> Fate(w, q, h, b, o)
      BY <1>1, <1>2, <2>1 DEF Fate, W, X, V, Y
    <3> QED
      BY <3>1, <3>2
  <2>2. CASE Head(w) \in W
    <3>1. /\ LastWord(r, V, Y) <=> a \in Y
          /\ ~NoWord(r, V)
      BY <1>5, <2>2, AppendWord, WordsFor
    <3>2. Fate(Tail(w), r, h, b, o) <=> LastWord(Tail(w), W, X) \/ (NoWord(Tail(w), W) /\ a \in Y)
      BY <3>1 DEF Fate
    <3>3. Fate(w, q, h, b, o) <=> LastWord(w, W, X)
      BY <1>1, <2>2 DEF Fate
    <3> HIDE DEF W, X, V, Y
    <3> QED
      BY <1>1, <1>5, <3>2, <3>3
  <2> QED
    BY <2>1, <2>2
<1> QED
  BY <1>4, <1>5

\* The worker takes the first item of the queue in hand.
LEMMA FateTake ==
    ASSUME NEW o, NEW w, NEW q \in Seq(Actions), q # <<>>, NEW b
    PROVE  Fate(w, Tail(q), {Head(q)}, b, o) <=> Fate(w, q, {}, b, o)
<1> DEFINE W == EventWords(o)
           X == EventsFor(o)
           V == ItemWords(o)
           Y == ItemsFor(o)
<1>1. /\ NoWord(q, V) <=> Head(q) \notin V /\ NoWord(Tail(q), V)
      /\ LastWord(q, V, Y) <=> LastWord(Tail(q), V, Y) \/ (NoWord(Tail(q), V) /\ Head(q) \in Y)
  BY TailWord, WordsFor
<1>2. Y \in SUBSET V
  BY WordsFor
<1>3. /\ {Head(q)} \cap Y # {} <=> Head(q) \in Y
      /\ {Head(q)} \cap V = {} <=> Head(q) \notin V
      /\ {} \cap Y = {} /\ {} \cap V = {}
  OBVIOUS
<1>4. Head(q) \in Y => Head(q) \in V
  BY <1>2
<1> HIDE DEF W, X, V, Y
<1> QED
  BY <1>1, <1>3, <1>4 DEF Fate, W, X, V, Y

\* The item in hand is handled.
LEMMA FateHandled ==
    ASSUME NEW o, NEW w, NEW q, NEW a, NEW b, NEW c,
           a \in ItemsFor(o) => c,
           a \notin ItemWords(o) => (b => c)
    PROVE  Fate(w, q, {a}, b, o) => Fate(w, q, {}, c, o)
<1>1. {a} \cap ItemsFor(o) # {} => c
  OBVIOUS
<1>2. {a} \cap ItemWords(o) = {} => (b => c)
  OBVIOUS
<1> QED
  BY <1>1, <1>2 DEF Fate

\* ... and the other way.
LEMMA FateHandledBack ==
    ASSUME NEW o, NEW w, NEW q, NEW a, NEW b, NEW c,
           a \in ItemWords(o) => (c => a \in ItemsFor(o)),
           a \notin ItemWords(o) => (c => b)
    PROVE  Fate(w, q, {}, c, o) => Fate(w, q, {a}, b, o)
<1>1. a \in ItemWords(o) => {a} \cap ItemWords(o) # {} /\ (c => {a} \cap ItemsFor(o) # {})
  OBVIOUS
<1>2. a \notin ItemWords(o) => {a} \cap ItemWords(o) = {} /\ (c => b)
  OBVIOUS
<1> QED
  BY <1>1, <1>2 DEF Fate
-----------------------------------------------------------------------------
(* The invariant.                                                          *)

\* A process that does not run has nothing.
Down ==
    ~up => /\ \A k \in Kinds : watch[k] = <<>>
           /\ cache = {} /\ queue = EmptyQueue /\ store = NewStore
           /\ worker = "idle"

\* The queue processes the item in hand, and no item about an object is queued again
\* while it is processed.
OneInHand ==
    /\ queue.processing = IF worker = "idle" THEN {} ELSE {action}
    /\ \A a \in queue.dirty \cap queue.processing : a.op = "sync"

\* The events under way, and the items about objects that wait or are processed.
Sent(k) == ToSet(watch[k])

Items ==
    {a \in ToSet(queue.waiting) \cup queue.dirty \cup queue.processing : a.op # "sync"}

Stored == ToSet(store.ingresses)

\* Every version of an object that is anywhere in the system.
Known ==
    UNION {cluster, cache, Stored, {a.obj : a \in Items},
           {e.obj : e \in Sent("ingress") \cup Sent("configmap")}}

\* A UID and a version are no newer than the revision, a UID has one name, and of its
\* versions the cluster has the newest.
Versions ==
    /\ \A x \in Known : x.uid <= rev /\ x.rv <= rev
    /\ \A x, y \in Known : x.uid = y.uid => SameName(x, y)
    /\ \A x \in Known, o \in cluster : x.uid = o.uid => x.rv <= o.rv
    /\ \A x \in Known, o \in cluster : x.uid = o.uid /\ x.rv = o.rv => x = o

\* The cluster and the caches have one object of a name.
OneOfName ==
    /\ \A x, y \in cluster : SameName(x, y) => x = y
    /\ \A x, y \in cache : SameName(x, y) => x = y

\* The informer has an object of the cluster in its present version, or will be told of
\* it.  What has been queued of it is cached, and its deletion is not queued.
Informed ==
    /\ up => \A o \in cluster : o \in cache \/ Event("set", o) \in Sent(o.kind)
    /\ \A a \in Items : a.op # "delete" /\ a.obj \in cluster => a.obj \in cache
    /\ \A a \in Items, o \in cluster : a.op = "delete" => a.obj.uid # o.uid

\* What an event f behind an event e may be, given the cluster C: nothing follows the
\* present version of a name, only a tombstone follows a deletion, and later versions follow
\* earlier ones.
Follows(C, e, f) ==
    /\ e.type = "set" /\ e.obj \in C => ~SameName(f.obj, e.obj)
    /\ e.type = "deleted" /\ f.type # "gone" => e.obj.uid # f.obj.uid
    /\ e.type = "set" /\ f.type = "set" /\ e.obj.uid = f.obj.uid => e.obj.rv < f.obj.rv

InOrder(C, s) == \A i, j \in DOMAIN s : i < j => Follows(C, s[i], s[j])

WatchInOrder == \A k \in Kinds : InOrder(cluster, watch[k])

\* An event is news: it is not about a name whose present version is cached, nothing
\* comes after a deletion has been queued, and a version is newer than those that were queued,
\* cached and stored.
News(e) ==
    /\ \A o \in cache \cap cluster : ~SameName(e.obj, o)
    /\ e.type = "deleted" => \A o \in cluster : e.obj.uid # o.uid
    /\ e.type # "gone" => \A a \in Items : a.op = "delete" => a.obj.uid # e.obj.uid
    /\ e.type = "set" =>
         /\ \A a \in Items : a.obj.uid = e.obj.uid => a.obj.rv < e.obj.rv
         /\ \A c \in cache : c.uid = e.obj.uid => c.rv < e.obj.rv
         /\ \A p \in Stored : p.uid = e.obj.uid => p.rv <= e.obj.rv

WatchIsNews == \A k \in Kinds : \A e \in Sent(k) : e.obj.kind = k /\ News(e)

Pipeline ==
    /\ Versions
    /\ OneOfName
    /\ Informed
    /\ WatchInOrder
    /\ WatchIsNews

PipelineInv == Typed /\ Down /\ OneInHand /\ Pipeline
-----------------------------------------------------------------------------
(* Types of what is under way.                                             *)

MembersTyped ==
    Typed =>
        /\ rev \in Nat
        /\ cluster \in SUBSET Objects /\ cache \in SUBSET Objects /\ Stored \in SUBSET Objects
        /\ \A k \in Kinds : watch[k] \in Seq(Events) /\ Sent(k) \in SUBSET Events
        /\ queue \in Queues /\ queue.waiting \in Seq(Actions)
        /\ Items \in SUBSET ObjectActions
        /\ Known \in SUBSET Objects

\* Events and items have an object, and an object a kind, a UID and a version.
LEMMA Fields ==
    /\ \A e \in Events : e.obj \in Objects /\ e.type \in {"set", "deleted", "gone"}
    /\ \A a \in ObjectActions : a \in Actions /\ a.obj \in Objects /\ a.op \in {"add", "update", "delete"}
    /\ \A a \in Actions : a.op # "sync" => a \in ObjectActions
    /\ \A o \in Objects : o.kind \in Kinds /\ o.uid \in Nat /\ o.rv \in Nat
<1>1. \A n \in 1 .. MaxRev : n \in Nat
  BY BoundsAssumption
<1>2. SyncStatusAction.op = "sync"
  BY DEF SyncStatusAction
<1> QED
  BY <1>1, <1>2 DEF Events, Actions, ObjectActions, Objects

\* The members of the sets the invariant speaks of have their types ...
LEMMA MembersNow == MembersTyped
<1> SUFFICES ASSUME Typed
             PROVE  /\ rev \in Nat
                    /\ cluster \in SUBSET Objects /\ cache \in SUBSET Objects /\ Stored \in SUBSET Objects
                    /\ \A k \in Kinds : watch[k] \in Seq(Events) /\ Sent(k) \in SUBSET Events
                    /\ queue \in Queues /\ queue.waiting \in Seq(Actions)
                    /\ Items \in SUBSET ObjectActions
                    /\ Known \in SUBSET Objects
  BY DEF MembersTyped
<1>1. /\ cluster \in SUBSET Objects /\ cache \in SUBSET Objects /\ queue \in Queues
      /\ watch \in [Kinds -> Seq(Events)] /\ store.ingresses \in Seq(Objects)
  BY DEF Typed, VarTypes, Stores
<1>2. rev \in Nat
  BY BoundsAssumption DEF Typed, VarTypes
<1>3. \A k \in Kinds : watch[k] \in Seq(Events) /\ Sent(k) \in SUBSET Events
  BY <1>1 DEF Sent, ToSet
<1>4. Stored \in SUBSET Objects
  BY <1>1 DEF Stored, ToSet
<1>5. /\ queue.waiting \in Seq(Actions) /\ queue.dirty \in SUBSET Actions
      /\ queue.processing \in SUBSET Actions
  BY <1>1, QueueFields
<1>6. ToSet(queue.waiting) \in SUBSET Actions
  BY <1>5 DEF ToSet
<1>7. Items \in SUBSET ObjectActions
  BY <1>5, <1>6, Fields DEF Items
<1>8. {a.obj : a \in Items} \in SUBSET Objects
  BY <1>7, Fields
<1>9. {e.obj : e \in Sent("ingress") \cup Sent("configmap")} \in SUBSET Objects
  BY <1>3, Fields DEF Kinds
<1>10. Known \in SUBSET Objects
  BY <1>1, <1>4, <1>8, <1>9 DEF Known
<1> QED
  BY <1>1, <1>2, <1>3, <1>4, <1>5, <1>7, <1>10

\* ... in the next state, too.
LEMMA MembersNext == MembersTyped'
BY MembersNow, PTL

\* What is known: the parts of Known.
LEMMA KnownParts ==
    /\ \A x \in cluster : x \in Known
    /\ \A x \in cache : x \in Known
    /\ \A x \in Stored : x \in Known
    /\ \A a \in Items : a.obj \in Known
    /\ \A k \in Kinds : \A e \in Sent(k) : e.obj \in Known
BY DEF Known, Kinds
-----------------------------------------------------------------------------
(* The order on a watch.                                                   *)

\* The elements of a sequence that grows or shrinks.
LEMMA SentPlaces ==
    ASSUME NEW T, NEW s \in Seq(T)
    PROVE  /\ \A e \in T : ToSet(Append(s, e)) = ToSet(s) \cup {e}
           /\ s # <<>> => /\ ToSet(s) = {Head(s)} \cup ToSet(Tail(s))
                          /\ Head(s) \in T
           /\ s = <<>> => ToSet(s) = {}
<1>1. ASSUME NEW e \in T PROVE ToSet(Append(s, e)) = ToSet(s) \cup {e}
  BY AppendPlaces DEF ToSet
<1>2. ASSUME s # <<>> PROVE ToSet(s) = {Head(s)} \cup ToSet(Tail(s)) /\ Head(s) \in T
  <2>1. ASSUME NEW i \in DOMAIN s PROVE s[i] \in {Head(s)} \cup ToSet(Tail(s))
    <3>1. i = 1 => s[i] = Head(s)
      BY <1>2, TailPlaces
    <3>2. i # 1 => i - 1 \in DOMAIN Tail(s) /\ Tail(s)[i - 1] = s[i]
      BY <1>2, TailPlaces
    <3> QED
      BY <3>1, <3>2 DEF ToSet
  <2>2. {Head(s)} \cup ToSet(Tail(s)) \subseteq ToSet(s)
    BY <1>2, TailPlaces DEF ToSet
  <2> QED
    BY <1>2, <2>1, <2>2, TailPlaces DEF ToSet
<1>3. s = <<>> => ToSet(s) = {}
  BY DEF ToSet
<1> QED
  BY <1>1, <1>2, <1>3

\* An event that may follow all the others is appended.
LEMMA OrderAppend ==
    ASSUME NEW T, NEW s \in Seq(T), NEW f \in T, NEW C, InOrder(C, s),
           \A e \in ToSet(s) : Follows(C, e, f)
    PROVE  InOrder(C, Append(s, f))
<1> DEFINE t == Append(s, f)
           n == Len(s) + 1
<1>1. /\ DOMAIN t = DOMAIN s \cup {n} /\ t[n] = f /\ n \in Nat
      /\ \A i \in DOMAIN s : t[i] = s[i] /\ i < n /\ i \in Nat
  BY AppendPlaces
<1> HIDE DEF t, n
<1>2. ASSUME NEW i \in DOMAIN t, NEW j \in DOMAIN t, i < j PROVE Follows(C, t[i], t[j])
  <2>1. i \in DOMAIN s
    BY <1>1, <1>2
  <2>2. CASE j \in DOMAIN s
    BY <1>1, <1>2, <2>1, <2>2 DEF InOrder
  <2>3. CASE j = n
    <3>1. s[i] \in ToSet(s)
      BY <2>1 DEF ToSet
    <3> QED
      BY <1>1, <2>1, <2>3, <3>1
  <2> QED
    BY <1>1, <2>2, <2>3
<1> QED
  BY <1>2 DEF InOrder, t

\* The first event is taken.
LEMMA OrderTail ==
    ASSUME NEW T, NEW s \in Seq(T), s # <<>>, NEW C, InOrder(C, s)
    PROVE  /\ InOrder(C, Tail(s))
           /\ \A f \in ToSet(Tail(s)) : Follows(C, Head(s), f)
<1> DEFINE t == Tail(s)
<1>1. /\ 1 \in DOMAIN s /\ s[1] = Head(s)
      /\ \A i \in DOMAIN t : i \in Nat /\ i + 1 \in DOMAIN s /\ t[i] = s[i + 1] /\ 1 < i + 1
  BY TailPlaces
<1> HIDE DEF t
<1>2. ASSUME NEW i \in DOMAIN t, NEW j \in DOMAIN t, i < j PROVE Follows(C, t[i], t[j])
  <2>1. i + 1 \in DOMAIN s /\ j + 1 \in DOMAIN s /\ i + 1 < j + 1
    BY <1>1, <1>2
  <2> QED
    BY <1>1, <2>1 DEF InOrder
<1>3. ASSUME NEW j \in DOMAIN t PROVE Follows(C, Head(s), t[j])
  BY <1>1 DEF InOrder
<1> QED
  BY <1>2, <1>3 DEF InOrder, ToSet, t

\* The cluster changes, and what followed may still follow.
LEMMA OrderCluster ==
    ASSUME NEW s, NEW C, NEW D, InOrder(C, s),
           \A e, f \in ToSet(s) : Follows(C, e, f) => Follows(D, e, f)
    PROVE  InOrder(D, s)
BY DEF InOrder, ToSet
-----------------------------------------------------------------------------
(* Steps behind the informers.                                             *)

\* Versions is kept where nothing new becomes known.
LEMMA VersionsKept ==
    ASSUME Versions, cluster' = cluster, rev' = rev, Known' \subseteq Known
    PROVE  Versions'
BY DEF Versions

\* What is known afterwards, by its parts.
LEMMA KnownNext ==
    ASSUME NEW K, cluster' \subseteq K, cache' \subseteq K, Stored' \subseteq K,
           \A a \in Items' : a.obj \in K,
           \A k \in Kinds : \A e \in Sent(k)' : e.obj \in K
    PROVE  Known' \subseteq K
<1>1. \A e \in Sent("ingress")' \cup Sent("configmap")' : e.obj \in K
  BY DEF Kinds
<1> QED
  BY <1>1 DEF Known

\* A step behind the informers: no items come in, and only items reach the store.
LEMMA BehindWatch ==
    ASSUME Typed, Pipeline, UNCHANGED <<cluster, rev, watch, cache, up>>,
           Items' \subseteq Items,
           \A p \in Stored' : p \in Stored \/ \E a \in Items : p = a.obj
    PROVE  Pipeline'
<1>0. /\ Items \in SUBSET ObjectActions /\ Stored \in SUBSET Objects
      /\ \A k \in Kinds : Sent(k)' = Sent(k) /\ Sent(k) \in SUBSET Events
  BY MembersNow DEF MembersTyped, Sent
<1>1. Versions'
  <2>1. Known' \subseteq Known
    <3>1. Stored' \subseteq Known
      BY KnownParts
    <3> QED
      BY <1>0, <3>1, KnownParts, KnownNext
  <2> QED
    BY <2>1, VersionsKept DEF Pipeline
<1>2. OneOfName'
  BY DEF Pipeline, OneOfName
<1>3. Informed'
  BY DEF Pipeline, Informed, Sent
<1>4. WatchInOrder'
  BY DEF Pipeline, WatchInOrder
<1>5. ASSUME NEW k \in Kinds, NEW e \in Sent(k)'
      PROVE  e.obj.kind = k /\ News(e)'
  <2>1. e \in Sent(k) /\ e.obj.kind = k /\ News(e)
    BY <1>0, <1>5 DEF Pipeline, WatchIsNews
  <2>2. ASSUME e.type = "set", NEW p \in Stored', p.uid = e.obj.uid
        PROVE  p.rv <= e.obj.rv
    <3>1. CASE p \in Stored
      BY <2>1, <2>2, <3>1 DEF News
    <3>2. ASSUME NEW a \in Items, p = a.obj
          PROVE  p.rv <= e.obj.rv
      <4>1. p.rv < e.obj.rv
        BY <2>1, <2>2, <3>2 DEF News
      <4>2. p.rv \in Nat /\ e.obj.rv \in Nat
        BY <1>0, <2>1, <3>2, Fields
      <4> QED
        BY <4>1, <4>2
    <3> QED
      BY <2>2, <3>1, <3>2
  <2> QED
    BY <2>1, <2>2 DEF News
<1> QED
  BY <1>1, <1>2, <1>3, <1>4, <1>5 DEF Pipeline, WatchIsNews
-----------------------------------------------------------------------------
(* Steps of the cluster.                                                   *)

\* What a user's change does, whichever it is: e is published; what else is in the
\* cluster was there and has another name; only the object e replaces leaves it; a UID is new or
\* that of an object of this name; and what is new has one of the bodies.
Change(e) ==
    /\ rev' = rev + 1
    /\ e \in Events /\ e.type # "gone"
    /\ \A x \in cluster' : (x \in cluster /\ ~SameName(x, e.obj)) \/ e = Event("set", x)
    /\ \A x \in cluster : x \in cluster' \/ x.uid = e.obj.uid
    /\ e.type = "set" => e.obj \in cluster' /\ e.obj.rv = rev + 1
    /\ \/ e.obj \in cluster
       \/ \E b \in Bodies(e.obj.kind) : e.obj.ann = b.ann /\ e.obj.cls = b.cls
    /\ \/ e.obj.uid = rev + 1 /\ e.type = "set"
       \/ \E o \in cluster : /\ o.uid = e.obj.uid /\ SameName(o, e.obj)
                             /\ e.type = "deleted" => e.obj = o
    /\ Publish(e)
    /\ UNCHANGED <<cache, queue, store, worker, action, lastApplied, running, up>>

\* The users make no other changes.
LEMMA EnvironmentChange ==
    ASSUME Typed, OneOfName, Environment
    PROVE  \E e \in Events : Change(e)
<1>0. /\ rev \in Nat /\ cluster \in SUBSET Objects
  BY MembersNow DEF MembersTyped
<1>a. rev < MaxRev => rev + 1 \in 1 .. MaxRev
  BY <1>0, BoundsAssumption
<1>1. ASSUME NEW k \in Kinds, NEW n \in Names(k), NEW b \in Bodies(k), CreateObject(k, n, b)
      PROVE  \E e \in Events : Change(e)
  <2> DEFINE o == Object(k, n, rev + 1, rev + 1, b)
             e == Event("set", o)
  <2>1. /\ rev < MaxRev /\ rev' = rev + 1 /\ cluster' = cluster \cup {o} /\ Publish(e)
        /\ \A c \in cluster : ~SameName(c, o)
        /\ UNCHANGED <<cache, queue, store, worker, action, lastApplied, running, up>>
    BY <1>1 DEF CreateObject, caddyVars
  <2>2. o \in Objects
    BY <1>a, <2>1, ObjectType
  <2>3. o.uid = rev + 1 /\ o.rv = rev + 1 /\ o.kind = k /\ o.ann = b.ann /\ o.cls = b.cls
    BY DEF Object
  <2>4. e \in Events /\ e.type = "set" /\ e.obj = o
    BY <2>2, EventType DEF Event
  <2> HIDE DEF o
  <2>5. \A x \in cluster' : (x \in cluster /\ ~SameName(x, e.obj)) \/ e = Event("set", x)
    BY <2>1, <2>4
  <2> HIDE DEF e
  <2> QED
    BY <2>1, <2>3, <2>4, <2>5 DEF Change
<1>2. ASSUME NEW o \in cluster, NEW b \in Bodies(o.kind), ModifyObject(o, b)
      PROVE  \E e \in Events : Change(e)
  <2> DEFINE new == Object(o.kind, o.name, o.uid, rev + 1, b)
             e == Event("set", new)
  <2>1. /\ rev < MaxRev /\ rev' = rev + 1 /\ cluster' = (cluster \ {o}) \cup {new} /\ Publish(e)
        /\ UNCHANGED <<cache, queue, store, worker, action, lastApplied, running, up>>
    BY <1>2 DEF ModifyObject, caddyVars
  <2>2. /\ o.kind \in Kinds /\ o.uid \in 1 .. MaxRev
        /\ o.name \in UNION {Names(k) : k \in Kinds}
    BY <1>0 DEF Objects
  <2>3. new \in Objects
    BY <1>a, <2>1, <2>2, ObjectType
  <2>4. /\ new.uid = o.uid /\ new.rv = rev + 1 /\ SameName(o, new)
        /\ new.kind = o.kind /\ new.ann = b.ann /\ new.cls = b.cls
    BY DEF Object, SameName
  <2>5. e \in Events /\ e.type = "set" /\ e.obj = new
    BY <2>3, EventType DEF Event
  <2> HIDE DEF new
  <2>6. \A x \in cluster \ {o} : ~SameName(x, new)
    BY <2>4 DEF OneOfName, SameName
  <2>7. \A x \in cluster' : (x \in cluster /\ ~SameName(x, e.obj)) \/ e = Event("set", x)
    BY <2>1, <2>5, <2>6
  <2> HIDE DEF e
  <2> QED
    BY <2>1, <2>4, <2>5, <2>7 DEF Change
<1>3. ASSUME NEW o \in cluster, DeleteObject(o)
      PROVE  \E e \in Events : Change(e)
  <2> DEFINE e == Event("deleted", o)
  <2>1. /\ rev' = rev + 1 /\ cluster' = cluster \ {o} /\ Publish(e)
        /\ UNCHANGED <<cache, queue, store, worker, action, lastApplied, running, up>>
    BY <1>3 DEF DeleteObject, caddyVars
  <2>2. e \in Events /\ e.type = "deleted" /\ e.obj = o
    BY <1>0, EventType DEF Event
  <2>3. SameName(o, o)
    BY DEF SameName
  <2>4. \A x \in cluster' : x \in cluster /\ ~SameName(x, e.obj)
    BY <2>1, <2>2 DEF OneOfName
  <2> HIDE DEF e
  <2> QED
    BY <2>1, <2>2, <2>3, <2>4 DEF Change
<1> QED
  BY <1>1, <1>2, <1>3 DEF Environment

\* How news of a change reaches the watches and what it is next to what is known.
LEMMA ChangeFacts ==
    ASSUME Typed, Typed', Versions, NEW e, Change(e)
    PROVE  /\ e \in Events /\ e.obj \in Objects /\ e.type \in {"set", "deleted"}
           /\ \A x \in Known : x.uid < rev + 1 /\ x.rv < rev + 1
           /\ \A x \in Known : x \in cluster' => x \in cluster /\ ~SameName(x, e.obj)
           /\ \A x \in cluster' : (x \in cluster /\ ~SameName(x, e.obj)) \/ e = Event("set", x)
           /\ \A x \in cluster' : x \in cluster \/ x = e.obj
           /\ \A x \in Known : x.uid = e.obj.uid => SameName(x, e.obj)
           /\ \A k \in Kinds : Sent(k) \subseteq Sent(k)'
           /\ \A k \in Kinds : \A f \in Sent(k)' : f \in Sent(k) \/ (f = e /\ k = e.obj.kind)
           /\ up => e \in Sent(e.obj.kind)'
           /\ Items' = Items /\ Stored' = Stored /\ cache' = cache /\ up' = up
<1>0. /\ rev \in Nat /\ Known \in SUBSET Objects /\ cluster \in SUBSET Objects
      /\ \A k \in Kinds : watch[k] \in Seq(Events)
  BY MembersNow DEF MembersTyped
<1>1. /\ e \in Events /\ e.obj \in Objects /\ e.type \in {"set", "deleted"}
      /\ e.obj.kind \in Kinds
  BY Fields DEF Change
<1>2. ASSUME NEW x \in Known PROVE x.uid < rev + 1 /\ x.rv < rev + 1
  <2>1. x.uid <= rev /\ x.rv <= rev /\ x.uid \in Nat /\ x.rv \in Nat
    BY <1>0, Fields DEF Versions
  <2> QED
    BY <1>0, <2>1
<1>3. \A x \in cluster' : (x \in cluster /\ ~SameName(x, e.obj)) \/ e = Event("set", x)
  BY DEF Change
<1>4. \A x : e = Event("set", x) => e.type = "set" /\ e.obj = x
  BY DEF Event
<1>5. ASSUME NEW x \in Known, x \in cluster' PROVE x \in cluster /\ ~SameName(x, e.obj)
  <2>1. SUFFICES ASSUME e = Event("set", x) PROVE FALSE
    BY <1>3, <1>5
  <2>2. x.rv = rev + 1
    BY <1>4, <2>1 DEF Change
  <2>3. x.rv < rev + 1 /\ x.rv \in Nat
    BY <1>0, <1>2, Fields
  <2> QED
    BY <1>0, <2>2, <2>3
<1>6. ASSUME NEW x \in Known, x.uid = e.obj.uid PROVE SameName(x, e.obj)
  <2>1. CASE e.obj.uid = rev + 1
    <3>1. x.uid < rev + 1 /\ x.uid \in Nat
      BY <1>0, <1>2, Fields
    <3> QED
      BY <1>0, <1>6, <2>1, <3>1
  <2>2. ASSUME NEW o \in cluster, o.uid = e.obj.uid, SameName(o, e.obj)
        PROVE  SameName(x, e.obj)
    <3>1. SameName(x, o)
      BY <1>6, <2>2, KnownParts DEF Versions
    <3> QED
      BY <2>2, <3>1 DEF SameName
  <2> QED
    BY <2>1, <2>2 DEF Change
<1>7. watch \in [Kinds -> Seq(Events)]
  BY DEF Typed, VarTypes
<1>8. /\ ~up => watch' = watch
      /\ up => /\ watch'[e.obj.kind] = Append(watch[e.obj.kind], e)
               /\ \A k \in Kinds : k # e.obj.kind => watch'[k] = watch[k]
  BY <1>1, <1>7 DEF Change, Publish
<1>9. ToSet(Append(watch[e.obj.kind], e)) = ToSet(watch[e.obj.kind]) \cup {e}
  BY <1>0, <1>1, SentPlaces
<1>10. up => Sent(e.obj.kind)' = Sent(e.obj.kind) \cup {e}
  BY <1>8, <1>9 DEF Sent
<1>11. \A k \in Kinds : k # e.obj.kind \/ ~up => Sent(k)' = Sent(k)
  BY <1>8 DEF Sent
<1>12. Items' = Items /\ Stored' = Stored /\ cache' = cache /\ up' = up
  BY DEF Change, Items, Stored
<1> QED
  BY <1>1, <1>2, <1>3, <1>4, <1>5, <1>6, <1>10, <1>11, <1>12

\* Versions after a change.
LEMMA ChangeVersions ==
    ASSUME Typed, Typed', Versions, NEW e, Change(e)
    PROVE  Versions'
<1> DEFINE n == e.obj
<1>0. /\ rev \in Nat /\ Known \in SUBSET Objects /\ rev' = rev + 1 /\ n \in Objects
  BY MembersNow, ChangeFacts DEF MembersTyped, Change
<1>1. \A x \in Known' : x \in Known \/ x = n
  <2> DEFINE K == Known \cup {n}
  <2>1. cluster' \subseteq K /\ cache' \subseteq K /\ Stored' \subseteq K
    BY ChangeFacts, KnownParts
  <2>2. \A a \in Items' : a.obj \in K
    BY ChangeFacts, KnownParts
  <2>3. \A k \in Kinds : \A f \in Sent(k)' : f.obj \in K
    BY ChangeFacts, KnownParts
  <2> HIDE DEF K
  <2>4. Known' \subseteq K
    BY <2>1, <2>2, <2>3, KnownNext
  <2> QED
    BY <2>4 DEF K
<1>2. n.uid <= rev + 1 /\ n.rv <= rev + 1
  <2>1. n.uid \in Nat /\ n.rv \in Nat
    BY <1>0, Fields
  <2>2. ASSUME NEW o \in cluster PROVE o.uid < rev + 1 /\ o.rv < rev + 1 /\ o.uid \in Nat /\ o.rv \in Nat
    BY <1>0, ChangeFacts, KnownParts, Fields
  <2>3. e.type \in {"set", "deleted"}
    BY ChangeFacts
  <2>4. n.uid <= rev + 1
    BY <1>0, <2>1, <2>2 DEF Change
  <2>5. n.rv <= rev + 1
    BY <1>0, <2>1, <2>2, <2>3 DEF Change
  <2> QED
    BY <2>4, <2>5
<1>3. \A x \in Known : x.uid < rev + 1 /\ x.rv < rev + 1 /\ x.uid \in Nat /\ x.rv \in Nat
  BY <1>0, ChangeFacts, Fields
<1>4. \A x \in Known' : x.uid <= rev' /\ x.rv <= rev'
  BY <1>0, <1>1, <1>2, <1>3
<1>5. \A x \in Known : x.uid = n.uid => SameName(x, n)
  BY ChangeFacts
<1>6. \A x, y \in Known' : x.uid = y.uid => SameName(x, y)
  <2>1. \A x, y \in Known : x.uid = y.uid => SameName(x, y)
    BY DEF Versions
  <2>2. \A x \in Known : x.uid = n.uid => SameName(n, x)
    BY <1>5 DEF SameName
  <2>3. SameName(n, n)
    BY DEF SameName
  <2> QED
    BY <1>1, <1>5, <2>1, <2>2, <2>3
<1>7. ASSUME NEW x \in Known', NEW o \in cluster', x.uid = o.uid
      PROVE  x.rv <= o.rv /\ (x.rv = o.rv => x = o)
  <2>1. CASE x = n /\ o = n
    BY <1>0, <2>1, Fields
  <2>2. CASE x # n /\ o = n
    <3>1. x \in Known /\ x.rv < rev + 1 /\ x.rv \in Nat
      BY <1>1, <1>3, <2>2
    <3>2. n.rv = rev + 1
      <4>1. n \in Known \/ e.type = "set"
        <5>1. e.type = "deleted" => \E c \in cluster : n = c
          BY DEF Change
        <5> QED
          BY <5>1, ChangeFacts, KnownParts
      <4>2. n \in Known => ~SameName(n, n)
        BY <2>2, ChangeFacts
      <4> QED
        BY <4>1, <4>2 DEF Change, SameName
    <3> QED
      BY <1>0, <2>2, <3>1, <3>2
  <2>3. CASE o # n
    <3>1. o \in cluster /\ ~SameName(o, n) /\ o \in Known
      BY <2>3, ChangeFacts, KnownParts DEF Event
    <3>2. x \in Known
      BY <1>1, <1>5, <1>7, <3>1
    <3> QED
      BY <1>7, <3>1, <3>2 DEF Versions
  <2> QED
    BY <2>1, <2>2, <2>3
<1> QED
  BY <1>4, <1>6, <1>7 DEF Versions

\* The rest of the pipeline after a change.
LEMMA ChangeKeeps ==
    ASSUME Typed, Typed', Pipeline, NEW e, Change(e)
    PROVE  Pipeline'
<1> DEFINE n == e.obj
<1> USE DEF Pipeline
<1>0. /\ rev \in Nat /\ Known \in SUBSET Objects /\ rev' = rev + 1 /\ n \in Objects
      /\ e \in Events /\ e.type \in {"set", "deleted"} /\ n.kind \in Kinds
  BY MembersNow, ChangeFacts, Fields DEF MembersTyped, Change
<1>1. Versions'
  BY ChangeVersions
<1>2. /\ Items' = Items /\ Stored' = Stored /\ cache' = cache /\ up' = up
      /\ \A k \in Kinds : Sent(k) \subseteq Sent(k)'
      /\ \A k \in Kinds : \A f \in Sent(k)' : f \in Sent(k) \/ (f = e /\ k = n.kind)
      /\ up => e \in Sent(n.kind)'
  BY ChangeFacts
<1>3. \A x \in cluster' : (x \in cluster /\ ~SameName(x, n)) \/ (e = Event("set", x) /\ x = n)
  BY ChangeFacts DEF Event
<1>4. \A x \in Known : x \in cluster' => x \in cluster /\ ~SameName(x, n)
  BY ChangeFacts
<1>5. \A x \in Known : x.rv < rev + 1 /\ x.rv \in Nat
  BY <1>0, ChangeFacts, Fields
<1>6. \A x \in Known : x.uid = n.uid => SameName(x, n)
  BY ChangeFacts
<1>7. OneOfName'
  <2>1. \A x, y \in cluster' : SameName(x, y) => x = y
    BY <1>3 DEF OneOfName, SameName
  <2> QED
    BY <1>2, <2>1 DEF OneOfName
<1>8. Informed'
  <2>1. ASSUME up, NEW o \in cluster' PROVE o \in cache \/ Event("set", o) \in Sent(o.kind)'
    <3>1. CASE o \in cluster
      BY <1>0, <1>2, <2>1, <3>1, MembersNow, Fields DEF Informed, MembersTyped
    <3>2. CASE o \notin cluster
      BY <1>2, <1>3, <2>1, <3>2
    <3> QED
      BY <3>1, <3>2
  <2>2. ASSUME NEW a \in Items, a.op # "delete", a.obj \in cluster' PROVE a.obj \in cache
    BY <1>4, <2>2, KnownParts DEF Informed
  <2>3. ASSUME NEW a \in Items, NEW o \in cluster', a.op = "delete" PROVE a.obj.uid # o.uid
    <3>1. CASE o \in cluster
      BY <2>3, <3>1 DEF Informed
    <3>2. CASE o \notin cluster /\ n.uid = rev + 1
      <4>1. a.obj.uid < rev + 1 /\ a.obj.uid \in Nat
        BY <1>0, ChangeFacts, KnownParts, Fields
      <4> QED
        BY <1>0, <1>3, <3>2, <4>1
    <3>3. ASSUME NEW c \in cluster, c.uid = n.uid, o \notin cluster
          PROVE  a.obj.uid # o.uid
      BY <1>3, <2>3, <3>3 DEF Informed
    <3> QED
      BY <3>1, <3>2, <3>3 DEF Change
  <2> QED
    BY <1>2, <2>1, <2>2, <2>3 DEF Informed
<1>9. ASSUME NEW k \in Kinds, NEW f \in Sent(k)
      PROVE  f \in Events /\ f.obj \in Known /\ News(f)
  BY KnownParts, MembersNow DEF WatchIsNews, MembersTyped
<1>10. ASSUME NEW k \in Kinds PROVE InOrder(cluster', watch[k])
  <2>1. \A f \in ToSet(watch[k]) : f.obj \in cluster' => f.obj \in cluster
    BY <1>4, <1>9 DEF Sent
  <2>2. \A f, g \in ToSet(watch[k]) : Follows(cluster, f, g) => Follows(cluster', f, g)
    BY <2>1 DEF Follows
  <2>3. InOrder(cluster, watch[k])
    BY DEF WatchInOrder
  <2> QED
    BY <2>2, <2>3, OrderCluster
<1>11. ASSUME NEW f \in Sent(n.kind) PROVE Follows(cluster', f, e)
  <2>1. f \in Events /\ f.obj \in Known /\ News(f)
    BY <1>0, <1>9
  <2>2. f.obj \in cluster' => ~SameName(n, f.obj)
    BY <1>4, <2>1 DEF SameName
  <2>3. f.type = "deleted" => f.obj.uid # n.uid
    <3>1. CASE n.uid = rev + 1
      <4>1. f.obj.uid < rev + 1 /\ f.obj.uid \in Nat
        BY <1>0, <2>1, ChangeFacts, Fields
      <4> QED
        BY <1>0, <3>1, <4>1
    <3>2. ASSUME NEW c \in cluster, c.uid = n.uid
          PROVE  f.type = "deleted" => f.obj.uid # n.uid
      BY <2>1, <3>2 DEF News
    <3> QED
      BY <3>1, <3>2 DEF Change
  <2>4. e.type = "set" => f.obj.rv < n.rv
    BY <1>5, <2>1 DEF Change
  <2> QED
    BY <2>2, <2>3, <2>4 DEF Follows
<1>12. WatchInOrder'
  <2>1. ASSUME NEW k \in Kinds PROVE InOrder(cluster', watch'[k])
    <3>1. watch \in [Kinds -> Seq(Events)] /\ watch[k] \in Seq(Events)
      BY DEF Typed, VarTypes
    <3>2. CASE watch'[k] = watch[k]
      BY <1>10, <3>2
    <3>3. CASE k = n.kind /\ watch'[k] = Append(watch[k], e)
      <4>1. InOrder(cluster', Append(watch[k], e))
        BY <1>0, <1>10, <1>11, <3>1, <3>3, OrderAppend DEF Sent
      <4> QED
        BY <3>3, <4>1
    <3> QED
      BY <1>0, <3>1, <3>2, <3>3 DEF Change, Publish
  <2> QED
    BY <2>1 DEF WatchInOrder
<1>13. ASSUME NEW k \in Kinds, NEW f \in Sent(k) PROVE News(f)'
  <2>1. f.obj \in Known /\ News(f)
    BY <1>9
  <2>2. \A o \in cache' \cap cluster' : o \in cache \cap cluster
    BY <1>2, <1>4, KnownParts
  <2>3. f.type = "deleted" => \A o \in cluster' : f.obj.uid # o.uid
    <3>1. ASSUME f.type = "deleted", NEW o \in cluster' PROVE f.obj.uid # o.uid
      <4>1. CASE o \in cluster
        BY <2>1, <3>1, <4>1 DEF News
      <4>2. CASE o = n /\ n.uid = rev + 1
        <5>1. f.obj.uid < rev + 1 /\ f.obj.uid \in Nat
          BY <1>0, <2>1, ChangeFacts, Fields
        <5> QED
          BY <1>0, <4>2, <5>1
      <4>3. ASSUME NEW c \in cluster, c.uid = n.uid, o = n
            PROVE  f.obj.uid # o.uid
        BY <2>1, <3>1, <4>3 DEF News
      <4> QED
        BY <1>3, <4>1, <4>2, <4>3 DEF Change
    <3> QED
      BY <3>1
  <2> QED
    BY <1>2, <2>1, <2>2, <2>3 DEF News
<1>14. News(e)'
  <2>1. \A o \in cache' \cap cluster' : ~SameName(n, o)
    BY <1>2, <1>4, KnownParts DEF SameName
  <2>2. e.type = "deleted" => \A o \in cluster' : n.uid # o.uid
    <3>1. e.type = "deleted" => \A o \in cluster' : o \in cluster /\ ~SameName(o, n)
      BY <1>3 DEF Event
    <3> QED
      BY <1>6, <3>1, KnownParts
  <2>3. \A a \in Items' : a.op = "delete" => a.obj.uid # n.uid
    <3>1. ASSUME NEW a \in Items, a.op = "delete" PROVE a.obj.uid # n.uid
      <4>1. CASE n.uid = rev + 1
        <5>1. a.obj.uid < rev + 1 /\ a.obj.uid \in Nat
          BY <1>0, ChangeFacts, KnownParts, Fields
        <5> QED
          BY <1>0, <4>1, <5>1
      <4>2. ASSUME NEW c \in cluster, c.uid = n.uid
            PROVE  a.obj.uid # n.uid
        BY <3>1, <4>2 DEF Informed
      <4> QED
        BY <4>1, <4>2 DEF Change
    <3> QED
      BY <1>2, <3>1
  <2>4. e.type = "set" => \A x \in Known : x.rv < n.rv /\ x.rv <= n.rv
    BY <1>0, <1>5 DEF Change
  <2>5. /\ \A a \in Items' : a.obj \in Known
        /\ \A c \in cache' : c \in Known
        /\ \A p \in Stored' : p \in Known
    BY <1>2, KnownParts
  <2> QED
    BY <2>1, <2>2, <2>3, <2>4, <2>5 DEF News
<1>15. WatchIsNews'
  <2>1. ASSUME NEW k \in Kinds, NEW f \in Sent(k)' PROVE f.obj.kind = k /\ News(f)'
    BY <1>2, <1>13, <1>14, <2>1 DEF WatchIsNews
  <2> QED
    BY <2>1 DEF WatchIsNews
<1> QED
  BY <1>1, <1>7, <1>8, <1>12, <1>15
-----------------------------------------------------------------------------
(* Steps of the informers.                                                 *)

\* Add, by the fields of the queue.
LEMMA AddFields ==
    ASSUME NEW q \in Queues, NEW a \in Actions
    PROVE  /\ Add(q, a).processing = q.processing
           /\ Add(q, a).dirty = q.dirty \cup {a}
           /\ a \in q.dirty \cup q.processing => Add(q, a).waiting = q.waiting
           /\ a \notin q.dirty \cup q.processing => Add(q, a).waiting = Append(q.waiting, a)
<1>1. CASE a \in q.dirty
  BY <1>1 DEF Add
<1>2. CASE a \notin q.dirty
  <2>1. Add(q, a) = [waiting |-> IF a \in q.processing THEN q.waiting ELSE Append(q.waiting, a),
                     dirty |-> q.dirty \cup {a}, processing |-> q.processing]
    BY <1>2, QueueFields DEF Add, Queues
  <2> QED
    BY <1>2, <2>1
<1> QED
  BY <1>1, <1>2

\* A new item is queued: it is the only new one.
LEMMA AddItems ==
    ASSUME Typed, OneInHand, NEW a \in Actions, queue' = Add(queue, a), UNCHANGED <<worker, action>>,
           a \notin queue.processing \/ a.op = "sync"
    PROVE  /\ OneInHand'
           /\ \A b \in Items' : b \in Items \/ b = a
           /\ a.op = "sync" => Items' \subseteq Items
<1>1. /\ queue'.processing = queue.processing /\ queue'.dirty = queue.dirty \cup {a}
      /\ queue'.waiting \in {queue.waiting, Append(queue.waiting, a)}
  BY AddFields, MembersNow DEF MembersTyped
<1>2. ToSet(Append(queue.waiting, a)) = ToSet(queue.waiting) \cup {a}
  BY SentPlaces, MembersNow DEF MembersTyped
<1>3. \A b \in Items' : b \in Items \/ b = a
  BY <1>1, <1>2 DEF Items
<1>4. a.op = "sync" => Items' \subseteq Items
  BY <1>3 DEF Items
<1>5. OneInHand'
  BY <1>1 DEF OneInHand
<1> QED
  BY <1>3, <1>4, <1>5

\* What an informer does with the first event e of a watch, whichever it is.
Take(k, e) ==
    /\ up /\ watch[k] # <<>> /\ e = Head(watch[k])
    /\ watch' = [watch EXCEPT ![k] = Tail(@)]
    /\ \A c \in cache' : (c \in cache /\ ~SameName(c, e.obj)) \/ (c = e.obj /\ e.type = "set")
    /\ \A c \in cache : SameName(c, e.obj) \/ c \in cache'
    /\ e.type = "set" => e.obj \in cache'
    /\ \/ queue' = queue /\ (e.type = "gone" \/ ~Managed(e.obj))
       \/ /\ e.type # "gone" /\ Managed(e.obj)
          /\ \E a \in ObjectActions : /\ a.obj = e.obj /\ queue' = Add(queue, a)
                                      /\ a.op = "delete" <=> e.type = "deleted"
    /\ UNCHANGED <<cluster, rev, store, worker, action, lastApplied, running, up>>

\* Both handlers are such steps.
LEMMA HandleTakes ==
    ASSUME Typed, NEW k \in Kinds, HandleSet(k) \/ HandleDeleted(k)
    PROVE  Take(k, Head(watch[k]))
<1> DEFINE e == Head(watch[k])
<1>1. /\ up /\ watch[k] # <<>> /\ watch' = [watch EXCEPT ![k] = Tail(@)]
      /\ UNCHANGED <<cluster, rev, store, worker, action, lastApplied, running, up>>
  BY DEF HandleSet, HandleDeleted, clusterVars, caddyVars
<1>2. e \in Events /\ e.obj \in Objects /\ e.type \in {"set", "deleted", "gone"}
  BY <1>1, MembersNow, SentPlaces, Fields DEF MembersTyped
<1>3. \A p \in Objects : \A f \in {"add", "update", "delete"} :
          [op |-> f, obj |-> e.obj, old |-> p] \in ObjectActions
  BY <1>2 DEF ObjectActions
<1>4. cache \in SUBSET Objects
  BY MembersNow DEF MembersTyped
<1>5. CASE HandleSet(k)
  <2>1. /\ e.type = "set" /\ cache' = (cache \ Cached(e.obj)) \cup {e.obj}
        /\ \/ queue' = AddFunc(queue, e.obj)
           \/ \E old \in Cached(e.obj) : queue' = UpdateFunc(queue, old, e.obj)
    BY <1>5 DEF HandleSet
  <2> HIDE DEF e
  <2>2. /\ \A c \in cache' : (c \in cache /\ ~SameName(c, e.obj)) \/ c = e.obj
        /\ \A c \in cache : SameName(c, e.obj) \/ c \in cache'
        /\ e.obj \in cache'
    BY <2>1 DEF Cached
  <2>3. \/ queue' = queue /\ ~Managed(e.obj)
        \/ /\ Managed(e.obj)
           /\ \E a \in ObjectActions : /\ a.obj = e.obj /\ queue' = Add(queue, a) /\ a.op # "delete"
    <3>1. CASE queue' = AddFunc(queue, e.obj)
      <4> DEFINE a == [op |-> "add", obj |-> e.obj, old |-> e.obj]
      <4>1. a \in ObjectActions /\ a.obj = e.obj /\ a.op # "delete"
        BY <1>2, <1>3
      <4>2. queue' = IF Managed(e.obj) THEN Add(queue, a) ELSE queue
        BY <3>1 DEF AddFunc
      <4> HIDE DEF a
      <4> QED
        BY <4>1, <4>2
    <3>2. ASSUME NEW old \in Cached(e.obj), queue' = UpdateFunc(queue, old, e.obj)
          PROVE  \/ queue' = queue /\ ~Managed(e.obj)
                 \/ /\ Managed(e.obj)
                    /\ \E a \in ObjectActions : a.obj = e.obj /\ queue' = Add(queue, a) /\ a.op # "delete"
      <4> DEFINE a == [op |-> "update", obj |-> e.obj, old |-> old]
      <4>1. a \in ObjectActions /\ a.obj = e.obj /\ a.op # "delete"
        BY <1>2, <1>3, <1>4 DEF Cached
      <4>2. queue' = IF Managed(e.obj) THEN Add(queue, a) ELSE queue
        BY <3>2 DEF UpdateFunc
      <4> HIDE DEF a
      <4> QED
        BY <4>1, <4>2
    <3> QED
      BY <2>1, <3>1, <3>2
  <2>4. e = Head(watch[k])
    BY DEF e
  <2>5. Take(k, e)
    BY <1>1, <2>1, <2>2, <2>3, <2>4 DEF Take
  <2> QED
    BY <2>5 DEF e
<1>6. CASE HandleDeleted(k)
  <2>1. e.type # "set" /\ cache' = cache \ Cached(e.obj) /\ queue' = DeleteFunc(queue, e)
    BY <1>6 DEF HandleDeleted
  <2> HIDE DEF e
  <2>2. /\ \A c \in cache' : c \in cache /\ ~SameName(c, e.obj)
        /\ \A c \in cache : SameName(c, e.obj) \/ c \in cache'
    BY <2>1 DEF Cached
  <2>3. \/ queue' = queue /\ (e.type = "gone" \/ ~Managed(e.obj))
        \/ /\ e.type = "deleted" /\ Managed(e.obj)
           /\ \E a \in ObjectActions : a.obj = e.obj /\ queue' = Add(queue, a) /\ a.op = "delete"
    <3> DEFINE a == [op |-> "delete", obj |-> e.obj, old |-> e.obj]
    <3>1. a \in ObjectActions /\ a.obj = e.obj /\ a.op = "delete"
      BY <1>2, <1>3
    <3>2. queue' = IF e.type = "deleted" /\ Managed(e.obj) THEN Add(queue, a) ELSE queue
      BY <2>1 DEF DeleteFunc
    <3> HIDE DEF a
    <3> QED
      BY <1>2, <2>1, <3>1, <3>2
  <2>4. e = Head(watch[k])
    BY DEF e
  <2>5. Take(k, e)
    BY <1>1, <2>1, <2>2, <2>3, <2>4 DEF Take
  <2> QED
    BY <2>5 DEF e
<1> QED
  BY <1>5, <1>6

\* The event taken, the rest of the watch, and the item queued, which is new.
LEMMA TakeFacts ==
    ASSUME Typed, OneInHand, Pipeline, NEW k \in Kinds, NEW e, Take(k, e)
    PROVE  /\ e \in Sent(k) /\ e \in Events /\ e.obj \in Known /\ News(e) /\ e.obj.kind = k
           /\ \A j \in Kinds : Sent(j)' \subseteq Sent(j)
           /\ \A j \in Kinds : \A f \in Sent(j) : f \in Sent(j)' \/ (f = e /\ j = k)
           /\ \A f \in Sent(k)' : Follows(cluster, e, f)
           /\ WatchInOrder'
           /\ OneInHand'
           /\ \A b \in Items' : b \in Items \/ /\ b.obj = e.obj /\ e.type # "gone"
                                               /\ b.op = "delete" <=> e.type = "deleted"
           /\ \A a \in ObjectActions :
                 /\ a.obj = e.obj /\ e.type # "gone" /\ (a.op = "delete" <=> e.type = "deleted")
                 => a \notin Items
<1>0. watch[k] # <<>> /\ e = Head(watch[k]) /\ watch' = [watch EXCEPT ![k] = Tail(@)]
  BY DEF Take
<1>1. watch \in [Kinds -> Seq(Events)] /\ watch[k] \in Seq(Events)
  BY DEF Typed, VarTypes
<1>2. ToSet(watch[k]) = {e} \cup ToSet(Tail(watch[k])) /\ e \in Events
  BY <1>0, <1>1, SentPlaces
<1>3. /\ watch'[k] = Tail(watch[k])
      /\ \A j \in Kinds : j # k => watch'[j] = watch[j]
  BY <1>0, <1>1
<1>4. Sent(k) = {e} \cup Sent(k)' /\ \A j \in Kinds : j # k => Sent(j)' = Sent(j)
  BY <1>2, <1>3 DEF Sent
<1>5. e \in Sent(k) /\ e.obj \in Known /\ News(e) /\ e.obj.kind = k
  BY <1>4, KnownParts DEF Pipeline, WatchIsNews
<1>6. InOrder(cluster, watch[k])
  BY DEF Pipeline, WatchInOrder
<1>7. InOrder(cluster, Tail(watch[k])) /\ \A f \in ToSet(Tail(watch[k])) : Follows(cluster, e, f)
  BY <1>0, <1>1, <1>6, OrderTail
<1>8. \A f \in Sent(k)' : Follows(cluster, e, f)
  BY <1>3, <1>7 DEF Sent
<1>9. WatchInOrder'
  BY <1>3, <1>7 DEF Pipeline, WatchInOrder, Take
<1>10. ASSUME NEW a \in ObjectActions, a.obj = e.obj, e.type # "gone", a.op = "delete" <=> e.type = "deleted",
              a \in Items
       PROVE  FALSE
  <2>1. CASE e.type = "deleted"
    BY <1>5, <1>10, <2>1 DEF News
  <2>2. CASE e.type = "set"
    <3>1. a.obj.rv < e.obj.rv
      BY <1>5, <1>10, <2>2 DEF News
    <3>2. e.obj.rv \in Nat
      BY <1>2, Fields
    <3> QED
      BY <1>10, <3>1, <3>2
  <2> QED
    BY <1>2, <1>10, <2>1, <2>2, Fields
<1>11. /\ OneInHand'
       /\ \A b \in Items' : b \in Items \/ /\ b.obj = e.obj /\ e.type # "gone"
                                           /\ b.op = "delete" <=> e.type = "deleted"
  <2>1. CASE queue' = queue
    BY <2>1 DEF OneInHand, Items, Take
  <2>2. ASSUME NEW a \in ObjectActions, a.obj = e.obj, queue' = Add(queue, a), e.type # "gone",
               a.op = "delete" <=> e.type = "deleted"
        PROVE  OneInHand' /\ \A b \in Items' : b \in Items \/ b = a
    <3>1. a \notin Items
      BY <1>10, <2>2
    <3>2. a \in Actions /\ a.op # "sync"
      BY Fields
    <3>3. a \notin queue.processing
      BY <3>1, <3>2 DEF Items
    <3> QED
      BY <2>2, <3>2, <3>3, AddItems DEF Take
  <2> QED
    BY <2>1, <2>2 DEF Take
<1> QED
  BY <1>2, <1>4, <1>5, <1>8, <1>9, <1>10, <1>11

\* The pipeline after an informer has taken an event.
LEMMA TakeKeeps ==
    ASSUME Typed, OneInHand, Pipeline, NEW k \in Kinds, NEW e, Take(k, e)
    PROVE  Pipeline' /\ OneInHand'
<1> USE DEF Pipeline
<1>0. /\ e \in Sent(k) /\ e \in Events /\ e.obj \in Known /\ News(e) /\ e.obj.kind = k
      /\ \A j \in Kinds : Sent(j)' \subseteq Sent(j)
      /\ \A j \in Kinds : \A f \in Sent(j) : f \in Sent(j)' \/ (f = e /\ j = k)
      /\ \A f \in Sent(k)' : Follows(cluster, e, f)
      /\ WatchInOrder' /\ OneInHand'
      /\ \A b \in Items' : b \in Items \/ /\ b.obj = e.obj /\ e.type # "gone"
                                          /\ b.op = "delete" <=> e.type = "deleted"
  BY TakeFacts
<1>1. /\ cluster' = cluster /\ rev' = rev /\ up' = up /\ up /\ Stored' = Stored
      /\ \A c \in cache' : (c \in cache /\ ~SameName(c, e.obj)) \/ (c = e.obj /\ e.type = "set")
      /\ \A c \in cache : SameName(c, e.obj) \/ c \in cache'
      /\ e.type = "set" => e.obj \in cache'
  BY DEF Take, Stored
<1>2. Versions'
  <2>1. cluster' \subseteq Known /\ cache' \subseteq Known /\ Stored' \subseteq Known
    BY <1>0, <1>1, KnownParts
  <2>2. \A a \in Items' : a.obj \in Known
    BY <1>0, KnownParts
  <2>3. \A j \in Kinds : \A f \in Sent(j)' : f.obj \in Known
    BY <1>0, KnownParts
  <2>4. Known' \subseteq Known
    BY <2>1, <2>2, <2>3, KnownNext
  <2> QED
    BY <1>1, <2>4, VersionsKept
<1>3. OneOfName'
  <2>1. \A x, y \in cache' : SameName(x, y) => x = y
    BY <1>1 DEF OneOfName, SameName
  <2> QED
    BY <1>1, <2>1 DEF OneOfName
<1>4. \A c \in cache \cap cluster : ~SameName(c, e.obj)
  BY <1>0 DEF News, SameName
<1>5. Informed'
  <2>1. ASSUME NEW o \in cluster PROVE o \in cache' \/ Event("set", o) \in Sent(o.kind)'
    <3>1. CASE o \in cache
      BY <1>1, <1>4, <3>1
    <3>2. CASE Event("set", o) \in Sent(o.kind)
      <4>1. o.kind \in Kinds
        BY MembersNow, Fields DEF MembersTyped
      <4>2. Event("set", o) = e => o \in cache'
        BY <1>1 DEF Event
      <4> QED
        BY <1>0, <3>2, <4>1, <4>2
    <3> QED
      BY <1>1, <3>1, <3>2 DEF Informed
  <2>2. ASSUME NEW a \in Items', a.op # "delete", a.obj \in cluster PROVE a.obj \in cache'
    <3>1. CASE a \in Items
      <4>1. a.obj \in cache
        BY <2>2, <3>1 DEF Informed
      <4> QED
        BY <1>1, <1>4, <2>2, <4>1
    <3>2. CASE a \notin Items
      BY <1>0, <1>1, <2>2, <3>2, Fields
    <3> QED
      BY <3>1, <3>2
  <2>3. ASSUME NEW a \in Items', NEW o \in cluster, a.op = "delete" PROVE a.obj.uid # o.uid
    <3>1. CASE a \in Items
      BY <2>3, <3>1 DEF Informed
    <3>2. CASE a \notin Items
      BY <1>0, <2>3, <3>2 DEF News
    <3> QED
      BY <3>1, <3>2
  <2> QED
    BY <1>1, <2>1, <2>2, <2>3 DEF Informed
<1>6. ASSUME NEW j \in Kinds, NEW f \in Sent(j)' PROVE f.obj.kind = j /\ News(f)'
  <2>1. f \in Sent(j) /\ f.obj.kind = j /\ News(f) /\ f \in Events
    BY <1>0, <1>6, MembersNow DEF WatchIsNews, MembersTyped
  <2>2. f.obj.uid = e.obj.uid => Follows(cluster, e, f)
    <3>1. f.obj.uid = e.obj.uid => SameName(f.obj, e.obj)
      BY <1>0, <2>1, KnownParts DEF Versions
    <3> QED
      BY <1>0, <1>6, <2>1, <3>1 DEF SameName
  <2>3. SameName(f.obj, e.obj) => Follows(cluster, e, f)
    BY <1>0, <1>6, <2>1 DEF SameName
  <2>4. \A o \in cache' \cap cluster : ~SameName(f.obj, o)
    <3>1. ASSUME NEW o \in cache', o \in cluster PROVE ~SameName(f.obj, o)
      <4>1. CASE o \in cache
        BY <2>1, <3>1, <4>1 DEF News
      <4>2. CASE o = e.obj /\ e.type = "set"
        BY <2>3, <3>1, <4>2 DEF Follows
      <4> QED
        BY <1>1, <3>1, <4>1, <4>2
    <3> QED
      BY <3>1
  <2>5. ASSUME f.type # "gone", NEW a \in Items', a.op = "delete" PROVE a.obj.uid # f.obj.uid
    <3>1. CASE a \in Items
      BY <2>1, <2>5, <3>1 DEF News
    <3>2. CASE a \notin Items
      BY <1>0, <2>2, <2>5, <3>2 DEF Follows
    <3> QED
      BY <3>1, <3>2
  <2>6. ASSUME f.type = "set", NEW a \in Items', a.obj.uid = f.obj.uid PROVE a.obj.rv < f.obj.rv
    <3>1. CASE a \in Items
      BY <2>1, <2>6, <3>1 DEF News
    <3>2. CASE a \notin Items
      <4>1. a.obj = e.obj /\ e.type # "gone"
        BY <1>0, <2>6, <3>2
      <4>2. Follows(cluster, e, f)
        BY <2>2, <2>6, <4>1
      <4>3. e.type = "set"
        BY <1>0, <2>6, <4>1, <4>2, Fields DEF Follows
      <4> QED
        BY <2>6, <4>1, <4>2, <4>3 DEF Follows
    <3> QED
      BY <3>1, <3>2
  <2>7. ASSUME f.type = "set", NEW c \in cache', c.uid = f.obj.uid PROVE c.rv < f.obj.rv
    <3>1. CASE c \in cache
      BY <2>1, <2>7, <3>1 DEF News
    <3>2. CASE c = e.obj /\ e.type = "set"
      BY <2>2, <2>7, <3>2 DEF Follows
    <3> QED
      BY <1>1, <2>7, <3>1, <3>2
  <2>8. f.type = "set" => \A p \in Stored' : p.uid = f.obj.uid => p.rv <= f.obj.rv
    BY <1>1, <2>1 DEF News
  <2>9. f.type = "deleted" => \A o \in cluster' : f.obj.uid # o.uid
    BY <1>1, <2>1 DEF News
  <2> QED
    BY <1>1, <2>1, <2>4, <2>5, <2>6, <2>7, <2>8, <2>9 DEF News
<1> QED
  BY <1>0, <1>2, <1>3, <1>5, <1>6 DEF WatchIsNews

\* The informer replays an object of its cache.
LEMMA ResyncKeeps ==
    ASSUME Typed, OneInHand, Pipeline, NEW c \in cache, Resync(c)
    PROVE  Pipeline' /\ OneInHand'
<1> USE DEF Pipeline
<1> DEFINE r == [op |-> "update", obj |-> c, old |-> c]
<1>0. /\ UNCHANGED <<cluster, rev, watch, cache, store, worker, action, up>>
      /\ queue' = IF Managed(c) THEN Add(queue, r) ELSE queue
      /\ r \notin queue.processing
  BY DEF Resync, UpdateFunc, clusterVars, informerVars
<1>1. c \in Objects /\ \A k \in Kinds : Sent(k) \in SUBSET Events
  BY MembersNow DEF MembersTyped
<1>2. r \in Actions /\ r.obj = c /\ r.op = "update"
  BY <1>1, ActionFacts
<1> HIDE DEF r
<1>3. OneInHand' /\ \A b \in Items' : b \in Items \/ b = r
  <2>1. CASE queue' = queue
    BY <1>0, <2>1 DEF OneInHand, Items
  <2>2. CASE queue' = Add(queue, r)
    BY <1>0, <1>2, <2>2, AddItems
  <2> QED
    BY <1>0, <2>1, <2>2
<1>4. /\ Stored' = Stored /\ \A k \in Kinds : Sent(k)' = Sent(k)
  BY <1>0 DEF Stored, Sent
<1>5. Versions'
  <2>1. \A a \in Items' : a.obj \in Known
    BY <1>2, <1>3, KnownParts
  <2>2. Known' \subseteq Known
    BY <1>0, <1>4, <2>1, KnownParts, KnownNext
  <2> QED
    BY <1>0, <2>2, VersionsKept
<1>6. OneOfName' /\ WatchInOrder'
  BY <1>0 DEF OneOfName, WatchInOrder
<1>7. Informed'
  BY <1>0, <1>2, <1>3, <1>4, Fields DEF Informed, Sent
<1>8. ASSUME NEW k \in Kinds, NEW e \in Sent(k) PROVE News(e)'
  <2>1. News(e)
    BY DEF WatchIsNews
  <2>2. \A a \in Items' : a.op = "delete" => a \in Items
    BY <1>2, <1>3
  <2>3. e.type = "set" => \A a \in Items' : a.obj.uid = e.obj.uid => a.obj.rv < e.obj.rv
    BY <1>2, <1>3, <2>1 DEF News
  <2> QED
    BY <1>0, <1>4, <2>1, <2>2, <2>3 DEF News
<1>9. WatchIsNews'
  BY <1>4, <1>8 DEF WatchIsNews
<1> QED
  BY <1>3, <1>5, <1>6, <1>7, <1>9
-----------------------------------------------------------------------------
(* A new list.                                                             *)

\* An order of a finite set has every element once.
LEMMA OrdersFacts ==
    ASSUME NEW X, IsFiniteSet(X), NEW f \in SetToSeqs(X)
    PROVE  /\ f \in Seq(X)
           /\ \A i, j \in DOMAIN f : f[i] = f[j] => i = j
           /\ \A x \in X : \E i \in DOMAIN f : f[i] = x
<1> DEFINE n == Cardinality(X)
<1>1. n \in Nat
  BY FS_CardinalityType
<1>2. f \in [1 .. n -> X] /\ \A i, j \in 1 .. n : i # j => f[i] # f[j]
  BY DEF SetToSeqs
<1>3. f \in Injection(1 .. n, X)
  BY <1>2 DEF Injection, IsInjective
<1>4. Cardinality(1 .. n) = n
  BY <1>1, FS_Interval
<1>5. f \in Surjection(1 .. n, X)
  BY <1>3, <1>4, FS_Injection
<1> QED
  BY <1>1, <1>2, <1>5 DEF Surjection

\* The events es are what an informer makes of a list: a version of each object that is
\* listed and not cached, once, and tombstones of cached names that are not listed.
Relist(k, es) ==
    /\ es \in Seq(Events)
    /\ \A i \in DOMAIN es :
          \/ \E o \in Listed(k) \ cache : es[i] = Event("set", o)
          \/ \E c \in cache : /\ es[i] = Event("gone", c) /\ c.kind = k
                              /\ \A l \in Listed(k) : ~SameName(l, c)
    /\ \A i, j \in DOMAIN es : es[i].type = "set" /\ es[i] = es[j] => i = j
    /\ \A o \in Listed(k) \ cache : \E i \in DOMAIN es : es[i] = Event("set", o)

\* RelistEvents makes nothing else.
LEMMA RelistFacts ==
    ASSUME Typed, NEW k \in Kinds, NEW es \in RelistEvents(k, cache)
    PROVE  Relist(k, es)
<1> DEFINE lost == {c \in cache : c.kind = k /\ \A l \in Listed(k) : ~SameName(l, c)}
           G == Changed(k, cache)
           H == Vanished(k, cache)
<1>0. cluster \in SUBSET Objects /\ cache \in SUBSET Objects /\ IsFiniteSet(cluster) /\ IsFiniteSet(cache)
  BY DEF Typed, VarTypes, Finite
<1>1. es \in Seq(Events)
  BY <1>0, RelistType
<1>2. Listed(k) \ cache \in SUBSET Objects /\ IsFiniteSet(Listed(k) \ cache)
  BY <1>0, FS_Subset DEF Listed
<1>3. lost \in SUBSET Objects /\ IsFiniteSet(lost)
  BY <1>0, FS_Subset
<1>4. G = {Event("set", o) : o \in Listed(k) \ cache} /\ H = {Event("gone", o) : o \in lost}
  BY DEF Changed, Vanished
<1>5. IsFiniteSet(G) /\ IsFiniteSet(H)
  <2> HIDE DEF lost, G, H
  <2> QED
    BY <1>2, <1>3, <1>4, EventsOf
<1>6. PICK s \in SetToSeqs(G), g \in SetToSeqs(H) : es = s \o g
  BY DEF RelistEvents
<1>7. \A x \in G : x.type = "set" /\ \E o \in Listed(k) \ cache : x = Event("set", o)
  BY <1>4 DEF Event
<1>8. \A x \in H : /\ x.type = "gone"
                   /\ \E c \in cache : /\ x = Event("gone", c) /\ c.kind = k
                                       /\ \A l \in Listed(k) : ~SameName(l, c)
  BY <1>4 DEF Event
<1>9. \A o \in Listed(k) \ cache : Event("set", o) \in G
  BY <1>4
<1> HIDE DEF G, H, lost
<1>10. /\ s \in Seq(G) /\ (\A i, j \in DOMAIN s : s[i] = s[j] => i = j)
       /\ \A x \in G : \E i \in DOMAIN s : s[i] = x
  BY <1>5, OrdersFacts
<1>11. g \in Seq(H)
  BY <1>5, OrdersFacts
<1>12. /\ Len(s) \in Nat /\ Len(g) \in Nat /\ DOMAIN s = 1 .. Len(s) /\ DOMAIN g = 1 .. Len(g)
       /\ DOMAIN es = 1 .. Len(s) + Len(g)
       /\ \A i \in 1 .. Len(s) : es[i] = s[i] /\ s[i] \in G
       /\ \A i \in 1 .. Len(g) : g[i] \in H
       /\ \A i \in DOMAIN es : i \notin 1 .. Len(s) => i - Len(s) \in 1 .. Len(g) /\ es[i] = g[i - Len(s)]
  BY <1>6, <1>10, <1>11
<1>13. \A i \in DOMAIN es : (i \in DOMAIN s /\ es[i] = s[i] /\ es[i] \in G) \/ es[i] \in H
  BY <1>12
<1>14. \A i \in DOMAIN es :
          \/ \E o \in Listed(k) \ cache : es[i] = Event("set", o)
          \/ \E c \in cache : /\ es[i] = Event("gone", c) /\ c.kind = k
                              /\ \A l \in Listed(k) : ~SameName(l, c)
  BY <1>7, <1>8, <1>13
<1>15. ASSUME NEW i \in DOMAIN es, NEW j \in DOMAIN es, es[i].type = "set", es[i] = es[j]
       PROVE  i = j
  <2>1. es[i] \notin H /\ es[j] \notin H
    BY <1>8, <1>15
  <2> QED
    BY <1>10, <1>13, <1>15, <2>1
<1>16. \A o \in Listed(k) \ cache : \E i \in DOMAIN es : es[i] = Event("set", o)
  <2>1. \A i \in DOMAIN s : i \in DOMAIN es /\ es[i] = s[i]
    BY <1>12
  <2> QED
    BY <1>9, <1>10, <2>1
<1> QED
  BY <1>1, <1>14, <1>15, <1>16 DEF Relist

\* One or both informers list again, when the process starts or a watch breaks.
Relists ==
    /\ up' = TRUE
    /\ \A k \in Kinds : Relist(k, watch'[k]) \/ (up /\ watch'[k] = watch[k])
    /\ UNCHANGED <<cluster, rev, cache, queue, store, worker, action, lastApplied, running>>

\* WatchBroken and Start are such steps.
LEMMA RelistsSteps ==
    ASSUME Typed, Down, Start \/ \E k \in Kinds : WatchBroken(k)
    PROVE  Relists
<1>1. CASE Start
  <2>1. /\ ~up /\ up' = TRUE
        /\ UNCHANGED <<cluster, rev, cache, queue, store, worker, action, lastApplied, running>>
        /\ \A k \in Kinds : watch'[k] \in RelistEvents(k, {})
    BY <1>1 DEF Start, clusterVars, caddyVars
  <2>2. cache = {}
    BY <2>1 DEF Down
  <2>3. \A k \in Kinds : Relist(k, watch'[k])
    BY <2>1, <2>2, RelistFacts
  <2> QED
    BY <2>1, <2>3 DEF Relists
<1>2. ASSUME NEW k \in Kinds, WatchBroken(k) PROVE Relists
  <2>1. /\ up /\ up' = up
        /\ UNCHANGED <<cluster, rev, cache, queue, store, worker, action, lastApplied, running>>
    BY <1>2 DEF WatchBroken, clusterVars, caddyVars
  <2>2. PICK es \in RelistEvents(k, cache) : watch' = [watch EXCEPT ![k] = es]
    BY <1>2 DEF WatchBroken
  <2>3. watch \in [Kinds -> Seq(Events)]
    BY DEF Typed, VarTypes
  <2>4. \A j \in Kinds : watch'[j] = IF j = k THEN es ELSE watch[j]
    BY <2>2, <2>3
  <2>5. Relist(k, es)
    BY RelistFacts
  <2>6. \A j \in Kinds : Relist(j, watch'[j]) \/ (up /\ watch'[j] = watch[j])
    BY <2>1, <2>4, <2>5
  <2> QED
    BY <2>1, <2>6 DEF Relists
<1> QED
  BY <1>1, <1>2

\* A listed event is news, and so are two of them.
LEMMA RelistNews ==
    ASSUME Typed, Pipeline, NEW k \in Kinds, NEW es, Relist(k, es)
    PROVE  /\ \A e \in ToSet(es) : e.obj.kind = k /\ News(e) /\ e.obj \in Known
           /\ InOrder(cluster, es)
<1> USE DEF Pipeline
<1>0. /\ Known \in SUBSET Objects /\ cluster \in SUBSET Objects /\ cache \in SUBSET Objects
      /\ Stored \in SUBSET Objects /\ Items \in SUBSET ObjectActions
  BY MembersNow DEF MembersTyped
<1>1. ASSUME NEW o \in Listed(k) \ cache
      PROVE  /\ Event("set", o).obj = o /\ Event("set", o).type = "set"
             /\ o \in cluster /\ o \in Known /\ o.kind = k /\ News(Event("set", o))
  <2>1. o \in cluster /\ o \in Known /\ o.kind = k /\ o \notin cache
    BY KnownParts DEF Listed
  <2>2. Event("set", o).obj = o /\ Event("set", o).type = "set"
    BY DEF Event
  <2>3. \A c \in cache \cap cluster : ~SameName(o, c)
    BY <2>1 DEF OneOfName
  <2>4. \A a \in Items : a.op = "delete" => a.obj.uid # o.uid
    BY <2>1 DEF Informed
  <2>5. ASSUME NEW x \in Known, x.uid = o.uid, x # o PROVE x.rv < o.rv
    <3>1. x.rv <= o.rv /\ x.rv # o.rv
      BY <2>1, <2>5 DEF Versions
    <3>2. x.rv \in Nat /\ o.rv \in Nat
      BY <1>0, <2>1, Fields
    <3> QED
      BY <3>1, <3>2
  <2>6. \A a \in Items : a.obj.uid = o.uid => a.obj # o
    BY <2>1, <2>4 DEF Informed
  <2>7. \A p \in Stored : p.uid = o.uid => p.rv <= o.rv
    BY <2>1, KnownParts DEF Versions
  <2>8. \A a \in Items : a.obj.uid = o.uid => a.obj.rv < o.rv
    BY <2>5, <2>6, KnownParts
  <2>9. \A c \in cache : c.uid = o.uid => c.rv < o.rv
    BY <2>1, <2>5, KnownParts
  <2> QED
    BY <2>1, <2>2, <2>3, <2>4, <2>7, <2>8, <2>9 DEF News
<1>2. ASSUME NEW c \in cache, c.kind = k, \A l \in Listed(k) : ~SameName(l, c)
      PROVE  /\ Event("gone", c).obj = c /\ Event("gone", c).type = "gone"
             /\ c \in Known /\ News(Event("gone", c))
             /\ \A o \in cluster : ~SameName(c, o)
  <2>1. Event("gone", c).obj = c /\ Event("gone", c).type = "gone"
    BY DEF Event
  <2>2. \A o \in cluster : ~SameName(c, o)
    BY <1>2 DEF Listed, SameName
  <2> QED
    BY <2>1, <2>2, KnownParts DEF News
<1>3. \A e \in ToSet(es) : e.obj.kind = k /\ News(e) /\ e.obj \in Known
  BY <1>1, <1>2 DEF Relist, ToSet
<1>4. ASSUME NEW i \in DOMAIN es, NEW j \in DOMAIN es, i < j PROVE Follows(cluster, es[i], es[j])
  <2>0. i \in Nat /\ j \in Nat
    BY DEF Relist
  <2>1. es[i].type \in {"set", "gone"}
    BY <1>1, <1>2 DEF Relist
  <2>2. es[i].type = "gone" => Follows(cluster, es[i], es[j])
    BY DEF Follows
  <2>3. ASSUME es[i].type = "set" PROVE Follows(cluster, es[i], es[j])
    <3>1. PICK o \in Listed(k) \ cache : es[i] = Event("set", o)
      BY <1>2, <2>3 DEF Relist
    <3>2. es[i].obj = o /\ o \in cluster
      BY <1>1, <3>1
    <3>3. es[i] # es[j]
      BY <1>4, <2>0, <2>3 DEF Relist
    <3>4. ASSUME NEW p \in Listed(k) \ cache, es[j] = Event("set", p)
          PROVE  Follows(cluster, es[i], es[j])
      <4>1. p # o /\ p \in cluster /\ es[j].obj = p
        BY <1>1, <3>1, <3>3, <3>4
      <4>2. ~SameName(p, o)
        BY <3>2, <4>1 DEF OneOfName
      <4>3. o.uid # p.uid
        BY <3>2, <4>1, <4>2, KnownParts DEF Versions
      <4> QED
        BY <2>3, <3>2, <4>1, <4>2, <4>3 DEF Follows
    <3>5. ASSUME NEW c \in cache, es[j] = Event("gone", c), c.kind = k,
                 \A l \in Listed(k) : ~SameName(l, c)
          PROVE  Follows(cluster, es[i], es[j])
      BY <1>2, <2>3, <3>2, <3>5 DEF Follows
    <3> QED
      BY <3>4, <3>5 DEF Relist
  <2> QED
    BY <2>1, <2>2, <2>3
<1> QED
  BY <1>3, <1>4 DEF InOrder

\* The pipeline after a new list.
LEMMA RelistsKeep ==
    ASSUME Typed, OneInHand, Pipeline, Relists
    PROVE  Pipeline' /\ OneInHand'
<1> USE DEF Pipeline
<1>0. /\ UNCHANGED <<cluster, rev, cache, queue, store, worker, action>>
      /\ \A k \in Kinds : Relist(k, watch'[k]) \/ (up /\ watch'[k] = watch[k])
  BY DEF Relists
<1>1. Items' = Items /\ Stored' = Stored /\ OneInHand'
  BY <1>0 DEF Items, Stored, OneInHand
<1>2. ASSUME NEW k \in Kinds
      PROVE  /\ \A e \in Sent(k)' : e.obj.kind = k /\ News(e) /\ e.obj \in Known
             /\ InOrder(cluster, watch'[k])
  <2>1. CASE Relist(k, watch'[k])
    BY <2>1, RelistNews DEF Sent
  <2>2. CASE watch'[k] = watch[k]
    BY <2>2, KnownParts DEF Sent, WatchIsNews, WatchInOrder
  <2> QED
    BY <1>0, <2>1, <2>2
<1>3. Versions'
  <2>1. Known' \subseteq Known
    BY <1>0, <1>1, <1>2, KnownParts, KnownNext
  <2> QED
    BY <1>0, <2>1, VersionsKept
<1>4. OneOfName' /\ WatchInOrder'
  BY <1>0, <1>2 DEF OneOfName, WatchInOrder
<1>5. Informed'
  <2>1. ASSUME NEW o \in cluster PROVE o \in cache \/ Event("set", o) \in Sent(o.kind)'
    <3>1. o.kind \in Kinds /\ o \in Listed(o.kind)
      BY MembersNow, Fields DEF MembersTyped, Listed
    <3>2. CASE Relist(o.kind, watch'[o.kind])
      BY <3>1, <3>2 DEF Relist, Sent, ToSet
    <3>3. CASE up /\ watch'[o.kind] = watch[o.kind]
      BY <3>3 DEF Informed, Sent
    <3> QED
      BY <1>0, <3>1, <3>2, <3>3
  <2> QED
    BY <1>0, <1>1, <2>1 DEF Informed
<1>6. ASSUME NEW k \in Kinds, NEW e \in Sent(k)' PROVE News(e)'
  <2>1. News(e)
    BY <1>2, <1>6
  <2> QED
    BY <1>0, <1>1, <2>1 DEF News
<1>7. WatchIsNews'
  BY <1>2, <1>6 DEF WatchIsNews
<1> QED
  BY <1>1, <1>3, <1>4, <1>5, <1>7
-----------------------------------------------------------------------------
(* Steps of the worker.                                                    *)

\* A set of numbers that is not empty has a least one.
LEMMA LeastNumber ==
    ASSUME NEW M \in SUBSET Nat, M # {}
    PROVE  \E i \in M : \A j \in M : i <= j
<1>1. IsWellFoundedOn(OpToRel(<, Nat), Nat)
  BY NatLessThanWellFounded, Zenon
<1>2. PICK i \in M : \A j \in M : ~ (<<j, i>> \in OpToRel(<, Nat))
  BY <1>1, WFMin, Zenon
<1>3. \A j \in M : ~ (j < i)
  BY <1>2 DEF OpToRel
<1> QED
  BY <1>3

\* Who is in the store after AddIngress: the ingress, and the others.
LEMMA AddIngressMembers ==
    ASSUME NEW T, NEW ings \in Seq(T), NEW ing \in T
    PROVE  \A p : p \in ToSet(AddIngress(ings, ing)) <=>
                     p = ing \/ (p \in ToSet(ings) /\ p.uid # ing.uid)
<1> DEFINE M == Matches(ings, ing)
           r == AddIngress(ings, ing)
<1>0. M = {i \in DOMAIN ings : ings[i].uid = ing.uid}
  BY DEF Matches
<1>1. CASE M # {}
  <2>1. r = [i \in DOMAIN ings |-> IF i \in M THEN ing ELSE ings[i]]
    BY <1>1 DEF AddIngress
  <2> HIDE DEF r, M
  <2>2. DOMAIN r = DOMAIN ings /\ \A i \in DOMAIN ings : r[i] = IF i \in M THEN ing ELSE ings[i]
    BY <2>1
  <2>3. PICK m \in DOMAIN ings : m \in M
    BY <1>0, <1>1
  <2>4. ASSUME NEW p PROVE p \in ToSet(r) <=> p = ing \/ (p \in ToSet(ings) /\ p.uid # ing.uid)
    <3>1. p \in ToSet(r) => p = ing \/ (p \in ToSet(ings) /\ p.uid # ing.uid)
      BY <1>0, <2>2 DEF ToSet
    <3>2. p = ing => p \in ToSet(r)
      BY <2>2, <2>3 DEF ToSet
    <3>3. p \in ToSet(ings) /\ p.uid # ing.uid => p \in ToSet(r)
      BY <1>0, <2>2 DEF ToSet
    <3> QED
      BY <3>1, <3>2, <3>3
  <2> QED
    BY <2>4 DEF r
<1>2. CASE M = {}
  <2>1. r = Append(ings, ing)
    BY <1>2 DEF AddIngress
  <2>2. ToSet(r) = ToSet(ings) \cup {ing}
    BY <2>1, SentPlaces
  <2>3. \A p \in ToSet(ings) : p.uid # ing.uid
    BY <1>0, <1>2 DEF ToSet
  <2> QED
    BY <2>2, <2>3
<1> QED
  BY <1>1, <1>2

\* Who is in the store after PluckIngress: the others, and, where UIDs are unique, no more.
LEMMA PluckIngressMembers ==
    ASSUME NEW T, NEW ings \in Seq(T), NEW ing
    PROVE  /\ \A p \in ToSet(PluckIngress(ings, ing)) : p \in ToSet(ings)
           /\ \A p \in ToSet(ings) : p.uid # ing.uid => p \in ToSet(PluckIngress(ings, ing))
           /\ UniqueUids(ings) => \A p \in ToSet(PluckIngress(ings, ing)) : p.uid # ing.uid
<1> DEFINE M == Matches(ings, ing)
           r == PluckIngress(ings, ing)
           n == Len(ings)
<1>0. M = {i \in DOMAIN ings : ings[i].uid = ing.uid}
  BY DEF Matches
<1>1. CASE M = {}
  <2>1. r = ings
    BY <1>1 DEF PluckIngress
  <2>2. \A p \in ToSet(ings) : p.uid # ing.uid
    BY <1>0, <1>1 DEF ToSet
  <2> QED
    BY <2>1, <2>2
<1>2. CASE M # {}
  <2> DEFINE first == CHOOSE i \in M : \A j \in M : i <= j
  <2>1. n \in Nat /\ n >= 1 /\ DOMAIN ings = 1 .. n
    BY <1>0, <1>2
  <2>2. r = [i \in 1 .. n - 1 |-> IF i = first THEN ings[n] ELSE ings[i]]
    BY <1>2 DEF PluckIngress
  <2>3. first \in M
    <3>1. M \in SUBSET Nat /\ M # {}
      BY <1>0, <1>2, <2>1
    <3>2. \E i \in M : \A j \in M : i <= j
      BY <3>1, LeastNumber
    <3> QED
      BY <3>2
  <2> HIDE DEF first, r, n
  <2>4. /\ DOMAIN r = 1 .. n - 1
        /\ \A i \in 1 .. n - 1 : r[i] = IF i = first THEN ings[n] ELSE ings[i]
    BY <2>2
  <2>5. first \in 1 .. n /\ ings[first].uid = ing.uid
    BY <1>0, <2>1, <2>3
  <2>6. \A p \in ToSet(r) : p \in ToSet(ings)
    BY <2>1, <2>4 DEF ToSet
  <2>7. ASSUME NEW j \in 1 .. n, ings[j].uid # ing.uid PROVE ings[j] \in ToSet(r)
    <3>1. j # first
      BY <2>5, <2>7
    <3>2. CASE j = n
      <4>1. first \in 1 .. n - 1
        BY <2>1, <2>5, <3>1, <3>2
      <4>2. r[first] = ings[j]
        BY <2>4, <3>2, <4>1
      <4> QED
        BY <2>4, <4>1, <4>2 DEF ToSet
    <3>3. CASE j # n
      <4>1. j \in 1 .. n - 1
        BY <2>1, <3>3
      <4>2. r[j] = ings[j]
        BY <2>4, <3>1, <4>1
      <4> QED
        BY <2>4, <4>1, <4>2 DEF ToSet
    <3> QED
      BY <3>2, <3>3
  <2>8. ASSUME UniqueUids(ings), NEW i \in 1 .. n - 1 PROVE r[i].uid # ing.uid
    <3>1. CASE i = first
      <4>1. first # n /\ r[i] = ings[n] /\ n \in DOMAIN ings /\ first \in DOMAIN ings
        BY <2>1, <2>4, <2>5, <2>8, <3>1
      <4> QED
        BY <2>5, <2>8, <4>1 DEF UniqueUids
    <3>2. CASE i # first
      <4>1. r[i] = ings[i] /\ i \in DOMAIN ings /\ first \in DOMAIN ings
        BY <2>1, <2>4, <2>5, <3>2
      <4> QED
        BY <2>5, <2>8, <3>2, <4>1 DEF UniqueUids
    <3> QED
      BY <3>1, <3>2
  <2>9. \A p \in ToSet(ings) : p.uid # ing.uid => p \in ToSet(r)
    BY <2>1, <2>7 DEF ToSet
  <2>10. UniqueUids(ings) => \A p \in ToSet(r) : p.uid # ing.uid
    BY <2>4, <2>8 DEF ToSet
  <2> QED
    BY <2>6, <2>9, <2>10 DEF r
<1> QED
  BY <1>1, <1>2

\* What a handler does, whichever it is.
LEMMA HandlersFacts ==
    ASSUME Typed, OneInHand, Handlers
    PROVE  /\ up /\ worker = "handle" /\ worker' \in {"reload", "idle"} /\ action \in Actions
           /\ UNCHANGED <<cluster, rev, watch, cache, up>>
           /\ \/ queue' = queue /\ worker' = "reload" /\ action' = action
              \/ queue' = Done(queue, action) /\ worker' = "idle"
           /\ \/ /\ action.op \in {"add", "update"} /\ action.obj.kind = "ingress"
                 /\ store'.ingresses = AddIngress(store.ingresses, action.obj)
                 /\ store'.configMap = store.configMap
              \/ /\ action.op = "delete" /\ action.obj.kind = "ingress"
                 /\ store'.ingresses = PluckIngress(store.ingresses, action.obj)
                 /\ store'.configMap = store.configMap
              \/ /\ action.op \in {"add", "update"} /\ action.obj.kind = "configmap"
                 /\ store'.ingresses = store.ingresses
                 /\ ParseConfigMap(action.obj.content) # "error"
                 /\ store'.configMap = ParseConfigMap(action.obj.content)
              \/ /\ action.op \in {"add", "update"} /\ action.obj.kind = "configmap"
                 /\ ParseConfigMap(action.obj.content) = "error" /\ store' = store
              \/ /\ action.op = "delete" /\ action.obj.kind = "configmap"
                 /\ store'.ingresses = store.ingresses /\ store'.configMap = "nil"
              \/ action.op = "sync" /\ store' = store
<1>0. store = [ingresses |-> store.ingresses, configMap |-> store.configMap]
  BY DEF Typed, VarTypes, Stores
<1>1. worker = "handle" /\ (Handled \/ HandleFailed) /\ up
  <2>1. worker = "handle" /\ (Handled \/ HandleFailed)
    BY HandlersStore
  <2>2. up
    BY DEF Handlers, HandleIngressSet, HandleIngressDeleted, HandleConfigMapSet,
           HandleConfigMapDeleted, HandleSync, HandleSyncFails, Handling
  <2> QED
    BY <2>1, <2>2
<1>2. action \in Actions
  BY <1>1 DEF Typed, VarTypes
<1>3. /\ worker' \in {"reload", "idle"}
      /\ UNCHANGED <<cluster, rev, watch, cache, up>>
      /\ \/ queue' = queue /\ worker' = "reload" /\ action' = action
         \/ queue' = Done(queue, action) /\ worker' = "idle"
  BY <1>1 DEF Handled, HandleFailed, Return, handleErr, clusterVars, informerVars
<1>4. CASE HandleIngressSet
  <2>1. /\ action.op \in {"add", "update"} /\ action.obj.kind = "ingress"
        /\ store' = [store EXCEPT !.ingresses = AddIngress(@, action.obj)]
    BY <1>4 DEF HandleIngressSet, Handling
  <2>2. store'.ingresses = AddIngress(store.ingresses, action.obj) /\ store'.configMap = store.configMap
    BY <1>0, <2>1
  <2> QED
    BY <1>1, <1>2, <1>3, <2>1, <2>2
<1>5. CASE HandleIngressDeleted
  <2>1. /\ action.op = "delete" /\ action.obj.kind = "ingress"
        /\ store' = [store EXCEPT !.ingresses = PluckIngress(@, action.obj)]
    BY <1>5 DEF HandleIngressDeleted, Handling
  <2>2. store'.ingresses = PluckIngress(store.ingresses, action.obj) /\ store'.configMap = store.configMap
    BY <1>0, <2>1
  <2> QED
    BY <1>1, <1>2, <1>3, <2>1, <2>2
<1>6. CASE HandleConfigMapSet
  <2>1. action.op \in {"add", "update"} /\ action.obj.kind = "configmap"
    BY <1>6 DEF HandleConfigMapSet, Handling
  <2> DEFINE cfg == ParseConfigMap(action.obj.content)
  <2>2. \/ cfg # "error" /\ store' = [store EXCEPT !.configMap = cfg]
        \/ cfg = "error" /\ store' = store
    BY <1>6 DEF HandleConfigMapSet
  <2> HIDE DEF cfg
  <2>3. \/ cfg # "error" /\ store'.configMap = cfg /\ store'.ingresses = store.ingresses
        \/ cfg = "error" /\ store' = store
    BY <1>0, <2>2
  <2> QED
    BY <1>1, <1>2, <1>3, <2>1, <2>3 DEF cfg
<1>7. CASE HandleConfigMapDeleted
  <2>1. /\ action.op = "delete" /\ action.obj.kind = "configmap"
        /\ store' = [store EXCEPT !.configMap = "nil"]
    BY <1>7 DEF HandleConfigMapDeleted, Handling
  <2>2. store'.ingresses = store.ingresses /\ store'.configMap = "nil"
    BY <1>0, <2>1
  <2> QED
    BY <1>1, <1>2, <1>3, <2>1, <2>2
<1>8. CASE HandleSync \/ HandleSyncFails
  <2>1. action.op = "sync" /\ store' = store
    BY <1>8 DEF HandleSync, HandleSyncFails, SyncStatusAction
  <2> QED
    BY <1>1, <1>2, <1>3, <2>1
<1> QED
  BY <1>4, <1>5, <1>6, <1>7, <1>8 DEF Handlers

\* Done: the item in hand is put away; only a status update can be queued again.
LEMMA DoneFacts ==
    ASSUME Typed, OneInHand, worker # "idle", queue' = Done(queue, action), worker' = "idle"
    PROVE  /\ OneInHand' /\ Items' \subseteq Items
           /\ action \in Actions
           /\ \/ queue'.waiting = queue.waiting
              \/ queue'.waiting = Append(queue.waiting, action) /\ action.op = "sync"
<1>1. action \in Actions /\ queue.waiting \in Seq(Actions)
  BY MembersNow DEF MembersTyped, Typed, VarTypes
<1>2. queue.processing = {action}
  BY DEF OneInHand
<1>3. /\ queue'.processing = queue.processing \ {action} /\ queue'.dirty = queue.dirty
      /\ queue'.waiting = IF action \in queue.dirty THEN Append(queue.waiting, action)
                                                    ELSE queue.waiting
  BY DEF Done
<1>4. action \in queue.dirty => action.op = "sync"
  BY <1>2 DEF OneInHand
<1>5. ToSet(Append(queue.waiting, action)) = ToSet(queue.waiting) \cup {action}
  BY <1>1, SentPlaces
<1>6. Items' \subseteq Items
  BY <1>2, <1>3, <1>5 DEF Items
<1>7. OneInHand'
  BY <1>2, <1>3 DEF OneInHand
<1> QED
  BY <1>1, <1>3, <1>4, <1>6, <1>7

\* Get: the first item is in hand.
LEMMA GetFacts ==
    ASSUME Typed, OneInHand, GetItem
    PROVE  OneInHand' /\ Items' \subseteq Items
<1>1. /\ worker = "idle" /\ queue.waiting # <<>> /\ worker' = "handle"
      /\ action' = Head(queue.waiting) /\ queue' = Get(queue)
  BY DEF GetItem
<1>2. queue.processing = {}
  BY <1>1 DEF OneInHand
<1> DEFINE h == Head(queue.waiting)
<1>3. ToSet(queue.waiting) = {h} \cup ToSet(Tail(queue.waiting))
  BY <1>1, SentPlaces, MembersNow DEF MembersTyped
<1>4. /\ queue'.waiting = Tail(queue.waiting) /\ queue'.dirty = queue.dirty \ {h}
      /\ queue'.processing = queue.processing \cup {h}
  BY <1>1 DEF Get
<1> HIDE DEF h
<1>5. Items' \subseteq Items
  BY <1>2, <1>3, <1>4 DEF Items
<1>6. OneInHand'
  BY <1>1, <1>2, <1>4 DEF OneInHand, h
<1> QED
  BY <1>5, <1>6

\* The worker's steps are behind the informers.
LEMMA WorkerKeeps ==
    ASSUME Typed, OneInHand, Pipeline,
           \/ Handlers \/ GetItem \/ dispatchSync
           \/ worker # "idle" /\ Return(queue) /\ store' = store
    PROVE  Pipeline' /\ OneInHand'
<1>1. CASE Handlers
  <2>0. store.ingresses \in Seq(Objects)
    BY DEF Typed, VarTypes, Stores
  <2>1. OneInHand' /\ Items' \subseteq Items
    <3>1. CASE queue' = queue /\ worker' = "reload" /\ action' = action
      BY <1>1, <3>1, HandlersFacts DEF OneInHand, Items
    <3>2. CASE queue' = Done(queue, action) /\ worker' = "idle"
      BY <1>1, <3>2, HandlersFacts, DoneFacts
    <3> QED
      BY <1>1, <3>1, <3>2, HandlersFacts
  <2>2. UNCHANGED <<cluster, rev, watch, cache, up>>
    BY <1>1, HandlersFacts
  <2>3. action.op # "sync" => action \in Items /\ action.obj \in Objects
    <3>1. worker = "handle"
      BY <1>1, HandlersFacts
    <3>2. action.op # "sync" => action \in Items
      BY <3>1 DEF OneInHand, Items
    <3> QED
      BY <3>2, MembersNow, Fields DEF MembersTyped
  <2>4. \A p \in Stored' : p \in Stored \/ \E a \in Items : p = a.obj
    <3>1. CASE store'.ingresses = store.ingresses
      BY <3>1 DEF Stored
    <3>2. CASE action.op # "sync" /\ store'.ingresses = AddIngress(store.ingresses, action.obj)
      BY <2>0, <2>3, <3>2, AddIngressMembers DEF Stored
    <3>3. CASE store'.ingresses = PluckIngress(store.ingresses, action.obj)
      BY <2>0, <3>3, PluckIngressMembers DEF Stored
    <3> QED
      BY <1>1, <3>1, <3>2, <3>3, HandlersFacts
  <2> QED
    BY <2>1, <2>2, <2>4, BehindWatch
<1>2. CASE GetItem
  <2>1. UNCHANGED <<cluster, rev, watch, cache, up, store>>
    BY <1>2 DEF GetItem, clusterVars, informerVars
  <2>2. Stored' = Stored
    BY <2>1 DEF Stored
  <2> QED
    BY <1>2, <2>1, <2>2, GetFacts, BehindWatch
<1>3. CASE dispatchSync
  <2>1. /\ UNCHANGED <<cluster, rev, watch, cache, up, store, worker, action>>
        /\ queue' = Add(queue, SyncStatusAction)
    BY <1>3 DEF dispatchSync, clusterVars, informerVars
  <2>2. SyncStatusAction \in Actions /\ SyncStatusAction.op = "sync"
    BY ActionFacts DEF SyncStatusAction
  <2>3. OneInHand' /\ Items' \subseteq Items
    BY <2>1, <2>2, AddItems
  <2>4. Stored' = Stored
    BY <2>1 DEF Stored
  <2> QED
    BY <2>1, <2>3, <2>4, BehindWatch
<1>4. CASE worker # "idle" /\ Return(queue) /\ store' = store
  <2>1. /\ UNCHANGED <<cluster, rev, watch, cache, up, store>>
        /\ queue' = Done(queue, action) /\ worker' = "idle"
    BY <1>4 DEF Return, clusterVars, informerVars
  <2>2. OneInHand' /\ Items' \subseteq Items
    BY <1>4, <2>1, DoneFacts
  <2>3. Stored' = Stored
    BY <2>1 DEF Stored
  <2> QED
    BY <2>1, <2>2, <2>3, BehindWatch
<1> QED
  BY <1>1, <1>2, <1>3, <1>4
-----------------------------------------------------------------------------
(* The invariant holds.                                                    *)

\* The worker puts its item away and leaves the store alone.
Returns == up /\ worker = "reload" /\ Return(queue) /\ store' = store

\* The kinds of steps.
LEMMA NextCases ==
    ASSUME Typed, Down, OneOfName, [Next]_vars
    PROVE  \/ \E e \in Events : Change(e)
           \/ \E k \in Kinds : Take(k, Head(watch[k]))
           \/ \E c \in cache : Resync(c)
           \/ Relists /\ (WatchLoss \/ ~up)
           \/ Handlers \/ GetItem \/ dispatchSync \/ Returns
           \/ Die
           \/ UNCHANGED vars
<1>1. CASE Environment
  BY <1>1, EnvironmentChange
<1>2. CASE Informers
  <2>1. ASSUME NEW k \in Kinds, WatchBroken(k) PROVE Relists /\ WatchLoss
    BY <2>1, RelistsSteps DEF WatchBroken
  <2> QED
    BY <1>2, <2>1, HandleTakes DEF Informers
<1>3. CASE Reload
  BY <1>3 DEF Reload, ReloadPanics, ReloadError, ReloadSkipped, ReloadCaddy, LoadFails,
              Reloading, Finish, Returns
<1>4. CASE Start
  BY <1>4, RelistsSteps DEF Start
<1>5. CASE Crash
  BY <1>5 DEF Crash
<1> QED
  BY <1>1, <1>2, <1>3, <1>4, <1>5 DEF Next

\* The process that has died has nothing.
LEMMA DieFacts ==
    ASSUME Die
    PROVE  /\ ~up' /\ cluster' = cluster /\ rev' = rev
           /\ (\A k \in Kinds : watch'[k] = <<>> /\ Sent(k)' = {})
           /\ cache' = {} /\ queue' = EmptyQueue /\ store' = NewStore /\ worker' = "idle"
           /\ Items' = {} /\ Stored' = {}
<1>1. /\ ~up' /\ cluster' = cluster /\ rev' = rev
      /\ (\A k \in Kinds : watch'[k] = <<>>)
      /\ cache' = {} /\ queue' = EmptyQueue /\ store' = NewStore /\ worker' = "idle"
  BY DEF Die, ProcessState, clusterVars
<1>2. \A k \in Kinds : Sent(k)' = {}
  BY <1>1 DEF Sent, ToSet
<1>3. Items' = {} /\ Stored' = {}
  BY <1>1 DEF Items, Stored, EmptyQueue, NewStore, ToSet
<1> QED
  BY <1>1, <1>2, <1>3

\* Its death keeps the invariant.
LEMMA DieKeeps ==
    ASSUME Typed, Pipeline, Die
    PROVE  Down' /\ OneInHand' /\ Pipeline'
<1> USE DEF Pipeline
<1>1. Down'
  BY DieFacts DEF Down
<1>2. OneInHand'
  BY DieFacts DEF OneInHand, EmptyQueue
<1>3. Versions'
  <2>1. Known' \subseteq Known
    BY DieFacts, KnownParts, KnownNext
  <2> QED
    BY <2>1, DieFacts, VersionsKept
<1>4. OneOfName' /\ Informed' /\ WatchIsNews'
  BY DieFacts DEF OneOfName, Informed, WatchIsNews
<1>5. WatchInOrder'
  BY DieFacts DEF WatchInOrder, InOrder
<1> QED
  BY <1>1, <1>2, <1>3, <1>4, <1>5

\* A step that is not the death of the process leaves it as it is or starts it.
LEMMA DownKept ==
    ASSUME Typed, Down,
           \/ \E e \in Events : Change(e)
           \/ \E k \in Kinds : Take(k, Head(watch[k]))
           \/ \E c \in cache : Resync(c)
           \/ Relists
           \/ GetItem \/ dispatchSync \/ Returns
           \/ UNCHANGED vars
    PROVE  Down'
<1>1. ASSUME NEW e \in Events, Change(e) PROVE Down'
  BY <1>1 DEF Change, Publish, Down
<1>2. ASSUME NEW k \in Kinds, Take(k, Head(watch[k])) PROVE Down'
  BY <1>2 DEF Take, Down
<1>3. ASSUME NEW c \in cache, Resync(c) PROVE Down'
  BY <1>3 DEF Resync, Down
<1>4. CASE Relists
  BY <1>4 DEF Relists, Down
<1>5. CASE GetItem \/ dispatchSync \/ Returns
  BY <1>5 DEF GetItem, dispatchSync, Returns, Return, Down
<1>6. CASE UNCHANGED vars
  BY <1>6 DEF vars, Down
<1> QED
  BY <1>1, <1>2, <1>3, <1>4, <1>5, <1>6

\* Every step keeps the invariant.
LEMMA PipelineStep == PipelineInv /\ [Next]_vars => PipelineInv'
<1> SUFFICES ASSUME Typed, Down, OneInHand, Pipeline, [Next]_vars PROVE PipelineInv'
  BY DEF PipelineInv
<1>0. Typed'
  BY TypedStep
<1>1. ASSUME NEW e \in Events, Change(e) PROVE PipelineInv'
  <2>1. Pipeline' /\ Down'
    BY <1>0, <1>1, ChangeKeeps, DownKept
  <2>2. OneInHand'
    BY <1>1 DEF Change, OneInHand
  <2> QED
    BY <1>0, <2>1, <2>2 DEF PipelineInv
<1>2. ASSUME NEW k \in Kinds, Take(k, Head(watch[k])) PROVE PipelineInv'
  BY <1>0, <1>2, TakeKeeps, DownKept DEF PipelineInv
<1>3. ASSUME NEW c \in cache, Resync(c) PROVE PipelineInv'
  BY <1>0, <1>3, ResyncKeeps, DownKept DEF PipelineInv
<1>4. CASE Relists
  BY <1>0, <1>4, RelistsKeep, DownKept DEF PipelineInv
<1>5. CASE Handlers
  <2>1. Down'
    BY <1>5, HandlersFacts DEF Down
  <2> QED
    BY <1>0, <1>5, <2>1, WorkerKeeps DEF PipelineInv
<1>6. CASE GetItem \/ dispatchSync \/ Returns
  <2>1. Pipeline' /\ OneInHand'
    BY <1>6, WorkerKeeps DEF Returns
  <2> QED
    BY <1>0, <1>6, <2>1, DownKept DEF PipelineInv
<1>7. CASE Die
  BY <1>0, <1>7, DieKeeps DEF PipelineInv
<1>8. CASE UNCHANGED vars
  <2>1. Down' /\ OneInHand'
    BY <1>8 DEF vars, Down, OneInHand
  <2>2. Items' = Items /\ Stored' = Stored /\ UNCHANGED <<cluster, rev, watch, cache, up>>
    BY <1>8 DEF vars, Items, Stored
  <2>3. Pipeline'
    BY <2>2, BehindWatch
  <2> QED
    BY <1>0, <2>1, <2>3 DEF PipelineInv
<1> QED
  BY <1>1, <1>2, <1>3, <1>4, <1>5, <1>6, <1>7, <1>8, NextCases DEF Pipeline

\* The invariant holds when the process has never been started.
LEMMA PipelineInit == Init => PipelineInv
<1> SUFFICES ASSUME Init PROVE PipelineInv
  OBVIOUS
<1>1. /\ ~up /\ cluster = {} /\ cache = {} /\ queue = EmptyQueue /\ store = NewStore /\ worker = "idle"
      /\ \A k \in Kinds : watch[k] = <<>>
  BY DEF Init, ProcessState
<1>2. \A k \in Kinds : Sent(k) = {}
  BY <1>1 DEF Sent, ToSet
<1>3. Items = {} /\ Stored = {}
  BY <1>1 DEF Items, Stored, EmptyQueue, NewStore, ToSet
<1>4. Known = {}
  BY <1>1, <1>2, <1>3 DEF Known, Kinds
<1>5. Versions /\ OneOfName /\ Informed /\ WatchIsNews
  BY <1>1, <1>2, <1>3, <1>4 DEF Versions, OneOfName, Informed, WatchIsNews
<1>6. WatchInOrder
  BY <1>1 DEF WatchInOrder, InOrder
<1>7. Down /\ OneInHand
  BY <1>1 DEF Down, OneInHand, EmptyQueue
<1> QED
  BY <1>5, <1>6, <1>7, TypedInit DEF PipelineInv, Pipeline

\* Every state of the controller has its type, for any cluster, any bodies and any number of
\* changes; in particular the queue processes exactly the item processNextItem holds, so that
\* no item is held back behind one whose Done was forgotten.
THEOREM TypeCorrect == Spec => []TypeOK
<1>1. PipelineInv => TypeOK
  BY DEF PipelineInv, Typed, OneInHand, TypeOK
<1> QED
  BY <1>1, PipelineInit, PipelineStep, PTL DEF Spec
-----------------------------------------------------------------------------
(* What a step does to the fate of an object.                              *)

\* The words about an object: of the informer, and of the handlers.
LEMMA WordFacts ==
    ASSUME NEW o \in Objects
    PROVE  /\ \A e \in Events : e \in EventWords(o) <=>
                 /\ Managed(e.obj) /\ Topic(e.obj) = Topic(o)
                 /\ e.type = "deleted" \/ (e.type = "set" /\ ~Silent(e.obj))
           /\ \A e \in Events : e \in EventsFor(o) <=>
                 e \in EventWords(o) /\ e.type = "set" /\ e.obj = o
           /\ \A a \in ObjectActions : a \in ItemWords(o) <=>
                 Topic(a.obj) = Topic(o) /\ (a.op = "delete" \/ ~Silent(a.obj))
           /\ \A a \in ObjectActions : a \in ItemsFor(o) <=>
                 a \in ItemWords(o) /\ a.op # "delete" /\ a.obj = o
           /\ \A a \in Actions : a.op = "sync" => a \notin ItemWords(o)
<1>1. \A e \in Events : e = Event("set", o) <=> e.type = "set" /\ e.obj = o
  BY DEF Events, Event
<1>2. \A e \in Events : e \in EventWords(o) <=>
          /\ Managed(e.obj) /\ Topic(e.obj) = Topic(o)
          /\ e.type = "deleted" \/ (e.type = "set" /\ ~Silent(e.obj))
  BY DEF EventWords, EventDecides
<1>3. \A a \in ObjectActions : a \in Actions /\ a.op # "sync"
  BY Fields
<1>4. \A a \in ObjectActions : a \in ItemWords(o) <=>
          Topic(a.obj) = Topic(o) /\ (a.op = "delete" \/ ~Silent(a.obj))
  BY <1>3 DEF ItemWords, ItemDecides
<1>5. \A a \in Actions : a.op = "sync" => a \notin ItemWords(o)
  BY DEF ItemWords, ItemDecides
<1> QED
  BY <1>1, <1>2, <1>4, <1>5 DEF EventsFor, ItemsFor

\* Objects of one topic are of one kind; ingresses have one UID then.
LEMMA TopicFacts ==
    ASSUME NEW x, NEW y
    PROVE  /\ Topic(x) = Topic(y) => x.kind = y.kind
           /\ x.kind = "ingress" /\ y.kind = "ingress" => (Topic(x) = Topic(y) <=> x.uid = y.uid)
           /\ x.kind = "configmap" /\ y.kind = "configmap" => Topic(x) = Topic(y)
           /\ x.kind = "ingress" => ~Silent(x)
<1>1. Topic(x) = Topic(y) <=>
        /\ x.kind = y.kind
        /\ (IF x.kind = "ingress" THEN x.uid ELSE 0) = (IF y.kind = "ingress" THEN y.uid ELSE 0)
  BY DEF Topic
<1> QED
  BY <1>1 DEF Silent

\* Two managed objects of one topic have one name.
LEMMA SameTopic ==
    ASSUME Typed, Versions, NEW x \in Known, NEW y \in Known, Managed(x), Managed(y),
           Topic(x) = Topic(y)
    PROVE  SameName(x, y)
<1>1. x.kind = y.kind /\ x.kind \in Kinds
  BY TopicFacts, MembersNow, Fields DEF MembersTyped
<1>2. CASE x.kind = "ingress"
  BY <1>1, <1>2, TopicFacts DEF Versions
<1>3. CASE x.kind = "configmap"
  BY <1>1, <1>3 DEF Managed, isControllerConfigMap, SameName
<1> QED
  BY <1>1, <1>2, <1>3 DEF Kinds

\* WillBeStored, before and after a step.
LEMMA Fates ==
    ASSUME Typed, Typed', NEW o \in Objects
    PROVE  /\ WillBeStored(o) <=> Fate(watch[o.kind], queue.waiting, Hand, InStore(o), o)
           /\ WillBeStored(o)' <=> Fate(watch'[o.kind], queue'.waiting, Hand', InStore(o)', o)
           /\ watch[o.kind] \in Seq(Events) /\ queue.waiting \in Seq(Actions)
           /\ o.kind \in Kinds
BY FateNow, FateNext, MembersNow, Fields DEF FateHolds, MembersTyped

\* A change of the cluster: the event counts, if it is about the topic.
LEMMA ChangeFate ==
    ASSUME Typed, Typed', NEW e, Change(e), NEW o \in Objects
    PROVE  /\ ~up \/ e \notin EventWords(o) => (WillBeStored(o)' <=> WillBeStored(o))
           /\ up /\ e \in EventWords(o) => (WillBeStored(o)' <=> e \in EventsFor(o))
<1>1. /\ e \in Events /\ Publish(e) /\ UNCHANGED <<queue, store, worker, action>>
  BY DEF Change
<1>2. Hand' = Hand /\ InStore(o)' = InStore(o) /\ queue'.waiting = queue.waiting
  BY <1>1 DEF Hand, InStore
<1>3. watch \in [Kinds -> Seq(Events)] /\ e.obj.kind \in Kinds
  BY <1>1, Fields DEF Typed, VarTypes
<1>4. /\ ~up \/ e.obj.kind # o.kind => watch'[o.kind] = watch[o.kind]
      /\ up /\ e.obj.kind = o.kind => watch'[o.kind] = Append(watch[o.kind], e)
  BY <1>1, <1>3, Fates DEF Publish
<1>5. e \in EventWords(o) => e.obj.kind = o.kind
  BY <1>1, WordFacts, TopicFacts
<1>6. CASE watch'[o.kind] = watch[o.kind]
  BY <1>2, <1>4, <1>5, <1>6, Fates, FateOther, <1>1
<1>7. CASE watch'[o.kind] = Append(watch[o.kind], e) /\ up
  <2>1. e \notin EventWords(o) => (WillBeStored(o)' <=> WillBeStored(o))
    <3>1. e \notin EventWords(o) =>
            (Fate(Append(watch[o.kind], e), queue.waiting, Hand, InStore(o), o)
               <=> Fate(watch[o.kind], queue.waiting, Hand, InStore(o), o))
      BY <1>1, FateOther, Fates
    <3> QED
      BY <1>2, <1>7, <3>1, Fates
  <2>2. e \in EventWords(o) => (WillBeStored(o)' <=> e \in EventsFor(o))
    <3>1. e \in EventWords(o) =>
            (Fate(Append(watch[o.kind], e), queue.waiting, Hand, InStore(o), o)
               <=> e \in EventsFor(o))
      BY <1>1, FateWord, Fates
    <3> QED
      BY <1>2, <1>7, <3>1, Fates
  <2> QED
    BY <1>7, <2>1, <2>2
<1> QED
  BY <1>4, <1>6, <1>7

\* An informer takes an event: what it queues says the same.
LEMMA TakeFate ==
    ASSUME Typed, Typed', OneInHand, Pipeline, NEW k \in Kinds, NEW e, Take(k, e), NEW o \in Objects
    PROVE  WillBeStored(o)' <=> WillBeStored(o)
<1>0. /\ watch[k] # <<>> /\ e = Head(watch[k]) /\ watch' = [watch EXCEPT ![k] = Tail(@)]
      /\ UNCHANGED <<store, worker, action>>
      /\ \/ queue' = queue /\ (e.type = "gone" \/ ~Managed(e.obj))
         \/ /\ e.type # "gone" /\ Managed(e.obj)
            /\ \E a \in ObjectActions : /\ a.obj = e.obj /\ queue' = Add(queue, a)
                                        /\ a.op = "delete" <=> e.type = "deleted"
  BY DEF Take
<1>1. watch \in [Kinds -> Seq(Events)] /\ queue \in Queues
  BY DEF Typed, VarTypes
<1>2. e \in Events /\ e.obj.kind = k /\ e.type \in {"set", "deleted", "gone"}
  BY TakeFacts, Fields
<1>3. Hand' = Hand /\ InStore(o)' = InStore(o)
  BY <1>0 DEF Hand, InStore
<1>4. /\ o.kind = k => watch'[o.kind] = Tail(watch[o.kind])
      /\ o.kind # k => watch'[o.kind] = watch[o.kind]
  BY <1>0, <1>1, Fates
<1>5. CASE queue' = queue /\ (e.type = "gone" \/ ~Managed(e.obj))
  <2>1. e \notin EventWords(o)
    BY <1>2, <1>5, WordFacts
  <2>2. Fate(watch'[o.kind], queue.waiting, Hand, InStore(o), o)
          <=> Fate(watch[o.kind], queue.waiting, Hand, InStore(o), o)
    <3>1. CASE o.kind = k
      BY <1>0, <1>4, <2>1, <3>1, FateMove, Fates
    <3>2. CASE o.kind # k
      BY <1>4, <3>2
    <3> QED
      BY <3>1, <3>2
  <2> QED
    BY <1>3, <1>5, <2>2, Fates
<1>6. ASSUME NEW a \in ObjectActions, a.obj = e.obj, queue' = Add(queue, a),
             a.op = "delete" <=> e.type = "deleted", e.type # "gone", Managed(e.obj)
      PROVE  WillBeStored(o)' <=> WillBeStored(o)
  <2>1. a \in Actions /\ a.op # "sync" /\ a \notin Items
    BY <1>6, TakeFacts, Fields
  <2>2. a \notin queue.dirty \cup queue.processing
    BY <2>1 DEF Items
  <2>3. queue'.waiting = Append(queue.waiting, a)
    BY <1>1, <1>6, <2>1, <2>2, AddFields
  <2>4. e.type = "set" <=> a.op # "delete"
    BY <1>2, <1>6
  <2>5. e \in EventWords(o) <=> a \in ItemWords(o)
    BY <1>2, <1>6, <2>4, WordFacts
  <2>6. e \in EventsFor(o) <=> a \in ItemsFor(o)
    BY <1>2, <1>6, <2>4, <2>5, WordFacts
  <2>7. Fate(watch'[o.kind], queue'.waiting, Hand, InStore(o), o)
          <=> Fate(watch[o.kind], queue.waiting, Hand, InStore(o), o)
    <3>1. CASE o.kind = k
      <4>1. Fate(Tail(watch[k]), Append(queue.waiting, a), Hand, InStore(o), o)
              <=> Fate(watch[k], queue.waiting, Hand, InStore(o), o)
        BY <1>0, <2>1, <2>5, <2>6, <3>1, FateMove, Fates
      <4> QED
        BY <1>4, <2>3, <3>1, <4>1
    <3>2. CASE o.kind # k
      <4>1. a \notin ItemWords(o)
        BY <1>2, <1>6, <3>2, WordFacts, TopicFacts
      <4> QED
        BY <1>4, <2>1, <2>3, <3>2, <4>1, FateQueueOther, Fates
    <3> QED
      BY <3>1, <3>2
  <2> QED
    BY <1>3, <2>7, Fates
<1> QED
  BY <1>0, <1>5, <1>6

\* A replay counts when nothing newer is on the watch.
LEMMA ResyncFate ==
    ASSUME Typed, Typed', NEW c \in cache, Resync(c), NEW o \in Objects
    PROVE  \/ WillBeStored(o)' <=> WillBeStored(o)
           \/ /\ Managed(c) /\ Topic(c) = Topic(o) /\ ~Silent(c)
              /\ NoWord(watch[o.kind], EventWords(o))
              /\ WillBeStored(o)' <=> c = o
<1> DEFINE r == [op |-> "update", obj |-> c, old |-> c]
<1>0. /\ UNCHANGED <<watch, store, worker, action>>
      /\ queue' = IF Managed(c) THEN Add(queue, r) ELSE queue
      /\ r \notin queue.dirty \cup queue.processing
  BY DEF Resync, UpdateFunc, informerVars
<1>1. c \in Objects /\ queue \in Queues
  BY MembersNow DEF MembersTyped
<1>2. r \in ObjectActions /\ r \in Actions /\ r.obj = c /\ r.op = "update"
  BY <1>1 DEF ObjectActions, Actions
<1> HIDE DEF r
<1>3. Hand' = Hand /\ InStore(o)' = InStore(o)
  BY <1>0 DEF Hand, InStore
<1>4. CASE ~Managed(c)
  BY <1>0, <1>3, <1>4, Fates
<1>5. CASE Managed(c)
  <2>1. queue'.waiting = Append(queue.waiting, r)
    BY <1>0, <1>1, <1>2, <1>5, AddFields
  <2> DEFINE F == Fate(watch[o.kind], queue.waiting, Hand, InStore(o), o)
             G == Fate(watch[o.kind], Append(queue.waiting, r), Hand, InStore(o), o)
  <2>4. (WillBeStored(o) <=> F) /\ (WillBeStored(o)' <=> G)
    BY <1>0, <1>3, <2>1, Fates
  <2>2. CASE r \notin ItemWords(o)
    <3>1. G <=> F
      BY <1>2, <2>2, Fates, FateQueueOther
    <3> HIDE DEF F, G
    <3> QED
      BY <2>4, <3>1
  <2>3. CASE r \in ItemWords(o)
    <3>1. Topic(c) = Topic(o) /\ ~Silent(c) /\ (r \in ItemsFor(o) <=> c = o)
      BY <1>2, <2>3, WordFacts
    <3>2. CASE NoWord(watch[o.kind], EventWords(o))
      <4>1. G <=> r \in ItemsFor(o)
        BY <1>2, <2>3, <3>2, Fates, FateQueueWord
      <4> HIDE DEF F, G
      <4> QED
        BY <1>5, <2>4, <3>1, <3>2, <4>1
    <3>3. CASE ~NoWord(watch[o.kind], EventWords(o))
      <4>1. G <=> F
        BY <1>2, <2>3, <3>3, Fates, FateQueueWord
      <4> HIDE DEF F, G
      <4> QED
        BY <2>4, <4>1
    <3> QED
      BY <3>2, <3>3
  <2> QED
    BY <2>2, <2>3
<1> QED
  BY <1>4, <1>5

\* The worker takes an item in hand.
LEMMA GetFate ==
    ASSUME Typed, Typed', GetItem, NEW o \in Objects
    PROVE  WillBeStored(o)' <=> WillBeStored(o)
<1>1. /\ worker = "idle" /\ queue.waiting # <<>> /\ worker' = "handle"
      /\ action' = Head(queue.waiting) /\ queue'.waiting = Tail(queue.waiting)
      /\ watch' = watch /\ store' = store
  BY DEF GetItem, Get, informerVars
<1>2. Hand = {} /\ Hand' = {Head(queue.waiting)} /\ InStore(o)' = InStore(o)
  BY <1>1 DEF Hand, InStore
<1>3. Fate(watch[o.kind], Tail(queue.waiting), {Head(queue.waiting)}, InStore(o), o)
        <=> Fate(watch[o.kind], queue.waiting, {}, InStore(o), o)
  BY <1>1, Fates, FateTake
<1> QED
  BY <1>1, <1>2, <1>3, Fates

\* A status update is queued, or the item in hand is put away.
LEMMA QuietFate ==
    ASSUME Typed, Typed', OneInHand, dispatchSync \/ Returns, NEW o \in Objects
    PROVE  WillBeStored(o)' <=> WillBeStored(o)
<1>1. watch' = watch /\ store' = store
  BY DEF dispatchSync, Returns, Return, informerVars
<1>2. Hand' = Hand /\ InStore(o)' = InStore(o)
  BY <1>1 DEF Hand, InStore, dispatchSync, Returns, Return
<1>3. \/ queue'.waiting = queue.waiting
      \/ \E a \in Actions : queue'.waiting = Append(queue.waiting, a) /\ a.op = "sync"
  <2>1. CASE dispatchSync
    <3>1. SyncStatusAction \in Actions /\ SyncStatusAction.op = "sync"
      BY ActionFacts DEF SyncStatusAction
    <3>2. queue' = Add(queue, SyncStatusAction) /\ queue \in Queues
      BY <2>1, MembersNow DEF dispatchSync, MembersTyped
    <3> QED
      BY <3>1, <3>2, AddFields
  <2>2. CASE Returns
    <3>1. worker # "idle" /\ queue' = Done(queue, action) /\ worker' = "idle"
      BY <2>2 DEF Returns, Return
    <3> QED
      BY <3>1, DoneFacts
  <2> QED
    BY <2>1, <2>2
<1>4. Fate(watch[o.kind], queue'.waiting, Hand, InStore(o), o)
        <=> Fate(watch[o.kind], queue.waiting, Hand, InStore(o), o)
  <2>1. CASE queue'.waiting = queue.waiting
    BY <2>1
  <2>2. ASSUME NEW a \in Actions, queue'.waiting = Append(queue.waiting, a), a.op = "sync"
        PROVE  Fate(watch[o.kind], queue'.waiting, Hand, InStore(o), o)
                 <=> Fate(watch[o.kind], queue.waiting, Hand, InStore(o), o)
    <3>1. a \notin ItemWords(o)
      BY <2>2, WordFacts
    <3> QED
      BY <2>2, <3>1, Fates, FateQueueOther
  <2> QED
    BY <1>3, <2>1, <2>2
<1> QED
  BY <1>1, <1>2, <1>4, Fates

\* What handling the item in hand does to the store.
LEMMA HandlersStored ==
    ASSUME Typed, OneInHand, Handlers, NEW o \in Objects
    PROVE  /\ action \in ItemsFor(o) => InStore(o)'
           /\ action \notin ItemWords(o) => (InStore(o) => InStore(o)')
           /\ o.kind = "ingress" /\ StoreUnique =>
                 /\ action \in ItemWords(o) => (InStore(o)' => action \in ItemsFor(o))
                 /\ action \notin ItemWords(o) => (InStore(o)' => InStore(o))
<1>0. store.ingresses \in Seq(Objects) /\ o.kind \in Kinds /\ action \in Actions
  BY HandlersFacts, Fields DEF Typed, VarTypes, Stores
<1>1. CASE action.op = "sync"
  <2>1. store' = store /\ action \notin ItemWords(o) /\ action \notin ItemsFor(o)
    BY <1>0, <1>1, HandlersFacts, WordFacts, WordsFor
  <2>2. InStore(o)' <=> InStore(o)
    BY <2>1 DEF InStore
  <2> QED
    BY <2>1, <2>2
<1>2. ASSUME action.op # "sync"
      PROVE  /\ action \in ObjectActions /\ action.obj \in Objects /\ action.op \in {"add", "update", "delete"}
             /\ action \in ItemWords(o) <=>
                  Topic(action.obj) = Topic(o) /\ (action.op = "delete" \/ ~Silent(action.obj))
             /\ action \in ItemsFor(o) <=>
                  action \in ItemWords(o) /\ action.op # "delete" /\ action.obj = o
  BY <1>0, <1>2, Fields, WordFacts
<1>3. CASE action.op # "sync" /\ o.kind = "ingress"
  <2>1. (InStore(o) <=> o \in Stored) /\ (InStore(o)' <=> o \in Stored')
    BY <1>3 DEF InStore, Stored
  <2>2. CASE action.obj.kind = "configmap"
    <3>1. store'.ingresses = store.ingresses
      BY <1>3, <2>2, HandlersFacts
    <3>2. Stored' = Stored
      BY <3>1 DEF Stored
    <3>3. action \notin ItemWords(o) /\ action \notin ItemsFor(o)
      BY <1>2, <1>3, <2>2, TopicFacts
    <3> QED
      BY <2>1, <3>2, <3>3
  <2>3. CASE action.obj.kind = "ingress"
    <3>1. action \in ItemWords(o) <=> action.obj.uid = o.uid
      BY <1>2, <1>3, <2>3, TopicFacts
    <3>2. CASE action.op = "delete"
      <4>1. store'.ingresses = PluckIngress(store.ingresses, action.obj)
        BY <2>3, <3>2, HandlersFacts
      <4>2. /\ o \in Stored' => o \in Stored
            /\ o \in Stored /\ o.uid # action.obj.uid => o \in Stored'
            /\ StoreUnique => (o \in Stored' => o.uid # action.obj.uid)
        BY <1>0, <4>1, PluckIngressMembers DEF Stored, StoreUnique
      <4>3. action \notin ItemsFor(o)
        BY <1>2, <1>3, <3>2
      <4> QED
        BY <2>1, <3>1, <4>2, <4>3
    <3>3. CASE action.op # "delete"
      <4>1. store'.ingresses = AddIngress(store.ingresses, action.obj)
        BY <1>2, <1>3, <2>3, <3>3, HandlersFacts
      <4>2. o \in Stored' <=> o = action.obj \/ (o \in Stored /\ o.uid # action.obj.uid)
        BY <1>0, <1>2, <1>3, <4>1, AddIngressMembers DEF Stored
      <4> QED
        BY <1>2, <1>3, <2>1, <3>1, <3>3, <4>2
    <3> QED
      BY <3>2, <3>3
  <2> QED
    BY <1>2, <1>3, <2>2, <2>3, Fields DEF Kinds
<1>4. CASE action.op # "sync" /\ o.kind = "configmap"
  <2>1. /\ InStore(o) <=> store.configMap = ParseConfigMap(o.content)
        /\ InStore(o)' <=> store'.configMap = ParseConfigMap(o.content)
    BY <1>4 DEF InStore
  <2>2. CASE action.obj.kind = "ingress"
    <3>1. store'.configMap = store.configMap
      BY <1>4, <2>2, HandlersFacts
    <3>2. action \notin ItemWords(o) /\ action \notin ItemsFor(o)
      BY <1>2, <1>4, <2>2, TopicFacts
    <3> QED
      BY <1>4, <2>1, <3>1, <3>2
  <2>3. CASE action.obj.kind = "configmap"
    <3>1. Topic(action.obj) = Topic(o)
      BY <1>4, <2>3, TopicFacts
    <3>2. Silent(action.obj) <=> ParseConfigMap(action.obj.content) = "error"
      BY <2>3 DEF Silent
    <3>3. CASE action \in ItemsFor(o)
      <4>1. action.op \in {"add", "update"} /\ action.obj = o /\ ~Silent(action.obj)
        BY <1>2, <1>4, <3>3
      <4>2. store'.configMap = ParseConfigMap(o.content)
        BY <2>3, <3>2, <4>1, HandlersFacts
      <4> QED
        BY <1>4, <2>1, <3>3, <4>2, WordsFor
    <3>4. CASE action \notin ItemWords(o)
      <4>1. action.op # "delete" /\ Silent(action.obj)
        BY <1>2, <1>4, <3>1, <3>4
      <4>2. store' = store
        BY <1>4, <2>3, <3>2, <4>1, HandlersFacts
      <4> QED
        BY <1>4, <2>1, <3>4, <4>2, WordsFor
    <3> QED
      BY <1>4, <3>3, <3>4
  <2> QED
    BY <1>2, <1>4, <2>2, <2>3, Fields DEF Kinds
<1> QED
  BY <1>0, <1>1, <1>3, <1>4 DEF Kinds

\* The item in hand is handled: what was to be stored is stored, and of an ingress no
\* more than that.
LEMMA HandlersFate ==
    ASSUME Typed, Typed', OneInHand, Handlers, NEW o \in Objects
    PROVE  /\ WillBeStored(o) => WillBeStored(o)'
           /\ o.kind = "ingress" /\ StoreUnique => (WillBeStored(o)' => WillBeStored(o))
<1>0. worker = "handle" /\ worker' # "handle" /\ watch' = watch /\ action \in Actions
  BY HandlersFacts
<1>1. Hand = {action} /\ Hand' = {}
  BY <1>0 DEF Hand
<1> DEFINE w == watch[o.kind]
           q == queue.waiting
<1>3. Fate(w, queue'.waiting, {}, InStore(o)', o) <=> Fate(w, q, {}, InStore(o)', o)
  <2>1. CASE queue' = queue
    BY <2>1
  <2>2. CASE queue' = Done(queue, action) /\ worker' = "idle"
    <3>1. \/ queue'.waiting = q
          \/ queue'.waiting = Append(q, action) /\ action.op = "sync"
      BY <1>0, <2>2, DoneFacts
    <3>2. action.op = "sync" => action \notin ItemWords(o)
      BY <1>0, WordFacts
    <3>3. action.op = "sync" => (Fate(w, Append(q, action), {}, InStore(o)', o)
                                   <=> Fate(w, q, {}, InStore(o)', o))
      BY <1>0, <3>2, Fates, FateQueueOther
    <3> QED
      BY <3>1, <3>3
  <2> QED
    BY <2>1, <2>2, HandlersFacts
<1>4. (WillBeStored(o) <=> Fate(w, q, {action}, InStore(o), o))
      /\ (WillBeStored(o)' <=> Fate(w, q, {}, InStore(o)', o))
  BY <1>0, <1>1, <1>3, Fates
<1>5. Fate(w, q, {action}, InStore(o), o) => Fate(w, q, {}, InStore(o)', o)
  BY HandlersStored, FateHandled
<1>6. o.kind = "ingress" /\ StoreUnique =>
        (Fate(w, q, {}, InStore(o)', o) => Fate(w, q, {action}, InStore(o), o))
  BY HandlersStored, FateHandledBack
<1> HIDE DEF w, q
<1> QED
  BY <1>4, <1>5, <1>6

\* An object whose present version is cached has no word on the watch.
LEMMA CachedIsQuiet ==
    ASSUME Typed, Pipeline, NEW o \in cache, o \in cluster, Managed(o)
    PROVE  NoWord(watch[o.kind], EventWords(o))
<1>1. SUFFICES ASSUME NEW i \in DOMAIN watch[o.kind], watch[o.kind][i] \in EventWords(o) PROVE FALSE
  BY DEF NoWord
<1> DEFINE e == watch[o.kind][i]
<1>2. o \in Objects /\ o.kind \in Kinds
  BY MembersNow, Fields DEF MembersTyped
<1>3. e \in Sent(o.kind)
  BY DEF Sent, ToSet
<1>4. e \in Events /\ e.obj \in Known /\ o \in Known /\ News(e)
  BY <1>2, <1>3, MembersNow, KnownParts DEF MembersTyped, Pipeline, WatchIsNews
<1> HIDE DEF e
<1>5. Managed(e.obj) /\ Topic(e.obj) = Topic(o)
  BY <1>1, <1>2, <1>4, WordFacts DEF e
<1>6. SameName(e.obj, o)
  BY <1>4, <1>5, SameTopic DEF Pipeline
<1> QED
  BY <1>4, <1>6 DEF News

\* A new list: an object that is not cached is listed, and nothing else is about it; one
\* that is cached is not told again.
LEMMA RelistFate ==
    ASSUME Typed, Typed', Down, Pipeline, Relists, NEW o \in cluster, Managed(o), ~Silent(o),
           up => WillBeStored(o)
    PROVE  WillBeStored(o)'
<1> DEFINE k == o.kind
           es == watch'[k]
<1>0. /\ UNCHANGED <<cluster, cache, queue, store, worker, action>>
      /\ Relist(k, es) \/ (up /\ es = watch[k])
      /\ o \in Objects /\ k \in Kinds /\ o \in Known
  BY MembersNow, Fields, KnownParts DEF Relists, MembersTyped
<1>1. Hand' = Hand /\ InStore(o)' = InStore(o) /\ queue'.waiting = queue.waiting
  BY <1>0 DEF Hand, InStore
<1>2. CASE up /\ es = watch[k]
  BY <1>0, <1>1, <1>2, Fates
<1>3. ASSUME Relist(k, es), NEW i \in DOMAIN es, es[i] \in EventWords(o)
      PROVE  es[i] = Event("set", o) /\ o \notin cache
  <2>1. es[i] \in Events
    BY <1>3 DEF Relist
  <2>2. es[i].type # "gone" /\ Managed(es[i].obj) /\ Topic(es[i].obj) = Topic(o)
    BY <1>0, <1>3, <2>1, WordFacts
  <2>7. \A c : Event("gone", c).type = "gone"
    BY DEF Event
  <2>8. \/ \E y \in Listed(k) \ cache : es[i] = Event("set", y)
        \/ \E c \in cache : es[i] = Event("gone", c)
    BY <1>3 DEF Relist
  <2>3. PICK y \in Listed(k) \ cache : es[i] = Event("set", y)
    BY <2>2, <2>7, <2>8
  <2>4. es[i].obj = y /\ y \in cluster /\ y \notin cache
    BY <2>3 DEF Event, Listed
  <2>5. SameName(y, o)
    BY <1>0, <2>2, <2>4, SameTopic, KnownParts DEF Pipeline
  <2>6. y = o
    BY <2>4, <2>5 DEF Pipeline, OneOfName
  <2> QED
    BY <2>3, <2>4, <2>6
<1>4. CASE Relist(k, es) /\ o \in cache
  <2>1. NoWord(es, EventWords(o))
    BY <1>3, <1>4 DEF NoWord
  <2>2. NoWord(watch[k], EventWords(o))
    BY <1>4, CachedIsQuiet
  <2>3. up
    BY <1>4 DEF Down
  <2>4. ~LastWord(watch[k], EventWords(o), EventsFor(o)) /\ ~LastWord(es, EventWords(o), EventsFor(o))
    BY <2>1, <2>2, NoLastWord, WordsFor
  <2> HIDE DEF es
  <2>5. Fate(es, queue.waiting, Hand, InStore(o), o)
          <=> Fate(watch[k], queue.waiting, Hand, InStore(o), o)
    BY <2>1, <2>2, <2>4 DEF Fate
  <2> QED
    BY <1>0, <1>1, <2>3, <2>5, Fates DEF es
<1>5. CASE Relist(k, es) /\ o \notin cache
  <2>1. PICK i \in DOMAIN es : es[i] = Event("set", o)
    BY <1>0, <1>5 DEF Relist, Listed
  <2>2. Event("set", o) \in Events /\ Event("set", o).type = "set" /\ Event("set", o).obj = o
    BY <1>0, EventType DEF Event
  <2>3. Event("set", o) \in EventsFor(o)
    BY <1>0, <2>2, WordFacts
  <2>4. \A j \in DOMAIN es : es[j] \in EventWords(o) => j = i
    BY <1>3, <1>5, <2>1, <2>2 DEF Relist
  <2>5. i \in Nat
    BY <1>5 DEF Relist
  <2>6. \A j \in DOMAIN es : es[j] \in EventWords(o) => j <= i
    BY <2>4, <2>5
  <2>7. LastWord(es, EventWords(o), EventsFor(o))
    BY <2>1, <2>3, <2>6 DEF LastWord
  <2> QED
    BY <1>0, <2>7, Fates DEF Fate
<1> QED
  BY <1>0, <1>2, <1>4, <1>5
-----------------------------------------------------------------------------
(* Nothing is lost.                                                        *)

\* NothingLost and OptionsCurrent in one: the objects that say something.
AllArrive == up => \A o \in cluster : Managed(o) /\ ~Silent(o) => WillBeStored(o)

\* A step keeps every managed object on its way.
LEMMA ArriveStep == PipelineInv /\ AllArrive /\ [Next]_vars => AllArrive'
<1> SUFFICES ASSUME PipelineInv, AllArrive, [Next]_vars, up', NEW o \in cluster', Managed(o), ~Silent(o)
             PROVE  WillBeStored(o)'
  BY DEF AllArrive, Managed, isControllerIngress, isControllerConfigMap, Silent
<1>0. Typed /\ Typed' /\ Down /\ OneInHand /\ Pipeline /\ Versions
  BY TypedStep DEF PipelineInv, Pipeline
<1>1. o \in Objects
  BY <1>0, MembersNext DEF MembersTyped
<1>2. up /\ o \in cluster => WillBeStored(o)
  BY DEF AllArrive
<1>3. ASSUME NEW e \in Events, Change(e) PROVE WillBeStored(o)'
  <2>1. up
    BY <1>3 DEF Change
  <2>2. CASE o \in cluster /\ ~SameName(o, e.obj)
    <3>1. e \notin EventWords(o)
      <4>1. SUFFICES ASSUME e \in EventWords(o) PROVE FALSE
        OBVIOUS
      <4>2. Managed(e.obj) /\ Topic(e.obj) = Topic(o)
        BY <1>1, <4>1, WordFacts
      <4>3. e.obj.kind = o.kind /\ o.kind \in Kinds
        BY <1>1, <4>2, TopicFacts, Fields
      <4>4. CASE o.kind = "ingress"
        BY <1>0, <1>3, <2>2, <4>2, <4>3, <4>4, TopicFacts, ChangeFacts, KnownParts
      <4>5. CASE o.kind = "configmap"
        BY <2>2, <4>2, <4>3, <4>5 DEF Managed, isControllerConfigMap, SameName
      <4> QED
        BY <4>3, <4>4, <4>5 DEF Kinds
    <3> QED
      BY <1>0, <1>1, <1>2, <1>3, <2>1, <2>2, <3>1, ChangeFate
  <2>3. CASE e = Event("set", o)
    <3>1. e.type = "set" /\ e.obj = o
      BY <2>3 DEF Event
    <3>2. e \in EventWords(o) /\ e \in EventsFor(o)
      BY <1>1, <3>1, WordFacts
    <3> QED
      BY <1>0, <1>1, <1>3, <2>1, <3>2, ChangeFate
  <2> QED
    BY <1>3, <2>2, <2>3 DEF Change
<1>4. ASSUME NEW k \in Kinds, Take(k, Head(watch[k])) PROVE WillBeStored(o)'
  <2>1. up /\ cluster' = cluster
    BY <1>4 DEF Take
  <2> QED
    BY <1>0, <1>1, <1>2, <1>4, <2>1, TakeFate
<1>5. ASSUME NEW c \in cache, Resync(c) PROVE WillBeStored(o)'
  <2>1. up /\ cluster' = cluster
    BY <1>5 DEF Resync, clusterVars
  <2>2. WillBeStored(o)
    BY <1>2, <2>1
  <2>3. SUFFICES ASSUME Managed(c), Topic(c) = Topic(o), NoWord(watch[o.kind], EventWords(o)),
                        WillBeStored(o)' <=> c = o
                 PROVE  c = o
    BY <1>0, <1>1, <1>5, <2>2, ResyncFate
  <2>4. o \in cache
    <3>1. SUFFICES ASSUME Event("set", o) \in Sent(o.kind) PROVE FALSE
      BY <1>0, <2>1 DEF Pipeline, Informed
    <3>2. Event("set", o) \in Events /\ Event("set", o).type = "set" /\ Event("set", o).obj = o
      BY <1>1, EventType DEF Event
    <3>3. Event("set", o) \in EventWords(o)
      BY <1>1, <3>2, WordFacts
    <3> QED
      BY <2>3, <3>1, <3>3 DEF NoWord, Sent, ToSet
  <2>5. SameName(c, o)
    BY <1>0, <2>3, <2>4, SameTopic, KnownParts
  <2> QED
    BY <1>0, <2>4, <2>5 DEF Pipeline, OneOfName
<1>6. CASE Relists
  <2>1. cluster' = cluster
    BY <1>6 DEF Relists
  <2> QED
    BY <1>0, <1>2, <1>6, <2>1, RelistFate
<1>7. CASE Handlers
  BY <1>0, <1>1, <1>2, <1>7, HandlersFate, HandlersFacts
<1>8. CASE GetItem
  <2>1. up /\ cluster' = cluster
    BY <1>8 DEF GetItem, clusterVars
  <2> QED
    BY <1>0, <1>1, <1>2, <1>8, <2>1, GetFate
<1>9. CASE dispatchSync \/ Returns
  <2>1. up /\ cluster' = cluster
    BY <1>9 DEF dispatchSync, Returns, Return, clusterVars
  <2> QED
    BY <1>0, <1>1, <1>2, <1>9, <2>1, QuietFate
<1>10. CASE UNCHANGED vars
  <2>1. up /\ cluster' = cluster
    BY <1>10 DEF vars
  <2>2. WillBeStored(o)' <=> WillBeStored(o)
    BY <1>10 DEF vars, WillBeStored, WatchWords, QueueWords, InHand, InStore
  <2> QED
    BY <1>2, <2>1, <2>2
<1>11. CASE Die
  BY <1>11, DieFacts
<1> QED
  BY <1>0, <1>3, <1>4, <1>5, <1>6, <1>7, <1>8, <1>9, <1>10, <1>11, NextCases DEF Pipeline

\* Both hold together from the beginning.
LEMMA ArriveAlways == Spec => [](PipelineInv /\ AllArrive)
<1>1. Init => AllArrive
  BY DEF Init, AllArrive
<1> QED
  BY <1>1, PipelineInit, PipelineStep, ArriveStep, PTL DEF Spec

\* Whatever the users of the cluster do, however often a watch breaks, the informer
\* replays its cache or the process is killed, and however many objects there are: each
\* ingress of ours is in the store in its present version, or the last thing under way about it
\* brings that version.
THEOREM NothingIsLost == Spec => []NothingLost
<1>1. AllArrive => NothingLost
  BY TopicFacts DEF AllArrive, NothingLost, Ours, Listed
<1> QED
  BY <1>1, ArriveAlways, PTL

\* The same of the options in our ConfigMap, where they can be parsed.
THEOREM OptionsStayCurrent == Spec => []OptionsCurrent
<1>1. AllArrive => OptionsCurrent
  BY DEF AllArrive, OptionsCurrent, Ours, Listed
<1> QED
  BY <1>1, ArriveAlways, PTL
-----------------------------------------------------------------------------
(* The order of the versions in the queue.                                 *)

SetItem(a) == a.op \in {"add", "update"}

\* b does not bring an older version than a.
Later(a, b) ==
    SetItem(a) /\ SetItem(b) /\ a.obj.uid = b.obj.uid => a.obj.rv <= b.obj.rv

InLine(s) == \A i, j \in DOMAIN s : i < j => Later(s[i], s[j])

\* The items that still bring a version to the store.
Due == {a \in ToSet(queue.waiting) \cup Hand : SetItem(a)}

\* From the store over the item in hand and along the queue to the cache, the versions of
\* an object do not become older.
QueueInLine ==
    /\ InLine(queue.waiting)
    /\ \A h \in Hand, a \in ToSet(queue.waiting) : Later(h, a)

DueInLine ==
    /\ \A a \in Due, c \in cache : a.obj.uid = c.uid => a.obj.rv <= c.rv
    /\ \A a \in Due, p \in Stored : p.uid = a.obj.uid => p.rv <= a.obj.rv
    /\ \A c \in cache, p \in Stored : p.uid = c.uid => p.rv <= c.rv

InLineInv == QueueInLine /\ DueInLine

\* An item that is no earlier than all the others is appended.
LEMMA InLineAppend ==
    ASSUME NEW T, NEW s \in Seq(T), NEW b \in T, InLine(s), \A a \in ToSet(s) : Later(a, b)
    PROVE  InLine(Append(s, b))
<1> DEFINE t == Append(s, b)
           n == Len(s) + 1
<1>1. /\ DOMAIN t = DOMAIN s \cup {n} /\ t[n] = b /\ n \in Nat
      /\ \A i \in DOMAIN s : t[i] = s[i] /\ i < n /\ i \in Nat
  BY AppendPlaces
<1> HIDE DEF t, n
<1>2. ASSUME NEW i \in DOMAIN t, NEW j \in DOMAIN t, i < j PROVE Later(t[i], t[j])
  <2>1. i \in DOMAIN s
    BY <1>1, <1>2
  <2>2. CASE j \in DOMAIN s
    BY <1>1, <1>2, <2>1, <2>2 DEF InLine
  <2>3. CASE j = n
    <3>1. s[i] \in ToSet(s)
      BY <2>1 DEF ToSet
    <3> QED
      BY <1>1, <2>1, <2>3, <3>1
  <2> QED
    BY <1>1, <2>2, <2>3
<1> QED
  BY <1>2 DEF InLine, t

\* The first item is taken: none of the others is earlier.
LEMMA InLineTail ==
    ASSUME NEW T, NEW s \in Seq(T), s # <<>>, InLine(s)
    PROVE  /\ InLine(Tail(s))
           /\ \A a \in ToSet(Tail(s)) : Later(Head(s), a)
<1> DEFINE t == Tail(s)
<1>1. /\ 1 \in DOMAIN s /\ s[1] = Head(s)
      /\ \A i \in DOMAIN t : i \in Nat /\ i + 1 \in DOMAIN s /\ t[i] = s[i + 1] /\ 1 < i + 1
  BY TailPlaces
<1> HIDE DEF t
<1>2. ASSUME NEW i \in DOMAIN t, NEW j \in DOMAIN t, i < j PROVE Later(t[i], t[j])
  <2>1. i + 1 \in DOMAIN s /\ j + 1 \in DOMAIN s /\ i + 1 < j + 1
    BY <1>1, <1>2
  <2> QED
    BY <1>1, <2>1 DEF InLine
<1>3. ASSUME NEW j \in DOMAIN t PROVE Later(Head(s), t[j])
  BY <1>1 DEF InLine
<1> QED
  BY <1>2, <1>3 DEF InLine, ToSet, t

\* What is due is under way, in the queue or in hand, and brings an object.
LEMMA DueFacts ==
    ASSUME Typed, OneInHand
    PROVE  /\ Due \subseteq Items /\ Due \in SUBSET ObjectActions
           /\ \A a \in Due : a.obj \in Objects /\ a.obj \in Known
<1>1. Hand \subseteq queue.processing
  BY DEF Hand, OneInHand
<1>2. Due \subseteq Items
  BY <1>1 DEF Due, Items, SetItem
<1>3. Items \in SUBSET ObjectActions
  BY MembersNow DEF MembersTyped
<1> QED
  BY <1>2, <1>3, Fields, KnownParts

\* A step that brings no version to the queue, the cache or the store.
LEMMA QuietInLine ==
    ASSUME Typed, InLineInv, Hand' \subseteq Hand, cache' \subseteq cache, Stored' \subseteq Stored,
           \/ queue'.waiting = queue.waiting
           \/ \E b \in Actions : ~SetItem(b) /\ queue'.waiting = Append(queue.waiting, b)
    PROVE  InLineInv'
<1>0. queue.waiting \in Seq(Actions)
  BY MembersNow DEF MembersTyped
<1>1. ASSUME queue'.waiting = queue.waiting PROVE QueueInLine' /\ Due' \subseteq Due
  <2>1. QueueInLine'
    BY <1>1 DEF InLineInv, QueueInLine
  <2> QED
    BY <1>1, <2>1 DEF Due
<1>2. ASSUME NEW b \in Actions, ~SetItem(b), queue'.waiting = Append(queue.waiting, b)
      PROVE  QueueInLine' /\ Due' \subseteq Due
  <2>1. \A a : Later(a, b)
    BY <1>2 DEF Later
  <2>2. ToSet(queue'.waiting) = ToSet(queue.waiting) \cup {b}
    BY <1>0, <1>2, SentPlaces
  <2>3. InLine(queue.waiting)
    BY DEF InLineInv, QueueInLine
  <2>4. InLine(queue'.waiting)
    BY <1>0, <1>2, <2>1, <2>3, InLineAppend
  <2>5. QueueInLine'
    BY <2>1, <2>2, <2>4 DEF InLineInv, QueueInLine
  <2>6. Due' \subseteq Due
    BY <1>2, <2>2 DEF Due
  <2> QED
    BY <2>5, <2>6
<1>3. QueueInLine' /\ Due' \subseteq Due
  BY <1>1, <1>2
<1>4. DueInLine'
  BY <1>3 DEF InLineInv, DueInLine
<1> QED
  BY <1>3, <1>4 DEF InLineInv

\* A version that is no older than those under way and in the store, and no newer than the
\* cache, is queued.
LEMMA QueuedInLine ==
    ASSUME Typed, OneInHand, InLineInv, NEW b \in ObjectActions, queue' = Add(queue, b),
           UNCHANGED <<worker, action>>, Stored' = Stored,
           \A a \in Due : SetItem(b) /\ a.obj.uid = b.obj.uid => a.obj.rv <= b.obj.rv,
           \A c \in cache' : SetItem(b) /\ b.obj.uid = c.uid => b.obj.rv <= c.rv,
           \A a \in Due, c \in cache' : a.obj.uid = c.uid => a.obj.rv <= c.rv,
           \A p \in Stored : SetItem(b) /\ p.uid = b.obj.uid => p.rv <= b.obj.rv,
           \A c \in cache', p \in Stored : p.uid = c.uid => p.rv <= c.rv
    PROVE  InLineInv'
<1>0. queue.waiting \in Seq(Actions) /\ queue \in Queues /\ b \in Actions
  BY MembersNow, Fields DEF MembersTyped
<1>1. queue'.waiting = queue.waiting \/ queue'.waiting = Append(queue.waiting, b)
  BY <1>0, AddFields
<1>2. Hand' = Hand
  BY DEF Hand
<1>3. \A a \in ToSet(queue.waiting) \cup Hand : Later(a, b)
  BY DEF Later, Due
<1>4. InLine(queue.waiting) /\ \A h \in Hand, a \in ToSet(queue.waiting) : Later(h, a)
  BY DEF InLineInv, QueueInLine
<1>5. QueueInLine' /\ \A a \in Due' : a \in Due \/ a = b
  <2>1. CASE queue'.waiting = queue.waiting
    BY <1>2, <1>4, <2>1 DEF QueueInLine, Due
  <2>2. CASE queue'.waiting = Append(queue.waiting, b)
    <3>1. ToSet(queue'.waiting) = ToSet(queue.waiting) \cup {b}
      BY <1>0, <2>2, SentPlaces
    <3>2. InLine(queue'.waiting)
      BY <1>0, <1>3, <1>4, <2>2, InLineAppend
    <3> QED
      BY <1>2, <1>3, <1>4, <3>1, <3>2 DEF QueueInLine, Due
  <2> QED
    BY <1>1, <2>1, <2>2
<1>6. \A a \in Due' : SetItem(a)
  BY DEF Due
<1>7. \A a \in Due', c \in cache' : a.obj.uid = c.uid => a.obj.rv <= c.rv
  BY <1>5, <1>6
<1>8. \A a \in Due', p \in Stored' : p.uid = a.obj.uid => p.rv <= a.obj.rv
  BY <1>5, <1>6 DEF InLineInv, DueInLine
<1> QED
  BY <1>5, <1>7, <1>8 DEF InLineInv, DueInLine

\* An informer takes an event: its version is newer than all that was known behind it.
LEMMA TakeInLine ==
    ASSUME Typed, OneInHand, Pipeline, InLineInv, NEW k \in Kinds, NEW e, Take(k, e)
    PROVE  InLineInv'
<1>1. e \in Events /\ e.obj \in Known /\ News(e)
  BY TakeFacts
<1>2. /\ Known \in SUBSET Objects /\ Stored \in SUBSET Objects /\ cache \in SUBSET Objects
      /\ e.obj \in Objects
  BY <1>1, MembersNow, Fields DEF MembersTyped
<1>3. UNCHANGED <<store, worker, action>> /\ Stored' = Stored /\ Hand' = Hand
  BY DEF Take, Stored, Hand
<1>4. \A c \in cache' : \/ c \in cache /\ c.uid # e.obj.uid
                        \/ c = e.obj /\ e.type = "set"
  <2>1. \A c \in cache : c.uid = e.obj.uid => SameName(c, e.obj)
    BY <1>1, KnownParts DEF Pipeline, Versions
  <2> QED
    BY <2>1 DEF Take
<1>5. ASSUME e.type = "set", NEW a \in Due, a.obj.uid = e.obj.uid
      PROVE  a.obj.rv <= e.obj.rv
  <2>1. a \in Items /\ a.obj.rv \in Nat /\ e.obj.rv \in Nat
    BY <1>2, DueFacts, Fields
  <2>2. a.obj.rv < e.obj.rv
    BY <1>1, <1>5, <2>1 DEF News
  <2> QED
    BY <2>1, <2>2
<1>6. ASSUME e.type = "set", NEW p \in Stored, p.uid = e.obj.uid
      PROVE  p.rv <= e.obj.rv
  BY <1>1, <1>6 DEF News
<1>7. \A a \in Due, c \in cache' : a.obj.uid = c.uid => a.obj.rv <= c.rv
  BY <1>4, <1>5 DEF InLineInv, DueInLine
<1>8. \A c \in cache', p \in Stored : p.uid = c.uid => p.rv <= c.rv
  BY <1>4, <1>6 DEF InLineInv, DueInLine
<1>9. CASE queue' = queue
  <2>1. Due' = Due
    BY <1>3, <1>9 DEF Due
  <2>2. QueueInLine'
    BY <1>3, <1>9 DEF InLineInv, QueueInLine
  <2>3. DueInLine'
    BY <1>3, <1>7, <1>8, <2>1 DEF InLineInv, DueInLine
  <2> QED
    BY <2>2, <2>3 DEF InLineInv
<1>10. ASSUME NEW a \in ObjectActions, a.obj = e.obj, queue' = Add(queue, a),
              a.op = "delete" <=> e.type = "deleted", e.type # "gone"
       PROVE  InLineInv'
  <2>1. SetItem(a) => e.type = "set"
    BY <1>1, <1>10, Fields DEF SetItem
  <2>2. \A b \in Due : SetItem(a) /\ b.obj.uid = a.obj.uid => b.obj.rv <= a.obj.rv
    BY <1>5, <1>10, <2>1
  <2>3. \A p \in Stored : SetItem(a) /\ p.uid = a.obj.uid => p.rv <= a.obj.rv
    BY <1>6, <1>10, <2>1
  <2>4. e.obj.rv <= e.obj.rv
    <3>1. e.obj.rv \in Nat
      BY <1>2, Fields
    <3> QED
      BY <3>1
  <2>5. \A c \in cache' : SetItem(a) /\ a.obj.uid = c.uid => a.obj.rv <= c.rv
    BY <1>4, <1>10, <2>4
  <2> QED
    BY <1>3, <1>7, <1>8, <1>10, <2>2, <2>3, <2>5, QueuedInLine
<1>11. \/ queue' = queue
       \/ \E a \in ObjectActions : /\ a.obj = e.obj /\ queue' = Add(queue, a)
                                   /\ a.op = "delete" <=> e.type = "deleted"
                                   /\ e.type # "gone"
  BY DEF Take
<1> QED
  BY <1>9, <1>10, <1>11

\* A replay has the version of the cache, which is the newest behind the watch.
LEMMA ResyncInLine ==
    ASSUME Typed, OneInHand, Pipeline, InLineInv, NEW c \in cache, Resync(c)
    PROVE  InLineInv'
<1>1. c \in Objects
  BY MembersNow DEF MembersTyped
<1>2. UNCHANGED <<store, worker, action, cache>> /\ Stored' = Stored /\ Hand' = Hand
  BY DEF Resync, informerVars, Stored, Hand
<1> DEFINE a == [op |-> "update", obj |-> c, old |-> c]
<1>3. a \in ObjectActions /\ a.obj = c
  BY <1>1 DEF ObjectActions
<1>4. queue' = queue \/ queue' = Add(queue, a)
  BY DEF Resync, UpdateFunc
<1> HIDE DEF a
<1>5. CASE queue' = queue
  <2>1. InLineInv' <=> InLineInv
    BY <1>2, <1>5 DEF InLineInv, QueueInLine, DueInLine, Due
  <2> QED
    BY <2>1
<1>6. CASE queue' = Add(queue, a)
  <2>1. \A d \in cache : d.uid = c.uid => d = c
    <3>1. \A d \in cache : d.uid = c.uid => SameName(d, c)
      BY KnownParts DEF Pipeline, Versions
    <3> QED
      BY <3>1 DEF Pipeline, OneOfName
  <2>2. c.rv <= c.rv
    <3>1. c.rv \in Nat
      BY <1>1, Fields
    <3> QED
      BY <3>1
  <2>3. \A d \in cache' : SetItem(a) /\ a.obj.uid = d.uid => a.obj.rv <= d.rv
    BY <1>2, <1>3, <2>1, <2>2
  <2>4. /\ \A b \in Due, d \in cache : b.obj.uid = d.uid => b.obj.rv <= d.rv
        /\ \A d \in cache, p \in Stored : p.uid = d.uid => p.rv <= d.rv
    BY DEF InLineInv, DueInLine
  <2>5. \A b \in Due : SetItem(a) /\ b.obj.uid = a.obj.uid => b.obj.rv <= a.obj.rv
    BY <1>3, <2>4
  <2>6. \A p \in Stored : SetItem(a) /\ p.uid = a.obj.uid => p.rv <= a.obj.rv
    BY <1>3, <2>4
  <2> QED
    BY <1>2, <1>3, <1>6, <2>3, <2>4, <2>5, <2>6, QueuedInLine
<1> QED
  BY <1>4, <1>5, <1>6

\* The worker takes the first item, which is no newer than the others.
LEMMA GetInLine ==
    ASSUME Typed, OneInHand, InLineInv, GetItem
    PROVE  InLineInv'
<1>1. queue.waiting \in Seq(Actions) /\ queue.waiting # <<>>
  BY MembersNow DEF MembersTyped, GetItem
<1>2. /\ queue'.waiting = Tail(queue.waiting) /\ Hand' = {Head(queue.waiting)}
      /\ cache' = cache /\ Stored' = Stored
  BY DEF GetItem, Get, Hand, informerVars, Stored
<1>3. ToSet(queue.waiting) = {Head(queue.waiting)} \cup ToSet(queue'.waiting)
  BY <1>1, <1>2, SentPlaces
<1>4. /\ InLine(queue'.waiting)
      /\ \A a \in ToSet(queue'.waiting) : Later(Head(queue.waiting), a)
  BY <1>1, <1>2, InLineTail DEF InLineInv, QueueInLine
<1>5. QueueInLine'
  BY <1>2, <1>4 DEF QueueInLine
<1>6. Due' \subseteq Due
  BY <1>2, <1>3 DEF Due
<1>7. DueInLine'
  BY <1>2, <1>6 DEF InLineInv, DueInLine
<1> QED
  BY <1>5, <1>7 DEF InLineInv

\* What the store has after a handler: what it had, or the version in hand.
LEMMA HandlersBring ==
    ASSUME Typed, OneInHand, Handlers
    PROVE  /\ \A p \in Stored' : \/ p \in Stored
                                 \/ /\ action \in Due /\ p = action.obj
                                    /\ action.obj.kind = "ingress"
           /\ action \in Hand /\ Hand' = {}
<1>1. /\ worker = "handle" /\ worker' \in {"reload", "idle"}
      /\ action \in Actions /\ store.ingresses \in Seq(Objects)
  BY HandlersFacts DEF Typed, VarTypes, Stores
<1>2. action \in Hand /\ Hand' = {}
  BY <1>1 DEF Hand
<1>3. action.op \in {"add", "update"} => action \in Due /\ action.obj \in Objects
  BY <1>1, <1>2, Fields DEF Due, SetItem
<1>4. \/ /\ action.op \in {"add", "update"} /\ action.obj.kind = "ingress"
         /\ store'.ingresses = AddIngress(store.ingresses, action.obj)
      \/ store'.ingresses = PluckIngress(store.ingresses, action.obj)
      \/ store'.ingresses = store.ingresses
  BY HandlersFacts
<1>5. CASE /\ action.op \in {"add", "update"} /\ action.obj.kind = "ingress"
           /\ store'.ingresses = AddIngress(store.ingresses, action.obj)
  <2>1. \A p \in Stored' : p = action.obj \/ p \in Stored
    BY <1>1, <1>3, <1>5, AddIngressMembers DEF Stored
  <2> QED
    BY <1>2, <1>3, <1>5, <2>1
<1>6. CASE store'.ingresses = PluckIngress(store.ingresses, action.obj)
  BY <1>1, <1>2, <1>6, PluckIngressMembers DEF Stored
<1>7. CASE store'.ingresses = store.ingresses
  BY <1>2, <1>7 DEF Stored
<1> QED
  BY <1>4, <1>5, <1>6, <1>7

\* The version in hand goes to the store: it is no newer than those in the queue.
LEMMA HandlersInLine ==
    ASSUME Typed, OneInHand, InLineInv, Handlers
    PROVE  InLineInv'
<1>0. queue.waiting \in Seq(Actions)
  BY MembersNow DEF MembersTyped
<1>1. /\ \A p \in Stored' : p \in Stored \/ (action \in Due /\ p = action.obj)
      /\ action \in Hand /\ Hand' = {}
  BY HandlersBring
<1>2. /\ worker # "idle" /\ cache' = cache
      /\ \/ queue' = queue
         \/ queue' = Done(queue, action) /\ worker' = "idle"
  BY HandlersFacts
<1>3. \/ queue'.waiting = queue.waiting
      \/ \E b \in Actions : b.op = "sync" /\ queue'.waiting = Append(queue.waiting, b)
  BY <1>2, DoneFacts
<1>4. /\ InLine(queue'.waiting)
      /\ \A a \in ToSet(queue'.waiting) : a \in ToSet(queue.waiting) \/ ~SetItem(a)
  <2>1. CASE queue'.waiting = queue.waiting
    BY <2>1 DEF InLineInv, QueueInLine
  <2>2. ASSUME NEW b \in Actions, b.op = "sync", queue'.waiting = Append(queue.waiting, b)
        PROVE  /\ InLine(queue'.waiting)
               /\ \A a \in ToSet(queue'.waiting) : a \in ToSet(queue.waiting) \/ ~SetItem(a)
    <3>1. ~SetItem(b) /\ \A a : Later(a, b)
      BY <2>2 DEF Later, SetItem
    <3>2. ToSet(queue'.waiting) = ToSet(queue.waiting) \cup {b}
      BY <1>0, <2>2, SentPlaces
    <3>3. InLine(queue'.waiting)
      BY <1>0, <2>2, <3>1, InLineAppend DEF InLineInv, QueueInLine
    <3> QED
      BY <3>1, <3>2, <3>3
  <2> QED
    BY <1>3, <2>1, <2>2
<1>5. QueueInLine'
  BY <1>1, <1>4 DEF QueueInLine
<1>6. \A a \in Due' : a \in Due /\ a \in ToSet(queue.waiting) /\ SetItem(a)
  BY <1>1, <1>4 DEF Due
<1>7. ASSUME NEW a \in Due', NEW p \in Stored', p.uid = a.obj.uid PROVE p.rv <= a.obj.rv
  <2>1. CASE p \in Stored
    BY <1>6, <1>7, <2>1 DEF InLineInv, DueInLine
  <2>2. CASE action \in Due /\ p = action.obj
    <3>1. Later(action, a) /\ SetItem(action) /\ SetItem(a)
      BY <1>1, <1>6, <2>2 DEF InLineInv, QueueInLine, Due
    <3> QED
      BY <1>7, <2>2, <3>1 DEF Later
  <2> QED
    BY <1>1, <2>1, <2>2
<1>8. ASSUME NEW c \in cache', NEW p \in Stored', p.uid = c.uid PROVE p.rv <= c.rv
  BY <1>1, <1>2, <1>8 DEF InLineInv, DueInLine
<1>9. \A a \in Due', c \in cache' : a.obj.uid = c.uid => a.obj.rv <= c.rv
  BY <1>2, <1>6 DEF InLineInv, DueInLine
<1> QED
  BY <1>5, <1>7, <1>8, <1>9 DEF InLineInv, DueInLine

\* A step that is not a handler's keeps the store or empties it.
LEMMA StoredKept ==
    ASSUME Typed, Down, OneOfName, [Next]_vars, ~Handlers
    PROVE  Stored' = Stored \/ Stored' = {}
<1>1. Die => Stored' = {}
  BY DieFacts
<1>2. ASSUME store' = store PROVE Stored' = Stored
  BY <1>2 DEF Stored
<1>3. ~Die => store' = store
  BY NextCases DEF Change, Take, Resync, Relists, GetItem, dispatchSync, Returns, vars
<1> QED
  BY <1>1, <1>2, <1>3

\* Every step keeps the versions in line.
LEMMA InLineStep == PipelineInv /\ InLineInv /\ [Next]_vars => InLineInv'
<1> SUFFICES ASSUME PipelineInv, InLineInv, [Next]_vars PROVE InLineInv'
  OBVIOUS
<1>0. Typed /\ Down /\ OneInHand /\ Pipeline
  BY DEF PipelineInv
<1>1. ASSUME NEW k \in Kinds, Take(k, Head(watch[k])) PROVE InLineInv'
  BY <1>0, <1>1, TakeInLine
<1>2. ASSUME NEW c \in cache, Resync(c) PROVE InLineInv'
  BY <1>0, <1>2, ResyncInLine
<1>3. CASE Handlers
  BY <1>0, <1>3, HandlersInLine
<1>4. CASE GetItem
  BY <1>0, <1>4, GetInLine
<1>5. CASE dispatchSync
  <2>1. /\ queue' = Add(queue, SyncStatusAction)
        /\ Hand' = Hand /\ cache' = cache /\ Stored' = Stored
    BY <1>5 DEF dispatchSync, informerVars, Hand, Stored
  <2>2. queue \in Queues /\ SyncStatusAction \in Actions /\ ~SetItem(SyncStatusAction)
    BY <1>0, MembersNow, ActionFacts DEF MembersTyped, SetItem, SyncStatusAction
  <2>3. \/ queue'.waiting = queue.waiting
        \/ queue'.waiting = Append(queue.waiting, SyncStatusAction)
    BY <2>1, <2>2, AddFields
  <2> QED
    BY <1>0, <2>1, <2>2, <2>3, QuietInLine
<1>6. CASE Returns
  <2>1. /\ worker # "idle" /\ worker' = "idle" /\ queue' = Done(queue, action)
        /\ cache' = cache /\ Stored' = Stored
    BY <1>6 DEF Returns, Return, informerVars, Stored
  <2>2. Hand' \subseteq Hand
    BY <2>1 DEF Hand
  <2>3. \/ queue'.waiting = queue.waiting
        \/ \E b \in Actions : ~SetItem(b) /\ queue'.waiting = Append(queue.waiting, b)
    BY <1>0, <2>1, DoneFacts DEF SetItem
  <2> QED
    BY <1>0, <2>1, <2>2, <2>3, QuietInLine
<1>7. CASE Die
  <2>1. queue'.waiting = <<>> /\ Hand' = {} /\ cache' = {} /\ Stored' = {}
    BY <1>7, DieFacts DEF EmptyQueue, Hand
  <2>2. ToSet(<<>>) = {} /\ InLine(<<>>)
    BY DEF ToSet, InLine
  <2>3. Due' = {}
    BY <2>1, <2>2 DEF Due
  <2>4. QueueInLine'
    BY <2>1, <2>2 DEF QueueInLine
  <2> QED
    BY <2>1, <2>3, <2>4 DEF InLineInv, DueInLine
<1>8. CASE (\E e \in Events : Change(e)) \/ Relists \/ UNCHANGED vars
  <2>1. UNCHANGED <<queue, worker, action, cache, store>>
    BY <1>8 DEF Change, Relists, vars
  <2>2. InLineInv' <=> InLineInv
    BY <2>1 DEF InLineInv, QueueInLine, DueInLine, Due, Hand, Stored
  <2> QED
    BY <2>2
<1> QED
  BY <1>0, <1>1, <1>2, <1>3, <1>4, <1>5, <1>6, <1>7, <1>8, NextCases DEF Pipeline

\* Nothing is in line when the process has never been started.
LEMMA InLineInit == Init => InLineInv
<1> SUFFICES ASSUME Init PROVE InLineInv
  OBVIOUS
<1>1. queue.waiting = <<>> /\ Hand = {} /\ cache = {} /\ store.ingresses = <<>>
  BY DEF Init, ProcessState, EmptyQueue, NewStore, Hand
<1>2. ToSet(<<>>) = {} /\ InLine(<<>>)
  BY DEF ToSet, InLine
<1>3. Due = {} /\ Stored = {}
  BY <1>1, <1>2 DEF Due, Stored
<1> QED
  BY <1>1, <1>2, <1>3 DEF InLineInv, QueueInLine, DueInLine

\* What a step may do to the versions in the store.
LEMMA MonotoneStep ==
    ASSUME PipelineInv, InLineInv, StoreUnique, [Next]_vars
    PROVE  \A o \in Stored, p \in Stored' : o.uid = p.uid => o.rv <= p.rv
<1> SUFFICES ASSUME NEW o \in Stored, NEW p \in Stored', o.uid = p.uid PROVE o.rv <= p.rv
  OBVIOUS
<1>0. Typed /\ Down /\ OneInHand /\ Pipeline /\ o \in Objects
  BY MembersNow DEF PipelineInv, MembersTyped
<1>1. CASE p \in Stored
  <2>1. o = p
    BY <1>1 DEF StoreUnique, UniqueUids, Stored, ToSet
  <2>2. o.rv \in Nat
    BY <1>0, Fields
  <2> QED
    BY <2>1, <2>2
<1>2. CASE Handlers
  <2>1. p \in Stored \/ (action \in Due /\ p = action.obj)
    BY <1>0, <1>2, HandlersBring
  <2>2. CASE action \in Due /\ p = action.obj
    BY <2>2 DEF InLineInv, DueInLine
  <2> QED
    BY <1>1, <2>1, <2>2
<1>3. CASE ~Handlers
  BY <1>0, <1>1, <1>3, StoredKept DEF Pipeline
<1> QED
  BY <1>2, <1>3

\* The store never goes back: whatever is replayed, listed again or handled late, an older
\* version of an ingress does not replace a newer one.
THEOREM StoreIsMonotone == Spec => StoreMonotone
<1> DEFINE I == PipelineInv /\ InLineInv /\ StoreUnique
<1>1. Init => StoreUnique
  BY DEF Init, ProcessState, NewStore, StoreUnique, UniqueUids
<1>2. Init => I
  BY <1>1, PipelineInit, InLineInit
<1>3. I /\ [Next]_vars => I'
  <2>1. PipelineInv => Typed
    BY DEF PipelineInv
  <2> QED
    BY <2>1, PipelineStep, InLineStep, UniqueStep
<1>4. I /\ [Next]_vars =>
        [\A o \in ToSet(store.ingresses), p \in ToSet(store'.ingresses) :
            o.uid = p.uid => o.rv <= p.rv]_vars
  BY MonotoneStep DEF Stored
<1> HIDE DEF I
<1> QED
  BY <1>2, <1>3, <1>4, PTL DEF Spec, StoreMonotone

-----------------------------------------------------------------------------
(* No ghosts: the assumptions under which no deletion is missed.           *)

\* No watch breaks, and every ingress that can be written is ours.
Undisturbed == ~WatchLoss /\ \A b \in IngressBodies : isControllerIngress(b)

\* f comes after e and is about the same object.
Succeeds(e, f) ==
    f.obj.uid = e.obj.uid /\ (f.type = "deleted" \/ e.obj.rv < f.obj.rv)

\* An informer will be told when what it has is no longer in the cluster, and behind each
\* event that is out of date there is a newer one.
Succeeded ==
    up => /\ \A c \in cache : c \in cluster \/ \E e \in Sent(c.kind) : e.obj.uid = c.uid
          /\ \A k \in Kinds : \A e \in Sent(k) :
                e.type = "set" => e.obj \in cluster \/ \E f \in Sent(k) : Succeeds(e, f)

\* Ingresses in the cluster and on the watch are ours, no tombstones are reported, and the
\* store has ingresses only.
OnlyOurs ==
    /\ \A o \in cluster : o.kind = "ingress" => Managed(o)
    /\ \A k \in Kinds : \A e \in Sent(k) : /\ e.type # "gone"
                                           /\ k = "ingress" => Managed(e.obj)
    /\ \A p \in Stored : p.kind = "ingress"

\* An ingress that will be stored is in the cluster.
Present ==
    up => \A p \in Objects : p.kind = "ingress" /\ WillBeStored(p) => p \in cluster

\* Managed looks at the object alone.
LEMMA ManagedBody ==
    ASSUME Undisturbed, NEW o \in Objects, o.kind = "ingress",
           \E b \in Bodies(o.kind) : o.ann = b.ann /\ o.cls = b.cls
    PROVE  Managed(o)
BY DEF Undisturbed, Managed, Bodies, isControllerIngress

\* A change keeps the cluster and the watches ours.
LEMMA ChangeOurs ==
    ASSUME Undisturbed, Typed, Typed', Pipeline, OnlyOurs, NEW e, Change(e)
    PROVE  OnlyOurs' /\ (e.obj.kind = "ingress" => Managed(e.obj))
<1>1. /\ e \in Events /\ e.obj \in Objects /\ e.type \in {"set", "deleted"}
      /\ \A x \in cluster' : x \in cluster \/ x = e.obj
      /\ \A k \in Kinds : \A f \in Sent(k)' : f \in Sent(k) \/ (f = e /\ k = e.obj.kind)
      /\ Stored' = Stored
  BY ChangeFacts DEF Pipeline
<1>2. ASSUME e.obj.kind = "ingress" PROVE Managed(e.obj)
  <2>1. \/ e.obj \in cluster
        \/ \E b \in Bodies(e.obj.kind) : e.obj.ann = b.ann /\ e.obj.cls = b.cls
    BY DEF Change
  <2>2. CASE e.obj \in cluster
    BY <1>2, <2>2 DEF OnlyOurs
  <2>3. CASE \E b \in Bodies(e.obj.kind) : e.obj.ann = b.ann /\ e.obj.cls = b.cls
    BY <1>1, <1>2, <2>3, ManagedBody
  <2> QED
    BY <2>1, <2>2, <2>3
<1>3. \A o \in cluster' : o.kind = "ingress" => Managed(o)
  BY <1>1, <1>2 DEF OnlyOurs
<1>4. ASSUME NEW k \in Kinds, NEW f \in Sent(k)'
      PROVE  f.type # "gone" /\ (k = "ingress" => Managed(f.obj))
  BY <1>1, <1>2, <1>4 DEF OnlyOurs
<1>5. \A p \in Stored' : p.kind = "ingress"
  BY <1>1 DEF OnlyOurs
<1> QED
  BY <1>2, <1>3, <1>4, <1>5 DEF OnlyOurs, Managed, isControllerIngress, isControllerConfigMap

\* Every step keeps them ours.
LEMMA OursStep == Undisturbed /\ PipelineInv /\ OnlyOurs /\ [Next]_vars => OnlyOurs'
<1> SUFFICES ASSUME Undisturbed, PipelineInv, OnlyOurs, [Next]_vars PROVE OnlyOurs'
  OBVIOUS
<1>0. Typed /\ Typed' /\ Down /\ OneInHand /\ Pipeline
  BY TypedStep DEF PipelineInv
<1>1. ASSUME NEW e \in Events, Change(e) PROVE OnlyOurs'
  BY <1>0, <1>1, ChangeOurs
<1>2. ASSUME cluster' = cluster, \A k \in Kinds : Sent(k)' \subseteq Sent(k),
             \A p \in Stored' : p \in Stored \/ p.kind = "ingress"
      PROVE  OnlyOurs'
  BY <1>2 DEF OnlyOurs, Managed, isControllerIngress, isControllerConfigMap
<1>3. ASSUME NEW k \in Kinds, Take(k, Head(watch[k])) PROVE OnlyOurs'
  <2>1. cluster' = cluster /\ Stored' = Stored
    BY <1>3 DEF Take, Stored
  <2>2. \A j \in Kinds : Sent(j)' \subseteq Sent(j)
    BY <1>0, <1>3, TakeFacts
  <2> QED
    BY <1>2, <2>1, <2>2
<1>4. CASE Relists /\ ~up
  <2>1. cluster' = cluster /\ Stored' = Stored /\ cache = {}
    BY <1>0, <1>4 DEF Relists, Stored, Down
  <2>2. ASSUME NEW k \in Kinds, NEW e \in Sent(k)'
        PROVE  e.type # "gone" /\ (k = "ingress" => Managed(e.obj))
    <3>1. Relist(k, watch'[k])
      BY <1>4 DEF Relists
    <3>2. PICK o \in Listed(k) : e = Event("set", o)
      BY <2>1, <2>2, <3>1 DEF Relist, Sent, ToSet
    <3>3. e.type = "set" /\ e.obj = o /\ o \in cluster /\ o.kind = k
      BY <3>2 DEF Event, Listed
    <3> QED
      BY <3>3 DEF OnlyOurs
  <2> QED
    BY <2>1, <2>2 DEF OnlyOurs, Managed, isControllerIngress, isControllerConfigMap
<1>5. CASE Handlers
  <2>1. cluster' = cluster /\ \A k \in Kinds : Sent(k)' \subseteq Sent(k)
    BY <1>0, <1>5, HandlersFacts DEF Sent
  <2>2. \A p \in Stored' : p \in Stored \/ p.kind = "ingress"
    BY <1>0, <1>5, HandlersBring
  <2> QED
    BY <1>2, <2>1, <2>2
<1>6. CASE Die
  BY <1>2, <1>6, DieFacts
<1>7. CASE (\E c \in cache : Resync(c)) \/ GetItem \/ dispatchSync \/ Returns \/ UNCHANGED vars
  <2>1. UNCHANGED <<cluster, watch, store>>
    BY <1>7 DEF Resync, GetItem, dispatchSync, Returns, Return, vars, clusterVars, informerVars
  <2> QED
    BY <1>2, <2>1 DEF Sent, Stored
<1> QED
  BY <1>0, <1>1, <1>3, <1>4, <1>5, <1>6, <1>7, NextCases DEF Pipeline, Undisturbed

\* A change out of which an object leaves the cluster is published, behind all others.
LEMMA ChangeSucceeds ==
    ASSUME Typed, Typed', Pipeline, up, NEW e, Change(e), NEW x \in Known, x \in cluster,
           x \notin cluster'
    PROVE  /\ e \in Sent(x.kind)' /\ e.obj.uid = x.uid /\ e.obj.kind = x.kind
           /\ e.type = "deleted" \/ x.rv < e.obj.rv
<1>1. /\ \A y \in Known : y.rv < rev + 1
      /\ \A y \in Known : y.uid = e.obj.uid => SameName(y, e.obj)
      /\ e \in Sent(e.obj.kind)' /\ e.type \in {"set", "deleted"}
  BY ChangeFacts DEF Pipeline
<1>2. x.uid = e.obj.uid /\ (e.type = "set" => e.obj.rv = rev + 1)
  BY DEF Change
<1>3. e.obj.kind = x.kind
  BY <1>1, <1>2 DEF SameName
<1> QED
  BY <1>1, <1>2, <1>3

\* A change: what it makes out of date is succeeded by what it publishes.
LEMMA ChangeSucceeded ==
    ASSUME Typed, Typed', Pipeline, Succeeded, NEW e, Change(e)
    PROVE  Succeeded'
<1> SUFFICES ASSUME up' PROVE Succeeded'
  BY DEF Succeeded
<1>1. /\ up /\ cache' = cache
      /\ \A k \in Kinds : Sent(k) \subseteq Sent(k)'
      /\ \A k \in Kinds : \A f \in Sent(k)' : f \in Sent(k) \/ (f = e /\ k = e.obj.kind)
      /\ e.type = "set" => e.obj \in cluster'
  BY ChangeFacts DEF Pipeline, Change
<1>2. ASSUME NEW c \in cache'
      PROVE  c \in cluster' \/ \E f \in Sent(c.kind)' : f.obj.uid = c.uid
  <2>0. c \in cache /\ c \in Known /\ c.kind \in Kinds
    BY <1>1, <1>2, KnownParts, MembersNow, Fields DEF MembersTyped
  <2>1. CASE c \in cluster
    BY <1>1, <2>0, <2>1, ChangeSucceeds
  <2>2. CASE \E f \in Sent(c.kind) : f.obj.uid = c.uid
    BY <1>1, <2>0, <2>2
  <2> QED
    BY <1>1, <2>0, <2>1, <2>2 DEF Succeeded
<1>3. ASSUME NEW k \in Kinds, NEW g \in Sent(k)', g.type = "set"
      PROVE  g.obj \in cluster' \/ \E f \in Sent(k)' : Succeeds(g, f)
  <2>1. CASE g = e
    BY <1>1, <1>3, <2>1
  <2>2. CASE g \in Sent(k)
    <3>0. g.obj \in Known /\ g.obj.kind = k
      BY <2>2, KnownParts DEF Pipeline, WatchIsNews
    <3>1. CASE g.obj \in cluster
      <4>1. SUFFICES ASSUME g.obj \notin cluster' PROVE \E f \in Sent(k)' : Succeeds(g, f)
        OBVIOUS
      <4>2. e \in Sent(k)' /\ e.obj.uid = g.obj.uid /\ (e.type = "deleted" \/ g.obj.rv < e.obj.rv)
        BY <1>1, <3>0, <3>1, <4>1, ChangeSucceeds
      <4> QED
        BY <4>2 DEF Succeeds
    <3>2. CASE \E f \in Sent(k) : Succeeds(g, f)
      BY <1>1, <3>2
    <3> QED
      BY <1>1, <1>3, <2>2, <3>1, <3>2 DEF Succeeded
  <2> QED
    BY <1>1, <1>3, <2>1, <2>2
<1>4. \A k \in Kinds : \A g \in Sent(k)' :
         g.type = "set" => g.obj \in cluster' \/ \E f \in Sent(k)' : Succeeds(g, f)
  BY <1>3
<1> QED
  BY <1>2, <1>4 DEF Succeeded, Succeeds

\* An informer takes an event: what succeeds others stays behind them on the watch.
LEMMA TakeSucceeded ==
    ASSUME Typed, OneInHand, Pipeline, OnlyOurs, Succeeded, NEW k \in Kinds, NEW e, Take(k, e)
    PROVE  Succeeded'
<1>1. /\ e \in Sent(k) /\ e \in Events /\ e.obj \in Known /\ e.obj.kind = k
      /\ \A j \in Kinds : Sent(j)' \subseteq Sent(j)
      /\ \A j \in Kinds : \A f \in Sent(j) : f \in Sent(j)' \/ (f = e /\ j = k)
      /\ \A f \in Sent(k)' : Follows(cluster, e, f)
  BY TakeFacts
<1>2. /\ up /\ cluster' = cluster
      /\ \A c \in cache' : (c \in cache /\ ~SameName(c, e.obj)) \/ (c = e.obj /\ e.type = "set")
  BY DEF Take
<1>3. /\ \A c \in cache : c \in cluster \/ \E f \in Sent(c.kind) : f.obj.uid = c.uid
      /\ \A j \in Kinds : \A g \in Sent(j) :
            g.type = "set" => g.obj \in cluster \/ \E f \in Sent(j) : Succeeds(g, f)
  BY <1>2 DEF Succeeded
<1>4. ASSUME NEW c \in cache'
      PROVE  c \in cluster' \/ \E f \in Sent(c.kind)' : f.obj.uid = c.uid
  <2>1. CASE c \in cache /\ ~SameName(c, e.obj)
    <3>1. c.uid # e.obj.uid /\ c.kind \in Kinds
      BY <1>1, <2>1, KnownParts, MembersNow, Fields DEF Pipeline, Versions, MembersTyped
    <3> QED
      BY <1>1, <1>2, <1>3, <2>1, <3>1
  <2>2. CASE c = e.obj /\ e.type = "set"
    <3>1. SUFFICES ASSUME e.obj \notin cluster PROVE \E f \in Sent(k)' : f.obj.uid = c.uid
      BY <1>1, <1>2, <2>2
    <3>2. PICK f \in Sent(k) : Succeeds(e, f)
      BY <1>1, <1>3, <2>2, <3>1
    <3>3. f # e
      <4>1. e.obj.rv \in Nat
        BY <1>1, Fields
      <4>2. ~(e.obj.rv < e.obj.rv)
        BY <4>1
      <4> QED
        BY <2>2, <3>2, <4>2 DEF Succeeds
    <3> QED
      BY <1>1, <2>2, <3>2, <3>3 DEF Succeeds
  <2> QED
    BY <1>2, <2>1, <2>2
<1>5. ASSUME NEW j \in Kinds, NEW g \in Sent(j)', g.type = "set"
      PROVE  g.obj \in cluster' \/ \E f \in Sent(j)' : Succeeds(g, f)
  <2>1. SUFFICES ASSUME g.obj \notin cluster PROVE \E f \in Sent(j)' : Succeeds(g, f)
    BY <1>2
  <2>2. PICK f \in Sent(j) : Succeeds(g, f)
    BY <1>1, <1>3, <1>5, <2>1
  <2>3. ~(f = e /\ j = k)
    <3>1. SUFFICES ASSUME f = e, j = k PROVE FALSE
      OBVIOUS
    <3>2. Follows(cluster, e, g) /\ e.obj.uid = g.obj.uid
      BY <1>1, <1>5, <2>2, <3>1 DEF Succeeds
    <3>3. e.type # "deleted"
      BY <1>5, <3>2 DEF Follows
    <3>4. g.obj.rv < e.obj.rv /\ e.type = "set"
      BY <1>1, <2>2, <3>1, <3>3, Fields DEF Succeeds, OnlyOurs
    <3>5. e.obj.rv < g.obj.rv
      BY <1>5, <3>2, <3>4 DEF Follows
    <3>6. g \in Events /\ e.obj.rv \in Nat /\ g.obj.rv \in Nat
      BY <1>1, <1>5, MembersNow, Fields DEF MembersTyped
    <3> QED
      BY <3>4, <3>5, <3>6
  <2> QED
    BY <1>1, <2>2, <2>3
<1>6. \A j \in Kinds : \A g \in Sent(j)' :
         g.type = "set" => g.obj \in cluster' \/ \E f \in Sent(j)' : Succeeds(g, f)
  BY <1>5
<1> QED
  BY <1>4, <1>6 DEF Succeeded, Succeeds

\* Every step keeps a successor of what is out of date.
LEMMA SucceededStep ==
    Undisturbed /\ PipelineInv /\ OnlyOurs /\ Succeeded /\ [Next]_vars => Succeeded'
<1> SUFFICES ASSUME Undisturbed, PipelineInv, OnlyOurs, Succeeded, [Next]_vars PROVE Succeeded'
  OBVIOUS
<1>0. Typed /\ Typed' /\ Down /\ OneInHand /\ Pipeline
  BY TypedStep DEF PipelineInv
<1>1. ASSUME NEW e \in Events, Change(e) PROVE Succeeded'
  BY <1>0, <1>1, ChangeSucceeded
<1>2. ASSUME NEW k \in Kinds, Take(k, Head(watch[k])) PROVE Succeeded'
  BY <1>0, <1>2, TakeSucceeded
<1>3. CASE Relists /\ ~up
  <2>1. cluster' = cluster /\ cache' = {}
    BY <1>0, <1>3 DEF Relists, Down
  <2>2. ASSUME NEW k \in Kinds, NEW e \in Sent(k)' PROVE e.obj \in cluster'
    <3>1. Relist(k, watch'[k]) /\ cache = {}
      BY <1>0, <1>3 DEF Relists, Down
    <3>2. PICK o \in Listed(k) : e = Event("set", o)
      BY <2>2, <3>1 DEF Relist, Sent, ToSet
    <3> QED
      BY <2>1, <3>2 DEF Event, Listed
  <2> QED
    BY <2>1, <2>2 DEF Succeeded
<1>4. CASE Die
  BY <1>4, DieFacts DEF Succeeded
<1>5. CASE \/ (\E c \in cache : Resync(c)) \/ Handlers \/ GetItem \/ dispatchSync \/ Returns
           \/ UNCHANGED vars
  <2>1. UNCHANGED <<cluster, watch, cache, up>>
    BY <1>0, <1>5, HandlersFacts
       DEF Resync, GetItem, dispatchSync, Returns, Return, vars, clusterVars, informerVars
  <2>2. Succeeded' <=> Succeeded
    BY <2>1 DEF Succeeded, Sent, Succeeds
  <2> QED
    BY <2>2
<1> QED
  BY <1>0, <1>1, <1>2, <1>3, <1>4, <1>5, NextCases DEF Pipeline, Undisturbed

\* An ingress that is cached and has no word on the watch is in the cluster.
LEMMA QuietIsPresent ==
    ASSUME Typed, Pipeline, OnlyOurs, Succeeded, up, NEW c \in cache, c.kind = "ingress",
           NoWord(watch[c.kind], EventWords(c))
    PROVE  c \in cluster
<1> SUFFICES ASSUME c \notin cluster PROVE FALSE
  OBVIOUS
<1>0. c \in Objects /\ c.kind \in Kinds /\ Sent(c.kind) \in SUBSET Events
  BY MembersNow, Fields DEF MembersTyped
<1>1. PICK e \in Sent(c.kind) : e.obj.uid = c.uid
  BY DEF Succeeded
<1>2. /\ e \in Events /\ e.type \in {"set", "deleted"} /\ Managed(e.obj)
      /\ e.obj.kind = "ingress"
  BY <1>0, Fields DEF OnlyOurs, Pipeline, WatchIsNews
<1>3. Topic(e.obj) = Topic(c) /\ ~Silent(e.obj)
  BY <1>1, <1>2, TopicFacts
<1>4. e \in EventWords(c)
  BY <1>0, <1>2, <1>3, WordFacts
<1> QED
  BY <1>1, <1>4 DEF NoWord, Sent, ToSet

\* After the start, only the list decides: what will be stored is in the cluster.
LEMMA StartPresent ==
    ASSUME Typed, Typed', Down, ~up, Relists, NEW p \in Objects, p.kind = "ingress",
           WillBeStored(p)'
    PROVE  p \in cluster
<1>1. /\ queue' = EmptyQueue /\ store' = NewStore /\ worker' = "idle" /\ cache = {}
      /\ Relist(p.kind, watch'[p.kind])
  BY Fields DEF Down, Relists
<1>2. Fate(watch'[p.kind], queue'.waiting, Hand', InStore(p)', p)
  BY Fates
<1>3. queue'.waiting = <<>> /\ Hand' = {} /\ ~InStore(p)'
  BY <1>1 DEF EmptyQueue, NewStore, Hand, InStore, ToSet
<1>4. ~LastWord(<<>>, ItemWords(p), ItemsFor(p))
  BY DEF LastWord
<1>5. LastWord(watch'[p.kind], EventWords(p), EventsFor(p))
  BY <1>2, <1>3, <1>4 DEF Fate
<1>6. PICK i \in DOMAIN watch'[p.kind] : watch'[p.kind][i] \in EventsFor(p)
  BY <1>5 DEF LastWord
<1>7. PICK o \in Listed(p.kind) : watch'[p.kind][i] = Event("set", o)
  BY <1>1 DEF Relist
<1>8. o = p
  BY <1>6, <1>7 DEF EventsFor, Event
<1> QED
  BY <1>7, <1>8 DEF Listed

\* Every step: what will be stored is in the cluster.
LEMMA PresentStep ==
    Undisturbed /\ PipelineInv /\ StoreUnique /\ OnlyOurs /\ Succeeded /\ Present /\ [Next]_vars
        => Present'
<1> SUFFICES ASSUME Undisturbed, PipelineInv, StoreUnique, OnlyOurs, Succeeded, Present, [Next]_vars,
                    up', NEW p \in Objects, p.kind = "ingress", WillBeStored(p)'
             PROVE  p \in cluster'
  BY DEF Present
<1>0. Typed /\ Typed' /\ Down /\ OneInHand /\ Pipeline /\ Versions
  BY TypedStep DEF PipelineInv, Pipeline
<1>1. up /\ WillBeStored(p) => p \in cluster
  BY DEF Present
<1>2. ASSUME NEW e \in Events, Change(e) PROVE p \in cluster'
  <2>1. up
    BY <1>2 DEF Change
  <2>2. CASE e \in EventWords(p)
    <3>1. e.type = "set" /\ e.obj = p
      BY <1>0, <1>2, <2>1, <2>2, ChangeFate, WordFacts
    <3> QED
      BY <1>2, <3>1 DEF Change
  <2>3. CASE e \notin EventWords(p)
    <3>1. p \in cluster
      BY <1>0, <1>1, <1>2, <2>1, <2>3, ChangeFate
    <3>2. SUFFICES ASSUME p \notin cluster' PROVE FALSE
      OBVIOUS
    <3>3. p \in Known
      BY <3>1, KnownParts
    <3>4. e.obj.uid = p.uid /\ e.obj.kind = p.kind
      BY <1>0, <1>2, <2>1, <3>1, <3>2, <3>3, ChangeSucceeds
    <3>5. Managed(e.obj) /\ e.type \in {"set", "deleted"}
      BY <1>0, <1>2, <3>4, ChangeOurs, ChangeFacts
    <3>6. Topic(e.obj) = Topic(p) /\ ~Silent(e.obj)
      BY <3>4, TopicFacts
    <3> QED
      BY <1>2, <2>3, <3>5, <3>6, WordFacts
  <2> QED
    BY <2>2, <2>3
<1>3. ASSUME NEW k \in Kinds, Take(k, Head(watch[k])) PROVE p \in cluster'
  <2>1. up /\ cluster' = cluster
    BY <1>3 DEF Take
  <2> QED
    BY <1>0, <1>1, <1>3, <2>1, TakeFate
<1>4. ASSUME NEW c \in cache, Resync(c) PROVE p \in cluster'
  <2>1. up /\ cluster' = cluster
    BY <1>4 DEF Resync, clusterVars
  <2>2. CASE WillBeStored(p)' <=> WillBeStored(p)
    BY <1>1, <2>1, <2>2
  <2>3. CASE NoWord(watch[p.kind], EventWords(p)) /\ (WillBeStored(p)' <=> c = p)
    BY <1>0, <2>1, <2>3, QuietIsPresent
  <2> QED
    BY <1>0, <1>4, <2>2, <2>3, ResyncFate
<1>5. CASE Relists /\ ~up
  <2>1. cluster' = cluster
    BY <1>5 DEF Relists
  <2> QED
    BY <1>0, <1>5, <2>1, StartPresent
<1>6. CASE Handlers
  BY <1>0, <1>1, <1>6, HandlersFate, HandlersFacts
<1>7. CASE GetItem
  <2>1. up /\ cluster' = cluster
    BY <1>7 DEF GetItem, clusterVars
  <2> QED
    BY <1>0, <1>1, <1>7, <2>1, GetFate
<1>8. CASE dispatchSync \/ Returns
  <2>1. up /\ cluster' = cluster
    BY <1>8 DEF dispatchSync, Returns, Return, clusterVars
  <2> QED
    BY <1>0, <1>1, <1>8, <2>1, QuietFate
<1>9. CASE UNCHANGED vars
  <2>1. up /\ cluster' = cluster
    BY <1>9 DEF vars
  <2>2. WillBeStored(p)' <=> WillBeStored(p)
    BY <1>9 DEF vars, WillBeStored, WatchWords, QueueWords, InHand, InStore
  <2> QED
    BY <1>1, <2>1, <2>2
<1>10. CASE Die
  BY <1>10, DieFacts
<1> QED
  BY <1>0, <1>2, <1>3, <1>4, <1>5, <1>6, <1>7, <1>8, <1>9, <1>10, NextCases
     DEF Pipeline, Undisturbed

\* What travels to the store is an ingress.
LEMMA TravellingTyped ==
    ASSUME Typed, Pipeline, OnlyOurs, NEW o \in Travelling
    PROVE  o \in Objects /\ o.kind = "ingress"
<1>1. /\ Stored \in SUBSET Objects /\ Sent("ingress") \in SUBSET Events
      /\ queue.waiting \in Seq(Actions)
  BY MembersNow DEF MembersTyped, Kinds
<1>2. CASE o \in ToSet(store.ingresses)
  BY <1>1, <1>2 DEF OnlyOurs, Stored
<1>3. ASSUME NEW e \in ToSet(watch["ingress"]), o = e.obj
      PROVE  o \in Objects /\ o.kind = "ingress"
  BY <1>1, <1>3, Fields DEF Sent, Pipeline, WatchIsNews, Kinds
<1>4. ASSUME NEW a \in ToSet(queue.waiting) \cup {action}, a.op \notin {"sync", "none"},
             a.obj.kind = "ingress", o = a.obj
      PROVE  o \in Objects /\ o.kind = "ingress"
  <2>1. ToSet(queue.waiting) \subseteq Actions
    BY <1>1 DEF ToSet
  <2>2. action \in Actions \cup {NoAction} /\ NoAction.op = "none"
    BY DEF Typed, VarTypes, NoAction
  <2>3. a \in Actions
    BY <1>4, <2>1, <2>2
  <2> QED
    BY <1>4, <2>3, Fields
<1> QED
  BY <1>2, <1>3, <1>4 DEF Travelling

\* Where no watch breaks and every ingress is ours, whatever is in the store or will come to
\* be there is an ingress of the cluster in its present version: no deletion is missed or
\* overtaken by a replay, whenever the process is killed and started again.
THEOREM NothingIsLeftBehind ==
    ASSUME ~WatchLoss, \A b \in IngressBodies : isControllerIngress(b)
    PROVE  Spec => []NoGhost
<1> DEFINE I == PipelineInv /\ StoreUnique /\ OnlyOurs /\ Succeeded /\ Present
<1>0. Undisturbed
  BY DEF Undisturbed
<1>1. Init => I
  <2> SUFFICES ASSUME Init PROVE I
    OBVIOUS
  <2>1. ~up /\ cluster = {} /\ store.ingresses = <<>> /\ \A k \in Kinds : watch[k] = <<>>
    BY DEF Init, ProcessState, NewStore
  <2>2. StoreUnique
    BY <2>1 DEF StoreUnique, UniqueUids
  <2>3. OnlyOurs
    BY <2>1 DEF OnlyOurs, Sent, Stored, ToSet
  <2> QED
    BY <2>1, <2>2, <2>3, PipelineInit DEF Succeeded, Present
<1>2. I /\ [Next]_vars => I'
  <2>1. PipelineInv => Typed
    BY DEF PipelineInv
  <2> QED
    BY <1>0, <2>1, PipelineStep, UniqueStep, OursStep, SucceededStep, PresentStep
<1>3. I => NoGhost
  <2> SUFFICES ASSUME I, up, NEW o \in Travelling, WillBeStored(o) PROVE o \in Ours("ingress")
    BY DEF NoGhost
  <2>1. o \in Objects /\ o.kind = "ingress"
    BY TravellingTyped DEF PipelineInv
  <2>2. o \in cluster
    BY <2>1 DEF Present
  <2>3. Managed(o)
    BY <2>1, <2>2 DEF OnlyOurs
  <2> QED
    BY <2>1, <2>2, <2>3 DEF Ours, Listed
<1> HIDE DEF I
<1> QED
  BY <1>1, <1>2, <1>3, PTL DEF Spec
=============================================================================
