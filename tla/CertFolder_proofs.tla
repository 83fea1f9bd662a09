-------------------------- MODULE CertFolder_proofs --------------------------
(***************************************************************************)
(* The certificate folder: proofs of the types, that no file outlives its  *)
(* secret, and that the folder follows the secrets.                        *)
(***************************************************************************)
EXTENDS CertFolder, FiniteSetTheorems, NaturalsInduction, WellFoundedInduction, TLAPS

-----------------------------------------------------------------------------
(* Sequences: order, and what is appended or taken.                        *)

\* Each element of s stands in relation R to those behind it.
Sorted(s, R) == \A i, j \in DOMAIN s : i < j => <<s[i], s[j]>> \in R

\* An element is appended to which all the others stand in the relation.
LEMMA SortedAppend ==
    ASSUME NEW T, NEW s \in Seq(T), NEW e \in T, NEW R, Sorted(s, R),
           \A a \in ToSet(s) : <<a, e>> \in R
    PROVE  Sorted(Append(s, e), R)
<1> DEFINE t == Append(s, e)
           n == Len(s) + 1
<1>1. Len(s) \in Nat /\ DOMAIN s = 1 .. Len(s) /\ DOMAIN t = 1 .. n
  OBVIOUS
<1>2. (\A i \in 1 .. Len(s) : t[i] = s[i]) /\ t[n] = e
  OBVIOUS
<1>3. n \in Nat /\ n = Len(s) + 1
  BY <1>1
<1> HIDE DEF t, n
<1>4. ASSUME NEW i \in DOMAIN t, NEW j \in DOMAIN t, i < j PROVE <<t[i], t[j]>> \in R
  <2>1. i \in 1 .. Len(s) /\ (j \in 1 .. Len(s) \/ j = n)
    BY <1>1, <1>3, <1>4
  <2>2. t[i] = s[i] /\ s[i] \in ToSet(s)
    BY <1>1, <1>2, <2>1 DEF ToSet
  <2>3. CASE j = n
    BY <1>2, <2>2, <2>3
  <2>4. CASE j \in 1 .. Len(s)
    BY <1>1, <1>2, <1>4, <2>1, <2>4 DEF Sorted
  <2> QED
    BY <2>1, <2>3, <2>4
<1> QED
  BY <1>4 DEF Sorted, t

\* The elements of a sequence to which one is appended.
LEMMA AppendElements ==
    ASSUME NEW T, NEW s \in Seq(T), NEW e \in T
    PROVE  ToSet(Append(s, e)) = ToSet(s) \cup {e} /\ Append(s, e) \in Seq(T)
<1>1. Len(s) \in Nat /\ DOMAIN s = 1 .. Len(s) /\ DOMAIN Append(s, e) = 1 .. Len(s) + 1
  OBVIOUS
<1>2. (\A i \in 1 .. Len(s) : Append(s, e)[i] = s[i]) /\ Append(s, e)[Len(s) + 1] = e
  OBVIOUS
<1>3. 1 .. Len(s) + 1 = (1 .. Len(s)) \cup {Len(s) + 1}
  BY <1>1
<1> QED
  BY <1>1, <1>2, <1>3 DEF ToSet

\* The first element is taken.
LEMMA SortedTail ==
    ASSUME NEW T, NEW s \in Seq(T), s # <<>>
    PROVE  /\ Tail(s) \in Seq(T) /\ Head(s) \in T
           /\ ToSet(s) = {Head(s)} \cup ToSet(Tail(s))
           /\ \A R : Sorted(s, R) => /\ Sorted(Tail(s), R)
                                     /\ \A a \in ToSet(Tail(s)) : <<Head(s), a>> \in R
<1> DEFINE t == Tail(s)
           n == Len(s)
<1>1. n \in Nat /\ n >= 1 /\ DOMAIN s = 1 .. n
  OBVIOUS
<1>2. t \in Seq(T) /\ DOMAIN t = 1 .. n - 1 /\ \A i \in 1 .. n - 1 : t[i] = s[i + 1]
  BY <1>1
<1>3. Head(s) = s[1] /\ Head(s) \in T
  BY <1>1
<1> HIDE DEF t, n
<1>4. 1 \in 1 .. n /\ \A i \in 1 .. n - 1 : i + 1 \in 1 .. n /\ 1 < i + 1
  BY <1>1
<1>5. \A i \in 1 .. n : i = 1 \/ (i - 1 \in 1 .. n - 1 /\ i = (i - 1) + 1)
  BY <1>1
<1>6. ToSet(s) = {Head(s)} \cup ToSet(t)
  <2>1. \A i \in 1 .. n : s[i] = s[1] \/ s[i] \in ToSet(t)
    BY <1>2, <1>5 DEF ToSet
  <2>2. \A i \in 1 .. n - 1 : t[i] \in ToSet(s)
    BY <1>1, <1>2, <1>4 DEF ToSet
  <2> QED
    BY <1>1, <1>2, <1>3, <1>4, <2>1, <2>2 DEF ToSet
<1>7. ASSUME NEW R, Sorted(s, R) PROVE Sorted(t, R) /\ \A a \in ToSet(t) : <<Head(s), a>> \in R
  <2>1. ASSUME NEW i \in DOMAIN t, NEW j \in DOMAIN t, i < j PROVE <<t[i], t[j]>> \in R
    <3>1. i + 1 \in 1 .. n /\ j + 1 \in 1 .. n /\ i + 1 < j + 1
      BY <1>1, <1>2, <2>1
    <3> QED
      BY <1>1, <1>2, <1>7, <2>1, <3>1 DEF Sorted
  <2>2. ASSUME NEW j \in DOMAIN t PROVE <<Head(s), t[j]>> \in R
    BY <1>1, <1>2, <1>3, <1>4, <1>7 DEF Sorted
  <2> QED
    BY <2>1, <2>2 DEF Sorted, ToSet
<1> QED
  BY <1>2, <1>3, <1>6, <1>7 DEF t

\* The elements of a sequence are in the set it is over, and an empty one has none.
LEMMA Elements ==
    /\ \A T : \A s \in Seq(T) : ToSet(s) \in SUBSET T
    /\ \A R : Sorted(<<>>, R)
    /\ ToSet(<<>>) = {}
<1>1. ASSUME NEW T, NEW s \in Seq(T) PROVE ToSet(s) \in SUBSET T
  BY DEF ToSet
<1>2. DOMAIN <<>> = {}
  OBVIOUS
<1> QED
  BY <1>1, <1>2 DEF Sorted, ToSet

\* A set of numbers that has an element and a bound has a greatest one.
LEMMA GreatestNumber ==
    ASSUME NEW n \in Nat, NEW M \in SUBSET (1 .. n), M # {}
    PROVE  \E i \in M : \A j \in M : j <= i
<1> DEFINE D == {n - i : i \in M}
<1>1. D \in SUBSET Nat /\ D # {}
  <2>1. \A i \in M : n - i \in Nat
    OBVIOUS
  <2> QED
    BY <2>1
<1> HIDE DEF D
<1>2. IsWellFoundedOn(OpToRel(<, Nat), Nat)
  BY NatLessThanWellFounded, Zenon
<1>3. PICK d \in D : \A c \in D : ~ (<<c, d>> \in OpToRel(<, Nat))
  BY <1>1, <1>2, WFMin, Zenon
<1>4. \A c \in D : ~ (c < d)
  BY <1>1, <1>3 DEF OpToRel
<1>5. PICK i \in M : d = n - i
  BY DEF D
<1>6. ASSUME NEW j \in M PROVE j <= i
  <2>1. ~ (n - j < n - i)
    BY <1>4, <1>5 DEF D
  <2> QED
    BY <2>1
<1> QED
  BY <1>6
-----------------------------------------------------------------------------
(* The parts of the state.                                                 *)

Queues == [waiting : Seq(Actions), dirty : SUBSET Actions, processing : SUBSET Actions]

\* Items are about an ingress or a secret, or are no items.
LEMMA Items ==
    /\ \A a \in IngressActions : a.kind = "ingress" /\ a.obj \in Ingresses
    /\ \A a \in SecretActions : /\ a.kind = "secret" /\ a.op \in {"add", "update", "delete"}
                                /\ a.obj \in Secrets /\ a.old \in Secrets
    /\ NoAction.kind = "none"
    /\ NoAction \notin Actions
    /\ IngressActions \cap SecretActions = {}
<1>1. \A a \in IngressActions : a.kind = "ingress" /\ a.obj \in Ingresses
  BY DEF IngressActions
<1>2. \A a \in SecretActions : /\ a.kind = "secret" /\ a.op \in {"add", "update", "delete"}
                               /\ a.obj \in Secrets /\ a.old \in Secrets
  BY DEF SecretActions
<1>3. NoAction.kind = "none"
  BY DEF NoAction
<1> QED
  BY <1>1, <1>2, <1>3 DEF Actions

\* The item made of an ingress, and the one made of an event.
LEMMA MakeItems ==
    /\ \A ing \in Ingresses, op \in {"set", "delete"} : IngressAction(op, ing) \in IngressActions
    /\ \A s, t \in Secrets, op \in {"add", "update", "delete"} :
          /\ SecretAction(op, s, t) \in SecretActions
          /\ SecretAction(op, s, t).op = op /\ SecretAction(op, s, t).obj = s
          /\ SecretAction(op, s, t).old = t
    /\ \A s, t \in Secrets, ty \in {"add", "update", "delete", "gone"} :
          /\ Event(ty, s, t) \in Events /\ Event(ty, s, t).type = ty
          /\ Event(ty, s, t).obj = s /\ Event(ty, s, t).old = t
<1>1. \A ing \in Ingresses, op \in {"set", "delete"} : IngressAction(op, ing) \in IngressActions
  BY DEF IngressAction, IngressActions
<1>2. \A s, t \in Secrets, op \in {"add", "update", "delete"} :
          SecretAction(op, s, t) \in SecretActions
  BY DEF SecretAction, SecretActions
<1>3. \A s, t \in Secrets, op \in {"add", "update", "delete"} :
          /\ SecretAction(op, s, t).op = op /\ SecretAction(op, s, t).obj = s
          /\ SecretAction(op, s, t).old = t
  BY DEF SecretAction
<1>4. \A s, t \in Secrets, ty \in {"add", "update", "delete", "gone"} :
          Event(ty, s, t) \in Events
  BY DEF Event, Events
<1>5. \A s, t \in Secrets, ty \in {"add", "update", "delete", "gone"} :
          Event(ty, s, t).type = ty /\ Event(ty, s, t).obj = s /\ Event(ty, s, t).old = t
  BY DEF Event
<1> QED
  BY <1>1, <1>2, <1>3, <1>4, <1>5

\* The fields of an event and of a secret.
LEMMA Fields ==
    /\ \A e \in Events : /\ e.type \in {"add", "update", "delete", "gone"}
                         /\ e.obj \in Secrets /\ e.old \in Secrets
    /\ \A s \in Secrets : /\ s.ns \in Namespaces /\ s.name \in SecretNames
                          /\ s.tls \in Types /\ s.rv \in 1 .. MaxSecretRev /\ s.rv \in Nat
    /\ NoFile \notin Secrets /\ Broken \notin Secrets
<1>1. \A e \in Events : /\ e.type \in {"add", "update", "delete", "gone"}
                        /\ e.obj \in Secrets /\ e.old \in Secrets
  BY DEF Events
<1>2. \A s \in Secrets : /\ s.ns \in Namespaces /\ s.name \in SecretNames
                         /\ s.tls \in Types /\ s.rv \in 1 .. MaxSecretRev
  BY DEF Secrets
<1>3. 1 .. MaxSecretRev \in SUBSET Nat
  BY CertFolderAssumption
<1>4. \A s \in Secrets : DOMAIN s = {"ns", "name", "tls", "rv"}
  BY DEF Secrets
<1>5. DOMAIN NoFile = {"name"} /\ DOMAIN Broken = {"name"}
  BY DEF NoFile, Broken
<1>6. {"name"} # {"ns", "name", "tls", "rv"}
  <2>1. "ns" \notin {"name"} /\ "ns" \in {"ns", "name", "tls", "rv"}
    OBVIOUS
  <2> QED
    BY <2>1
<1>7. NoFile \notin Secrets /\ Broken \notin Secrets
  BY <1>4, <1>5, <1>6
<1> QED
  BY <1>1, <1>2, <1>3, <1>7

\* A queue is the record of its three fields.
LEMMA QueueFields ==
    ASSUME NEW q \in Queues
    PROVE  /\ q = [waiting |-> q.waiting, dirty |-> q.dirty, processing |-> q.processing]
           /\ q.waiting \in Seq(Actions) /\ q.dirty \in SUBSET Actions
           /\ q.processing \in SUBSET Actions
BY DEF Queues

\* What Add does to each field.
LEMMA AddFields ==
    ASSUME NEW q \in Queues, NEW a \in Actions
    PROVE  /\ Add(q, a) \in Queues
           /\ Add(q, a).dirty = q.dirty \cup {a}
           /\ Add(q, a).processing = q.processing
           /\ Add(q, a).waiting = IF a \in q.dirty \cup q.processing
                                  THEN q.waiting ELSE Append(q.waiting, a)
<1>1. q.waiting \in Seq(Actions) /\ q.dirty \in SUBSET Actions /\ q.processing \in SUBSET Actions
  BY QueueFields
<1>2. CASE a \in q.dirty
  <2>1. Add(q, a) = q /\ q.dirty = q.dirty \cup {a}
    BY <1>2 DEF Add
  <2> QED
    BY <1>2, <2>1
<1>3. CASE a \notin q.dirty
  <2> DEFINE w == IF a \in q.processing THEN q.waiting ELSE Append(q.waiting, a)
  <2>1. Add(q, a) = [waiting |-> w, dirty |-> q.dirty \cup {a}, processing |-> q.processing]
    BY <1>3, QueueFields DEF Add, Queues
  <2>2. w \in Seq(Actions)
    BY <1>1
  <2>3. w = IF a \in q.dirty \cup q.processing THEN q.waiting ELSE Append(q.waiting, a)
    BY <1>3
  <2> HIDE DEF w
  <2>4. Add(q, a) \in Queues
    BY <1>1, <2>1, <2>2 DEF Queues
  <2>5. /\ Add(q, a).dirty = q.dirty \cup {a} /\ Add(q, a).processing = q.processing
        /\ Add(q, a).waiting = w
    BY <2>1
  <2> QED
    BY <2>3, <2>4, <2>5
<1> QED
  BY <1>2, <1>3

\* Get takes an item off a queue that is not empty.
LEMMA GetFields ==
    ASSUME NEW q \in Queues, q.waiting # <<>>
    PROVE  /\ Get(q) \in Queues /\ Head(q.waiting) \in Actions
           /\ Get(q).waiting = Tail(q.waiting)
           /\ Get(q).dirty = q.dirty \ {Head(q.waiting)}
           /\ Get(q).processing = q.processing \cup {Head(q.waiting)}
<1>1. q.waiting \in Seq(Actions) /\ q.dirty \in SUBSET Actions /\ q.processing \in SUBSET Actions
  BY QueueFields
<1>2. Head(q.waiting) \in Actions /\ Tail(q.waiting) \in Seq(Actions)
  BY <1>1
<1>3. Get(q) = [waiting |-> Tail(q.waiting), dirty |-> q.dirty \ {Head(q.waiting)},
                processing |-> q.processing \cup {Head(q.waiting)}]
  BY DEF Get
<1> QED
  BY <1>1, <1>2, <1>3 DEF Queues

\* Done gives a queue.
LEMMA DoneFields ==
    ASSUME NEW q \in Queues, NEW a \in Actions
    PROVE  /\ Done(q, a) \in Queues
           /\ Done(q, a).waiting = IF a \in q.dirty THEN Append(q.waiting, a) ELSE q.waiting
           /\ Done(q, a).dirty = q.dirty
           /\ Done(q, a).processing = q.processing \ {a}
<1> DEFINE w == IF a \in q.dirty THEN Append(q.waiting, a) ELSE q.waiting
<1>1. q.waiting \in Seq(Actions) /\ q.dirty \in SUBSET Actions /\ q.processing \in SUBSET Actions
  BY QueueFields
<1>2. Done(q, a) = [waiting |-> w, dirty |-> q.dirty, processing |-> q.processing \ {a}]
  BY DEF Done
<1>3. w \in Seq(Actions)
  BY <1>1
<1>4. w = IF a \in q.dirty THEN Append(q.waiting, a) ELSE q.waiting
  OBVIOUS
<1> HIDE DEF w
<1>5. Done(q, a) \in Queues
  BY <1>1, <1>2, <1>3 DEF Queues
<1>6. /\ Done(q, a).waiting = w /\ Done(q, a).dirty = q.dirty
      /\ Done(q, a).processing = q.processing \ {a}
  BY <1>2
<1> QED
  BY <1>4, <1>5, <1>6

\* AddIngress and PluckIngress on a list of ingresses give one, and PluckIngress adds nothing.
LEMMA StoreLists ==
    ASSUME NEW ings \in Seq(Ingresses), NEW ing
    PROVE  /\ ing \in Ingresses => AddIngress(ings, ing) \in Seq(Ingresses)
           /\ PluckIngress(ings, ing) \in Seq(Ingresses)
           /\ ToSet(PluckIngress(ings, ing)) \in SUBSET ToSet(ings)
<1>1. ing \in Ingresses => AddIngress(ings, ing) \in Seq(Ingresses)
  BY DEF AddIngress, Matches
<1>2. CASE Matches(ings, ing) = {}
  BY <1>1, <1>2 DEF PluckIngress
<1>3. CASE Matches(ings, ing) # {}
  <2>1. Len(ings) \in Nat /\ Len(ings) >= 1 /\ DOMAIN ings = 1 .. Len(ings)
    BY <1>3 DEF Matches
  <2>2. PICK first : PluckIngress(ings, ing) =
          [i \in 1 .. Len(ings) - 1 |-> IF i = first THEN ings[Len(ings)] ELSE ings[i]]
    BY <1>3 DEF PluckIngress
  <2>3. \A i \in 1 .. Len(ings) : ings[i] \in Ingresses /\ ings[i] \in ToSet(ings)
    BY <2>1 DEF ToSet
  <2>4. Len(ings) \in 1 .. Len(ings) /\ 1 .. Len(ings) - 1 \in SUBSET (1 .. Len(ings))
    BY <2>1
  <2>5. PluckIngress(ings, ing) \in Seq(Ingresses)
    BY <2>1, <2>2, <2>3
  <2>6. ToSet(PluckIngress(ings, ing)) \in SUBSET ToSet(ings)
    BY <2>2, <2>3, <2>4 DEF ToSet
  <2> QED
    BY <1>1, <2>5, <2>6
<1> QED
  BY <1>2, <1>3
-----------------------------------------------------------------------------
(* Writing the listed secrets.                                             *)

\* The places of a list are pairs of numbers, and the lister has a secret for each.
LEMMA Places ==
    ASSUME NEW lister \in SUBSET Secrets, NEW ings \in Seq(Ingresses),
           NEW p \in ListTLSSecrets(lister, ings)
    PROVE  /\ p[1] \in 1 .. Len(ings)
           /\ p[2] \in 1 .. Len(ings[p[1]].spec.secrets)
           /\ NameAt(ings, p) \in SecretNames
           /\ \E s \in lister : s \in SecretsAt(lister, ings, p)
           /\ \A s \in SecretsAt(lister, ings, p) : s \in lister /\ s.name = NameAt(ings, p)
<1>1. PICK i \in DOMAIN ings : \E j \in DOMAIN ings[i].spec.secrets : p = <<i, j>>
  BY DEF ListTLSSecrets
<1>0. PICK j \in DOMAIN ings[i].spec.secrets : p = <<i, j>>
  BY <1>1
<1>2. p[1] = i /\ p[2] = j
  BY <1>0
<1>3. ings[i] \in Ingresses /\ DOMAIN ings = 1 .. Len(ings)
  OBVIOUS
<1>4. ings[i].spec.secrets \in Seq(SecretNames)
  BY <1>3, CertFolderAssumption DEF Ingresses
<1>5. DOMAIN ings[i].spec.secrets = 1 .. Len(ings[i].spec.secrets)
  BY <1>4
<1>6. ings[i].spec.secrets[j] \in SecretNames
  BY <1>4, <1>5
<1>7. SecretsAt(lister, ings, p) # {} /\ SecretsAt(lister, ings, p) \in SUBSET lister
  BY DEF ListTLSSecrets, SecretsAt
<1>8. \A s \in SecretsAt(lister, ings, p) : s \in lister /\ s.name = NameAt(ings, p)
  BY DEF SecretsAt
<1> QED
  BY <1>0, <1>2, <1>3, <1>5, <1>6, <1>7, <1>8 DEF NameAt

\* Some places of a list have a last one.
LEMMA LastPlace ==
    ASSUME NEW lister \in SUBSET Secrets, NEW ings \in Seq(Ingresses),
           NEW named \in SUBSET ListTLSSecrets(lister, ings), named # {}
    PROVE  \E p \in named : \A q \in named : ~Before(p, q)
<1> DEFINE I == {p[1] : p \in named}
<1>1. \A p \in named : p[1] \in 1 .. Len(ings) /\ p[2] \in 1 .. Len(ings[p[1]].spec.secrets)
  BY Places
<1>2. I \in SUBSET (1 .. Len(ings)) /\ I # {} /\ Len(ings) \in Nat
  BY <1>1
<1>9. \A k \in I : k \in Nat
  BY <1>1
<1>3. PICK i \in I : \A k \in I : k <= i
  <2> HIDE DEF I
  <2> QED
    BY <1>2, GreatestNumber
<1> DEFINE n == Len(ings[i].spec.secrets)
           J == {p[2] : p \in {q \in named : q[1] = i}}
<1>4. n \in Nat
  <2>1. i \in 1 .. Len(ings)
    BY <1>2
  <2>2. ings[i] \in Ingresses
    BY <2>1
  <2> QED
    BY <2>2, CertFolderAssumption DEF Ingresses
<1>5. J \in SUBSET (1 .. n) /\ J # {}
  BY <1>1
<1>10. \A k \in J : k \in Nat
  BY <1>1
<1>6. PICK j \in J : \A k \in J : k <= j
  <2> HIDE DEF J, n, I
  <2> QED
    BY <1>4, <1>5, GreatestNumber
<1>7. PICK p \in named : p[1] = i /\ p[2] = j
  OBVIOUS
<1>8. ASSUME NEW q \in named PROVE ~Before(p, q)
  <2>1. q[1] \in I /\ (q[1] = i => q[2] \in J)
    OBVIOUS
  <2> HIDE DEF I, J, n
  <2>2. q[1] <= i /\ (q[1] = i => q[2] <= j)
    BY <1>3, <1>6, <2>1
  <2>3. i \in Nat /\ q[1] \in Nat
    BY <1>9, <2>1
  <2>4. j \in Nat /\ (q[1] = i => q[2] \in Nat)
    BY <1>10, <2>1
  <2> QED
    BY <1>7, <2>2, <2>3, <2>4 DEF Before
<1> QED
  BY <1>8

\* writeFiles leaves a file alone or writes a secret of its name that the lister has.
LEMMA Written ==
    ASSUME NEW f \in Folders, NEW lister \in SUBSET Secrets, NEW ings \in Seq(Ingresses),
           NEW places \in SUBSET ListTLSSecrets(lister, ings)
    PROVE  /\ writeFiles(f, lister, ings, places) \in Folders
           /\ \A n \in SecretNames :
                 LET w == writeFiles(f, lister, ings, places)[n]
                 IN  w = f[n] \/ (w \in lister /\ w.name = n)
<1> DEFINE w == writeFiles(f, lister, ings, places)
<1>1. ASSUME NEW n \in SecretNames PROVE w[n] = f[n] \/ (w[n] \in lister /\ w[n].name = n)
  <2> DEFINE named == {p \in places : NameAt(ings, p) = n}
             last  == CHOOSE p \in named : \A q \in named : ~Before(p, q)
  <2>1. w[n] = IF named = {} THEN f[n] ELSE CHOOSE s \in SecretsAt(lister, ings, last) : TRUE
    BY DEF writeFiles
  <2>2. CASE named = {}
    BY <2>1, <2>2
  <2>3. CASE named # {}
    <3>1. named \in SUBSET ListTLSSecrets(lister, ings)
      OBVIOUS
    <3>2. \E p \in named : \A q \in named : ~Before(p, q)
      BY <2>3, <3>1, LastPlace
    <3>3. last \in named
      BY <3>2
    <3>4. last \in ListTLSSecrets(lister, ings) /\ NameAt(ings, last) = n
      BY <3>3
    <3> HIDE DEF last
    <3>5. /\ \E s \in lister : s \in SecretsAt(lister, ings, last)
          /\ \A s \in SecretsAt(lister, ings, last) : s \in lister /\ s.name = n
      BY <3>4, Places
    <3>6. w[n] = CHOOSE s \in SecretsAt(lister, ings, last) : TRUE
      BY <2>1, <2>3
    <3>7. w[n] \in SecretsAt(lister, ings, last)
      BY <3>5, <3>6
    <3> QED
      BY <3>5, <3>7
  <2> QED
    BY <2>2, <2>3
<1>2. w = [n \in SecretNames |-> w[n]]
  BY DEF writeFiles
<1> HIDE DEF w
<1>3. w \in Folders
  BY <1>1, <1>2 DEF Folders
<1> QED
  BY <1>1, <1>3 DEF w
-----------------------------------------------------------------------------
(* Type correctness.                                                       *)

\* VarTypes with the variables it leaves out, the queue among them.
Typed ==
    /\ VarTypes
    /\ queue \in Queues
    /\ ingressRev \in 0 .. MaxIngressRev
    /\ secretRev \in 0 .. MaxSecretRev
    /\ IsFiniteSet(ingresses)

\* The types of the parts of the state that are not sets.
LEMMA Parts ==
    ASSUME Typed
    PROVE  /\ queue.waiting \in Seq(Actions) /\ queue.dirty \in SUBSET Actions
           /\ queue.processing \in SUBSET Actions
           /\ events \in Seq(Events) /\ store \in Seq(Ingresses)
           /\ worker # "idle" => action \in Actions
           /\ secrets \in SUBSET Secrets /\ cache \in SUBSET secrets /\ cache \in SUBSET Secrets
           /\ folder \in Folders /\ secretRev \in Nat /\ ingressRev \in Nat
           /\ \A n \in SecretNames : folder[n] \in Secrets \cup {NoFile, Broken}
<1>1. queue \in Queues
  BY DEF Typed
<1>2. /\ queue.waiting \in Seq(Actions) /\ queue.dirty \in SUBSET Actions
      /\ queue.processing \in SUBSET Actions
  BY <1>1, QueueFields
<1>3. 0 .. MaxSecretRev \in SUBSET Nat /\ 0 .. MaxIngressRev \in SUBSET Nat
  BY CertFolderAssumption
<1>4. \A n \in SecretNames : folder[n] \in Secrets \cup {NoFile, Broken}
  BY DEF Typed, VarTypes, Folders
<1> QED
  BY <1>2, <1>3, <1>4 DEF Typed, VarTypes

\* The empty queue and the empty folder.
LEMMA Empties ==
    /\ EmptyQueue \in Queues /\ EmptyFolder \in Folders
    /\ EmptyQueue.waiting = <<>> /\ EmptyQueue.dirty = {} /\ EmptyQueue.processing = {}
    /\ \A n \in SecretNames : EmptyFolder[n] = NoFile
BY DEF EmptyQueue, Queues, EmptyFolder, Folders

\* The initial state has the right type.
LEMMA TypedInit == Init => Typed
<1> SUFFICES ASSUME Init PROVE Typed
  OBVIOUS
<1>1. IsFiniteSet({})
  BY FS_EmptySet
<1>2. 0 \in 0 .. MaxIngressRev /\ 0 \in 0 .. MaxSecretRev
  BY CertFolderAssumption
<1>3. watching \in BOOLEAN /\ (worker = "idle" <=> action = NoAction)
  BY DEF Init
<1>4. /\ events \in Seq(Events) /\ store \in Seq(Ingresses)
      /\ worker \in {"idle", "handle", "cut", "list", "reload"}
      /\ action \in Actions \cup {NoAction} /\ folder \in Folders /\ certs \in Folders
      /\ queue \in Queues
  BY Empties DEF Init
<1>5. /\ ingresses \in SUBSET Ingresses /\ secrets \in SUBSET Secrets /\ cache \in SUBSET secrets
      /\ unwritten \cup unremoved \cup missed \subseteq SecretNames /\ dropped \subseteq Secrets
  BY DEF Init
<1>6. /\ IsFiniteSet(ingresses)
      /\ ingressRev \in 0 .. MaxIngressRev /\ secretRev \in 0 .. MaxSecretRev
  BY <1>1, <1>2 DEF Init
<1>7. VarTypes
  BY <1>3, <1>4, <1>5 DEF VarTypes
<1> QED
  BY <1>4, <1>6, <1>7 DEF Typed

\* The ingress informer queues an item.
LEMMA TypedIngress ==
    ASSUME Typed,
           \/ \E u \in Uids, spec \in IngressSpecs : SetIngress(u, spec)
           \/ \E ing \in ingresses : RemoveIngress(ing)
           \/ \E ing \in ingresses : ResyncIngress(ing)
    PROVE  /\ Typed'
           /\ queue' = queue \/ \E a \in IngressActions : queue' = Add(queue, a)
           /\ ~up => queue' = queue
           /\ UNCHANGED <<secrets, secretRev, missed, informerVars, store, worker, action,
                          diskVars, caddyVars, up>>
<1>1. ASSUME ingressRev < MaxIngressRev
      PROVE  ingressRev + 1 \in 1 .. MaxIngressRev /\ ingressRev + 1 \in 0 .. MaxIngressRev
  BY <1>1, CertFolderAssumption DEF Typed
<1>2. ASSUME NEW a \in IngressActions, Enqueue(a)
      PROVE  /\ queue' \in Queues
             /\ queue' = queue \/ \E b \in IngressActions : queue' = Add(queue, b)
             /\ ~up => queue' = queue
  <2>1. a \in Actions /\ queue \in Queues
    BY DEF Actions, Typed
  <2> QED
    BY <1>2, <2>1, AddFields DEF Enqueue
<1>3. ASSUME NEW u \in Uids, NEW spec \in IngressSpecs, SetIngress(u, spec)
      PROVE  Typed' /\ (queue' = queue \/ \E a \in IngressActions : queue' = Add(queue, a))
             /\ (~up => queue' = queue)
  <2> DEFINE old == {ing \in ingresses : ing.uid = u}
             new == [uid |-> u, rv |-> ingressRev + 1, spec |-> spec]
  <2>1. /\ ingressRev < MaxIngressRev /\ ingressRev' = ingressRev + 1
        /\ ingresses' = (ingresses \ old) \cup {new} /\ Enqueue(IngressAction("set", new))
    BY <1>3 DEF SetIngress
  <2>2. UNCHANGED <<secrets, secretRev, missed, watching, cache, events, dropped, store, worker,
                    action, folder, unwritten, unremoved, lastApplied, certs, up>>
    BY <1>3 DEF SetIngress, informerVars, diskVars, caddyVars
  <2>3. new \in Ingresses
    BY <1>1, <2>1 DEF Ingresses
  <2>4. old \in SUBSET ingresses
    OBVIOUS
  <2> HIDE DEF old, new
  <2>5. IngressAction("set", new) \in IngressActions
    BY <2>3, MakeItems
  <2>6. IsFiniteSet(ingresses \ old)
    BY <2>4, FS_Subset DEF Typed
  <2>7. IsFiniteSet(ingresses')
    BY <2>1, <2>6, FS_AddElement
  <2>8. ingresses' \in SUBSET Ingresses
    BY <2>1, <2>3 DEF Typed, VarTypes
  <2> QED
    BY <1>1, <1>2, <2>1, <2>2, <2>5, <2>7, <2>8 DEF Typed, VarTypes
<1>4. ASSUME NEW ing \in ingresses, RemoveIngress(ing)
      PROVE  Typed' /\ (queue' = queue \/ \E a \in IngressActions : queue' = Add(queue, a))
             /\ (~up => queue' = queue)
  <2>1. /\ ingressRev < MaxIngressRev /\ ingressRev' = ingressRev + 1
        /\ ingresses' = ingresses \ {ing} /\ Enqueue(IngressAction("delete", ing))
    BY <1>4 DEF RemoveIngress
  <2>2. UNCHANGED <<secrets, secretRev, missed, watching, cache, events, dropped, store, worker,
                    action, folder, unwritten, unremoved, lastApplied, certs, up>>
    BY <1>4 DEF RemoveIngress, informerVars, diskVars, caddyVars
  <2>3. IngressAction("delete", ing) \in IngressActions
    BY MakeItems DEF Typed, VarTypes
  <2>4. IsFiniteSet(ingresses')
    BY <2>1, FS_RemoveElement DEF Typed
  <2> QED
    BY <1>1, <1>2, <2>1, <2>2, <2>3, <2>4 DEF Typed, VarTypes
<1>5. ASSUME NEW ing \in ingresses, ResyncIngress(ing)
      PROVE  Typed' /\ (queue' = queue \/ \E a \in IngressActions : queue' = Add(queue, a))
             /\ (~up => queue' = queue)
  <2>1. up /\ queue' = Add(queue, IngressAction("set", ing))
    BY <1>5 DEF ResyncIngress
  <2>2. UNCHANGED <<ingresses, ingressRev, secrets, secretRev, missed, watching, cache, events,
                    dropped, store, worker, action, folder, unwritten, unremoved, lastApplied, certs, up>>
    BY <1>5 DEF ResyncIngress, clusterVars, informerVars, diskVars, caddyVars
  <2>3. IngressAction("set", ing) \in IngressActions
    BY MakeItems DEF Typed, VarTypes
  <2>4. Enqueue(IngressAction("set", ing))
    BY <2>1 DEF Enqueue
  <2> QED
    BY <1>2, <2>1, <2>2, <2>3, <2>4 DEF Typed, VarTypes
<1>6. UNCHANGED <<secrets, secretRev, missed, informerVars, store, worker, action,
                  diskVars, caddyVars, up>>
  BY DEF SetIngress, RemoveIngress, ResyncIngress, clusterVars
<1> QED
  BY <1>3, <1>4, <1>5, <1>6

\* What the secrets and their informer do to the state, apart from the secrets themselves.
Tells ==
    /\ UNCHANGED <<ingresses, ingressRev, watching, dropped, queue, store, worker, action,
                   folder, unwritten, unremoved, lastApplied, certs, up>>

\* A step of the secrets or of their informer.
LEMMA TypedSecrets ==
    ASSUME Typed,
           \/ \E ns \in Namespaces, n \in SecretNames, tls \in Types : CreateSecret(ns, n, tls)
           \/ \E s \in secrets : \/ UpdateSecret(s) \/ Observe(s)
                                 \/ \E how \in {"delete", "gone"} : DeleteSecret(s, how)
           \/ \E s \in cache : Resync(s)
    PROVE  Typed' /\ Tells
<1>1. Tells
  BY DEF Tells, CreateSecret, UpdateSecret, DeleteSecret, Observe, Resync, SecretVars, clusterVars,
         diskVars, caddyVars
<1>2. ASSUME secretRev < MaxSecretRev
      PROVE  secretRev + 1 \in 1 .. MaxSecretRev /\ secretRev + 1 \in 0 .. MaxSecretRev
  BY <1>2, CertFolderAssumption DEF Typed
<1>3. \A s \in secrets : s \in Secrets
  BY Parts
<1>4. ASSUME NEW e \in Events PROVE Append(events, e) \in Seq(Events)
  BY Parts
<1> USE <1>1 DEF Tells
<1>5. ASSUME NEW ns \in Namespaces, NEW n \in SecretNames, NEW tls \in Types,
             CreateSecret(ns, n, tls)
      PROVE  Typed'
  <2> DEFINE new == [ns |-> ns, name |-> n, tls |-> tls, rv |-> secretRev + 1]
  <2>1. /\ secretRev < MaxSecretRev /\ secretRev' = secretRev + 1
        /\ secrets' = secrets \cup {new} /\ UNCHANGED <<missed, cache, events>>
    BY <1>5 DEF CreateSecret
  <2>2. new \in Secrets
    BY <1>2, <2>1 DEF Secrets
  <2> HIDE DEF new
  <2> QED
    BY <1>2, <2>1, <2>2 DEF Typed, VarTypes
<1>6. ASSUME NEW s \in secrets, UpdateSecret(s)
      PROVE  Typed'
  <2> DEFINE new == [s EXCEPT !.rv = secretRev + 1]
  <2>1. /\ secretRev < MaxSecretRev /\ secretRev' = secretRev + 1
        /\ secrets' = (secrets \ {s}) \cup {new} /\ missed' = missed
        /\ Notify(s, {new}, Event("update", new, s))
    BY <1>6 DEF UpdateSecret
  <2>2. new \in Secrets
    BY <1>2, <1>3, <2>1 DEF Secrets
  <2> HIDE DEF new
  <2>3. Event("update", new, s) \in Events
    BY <1>3, <2>2, MakeItems
  <2>4. cache' \in SUBSET secrets' /\ events' \in Seq(Events)
    <3>1. CASE s \in cache
      BY <1>4, <2>1, <2>3, <3>1, Parts DEF Notify
    <3>2. CASE s \notin cache
      BY <2>1, <3>2, Parts DEF Notify
    <3> QED
      BY <3>1, <3>2
  <2>5. secrets' \in SUBSET Secrets
    BY <2>1, <2>2, Parts
  <2> QED
    BY <1>2, <2>1, <2>4, <2>5 DEF Typed, VarTypes
<1>7. ASSUME NEW s \in secrets, NEW how \in {"delete", "gone"}, DeleteSecret(s, how)
      PROVE  Typed'
  <2>1. /\ secretRev < MaxSecretRev /\ secretRev' = secretRev + 1
        /\ secrets' = secrets \ {s} /\ missed' \in {missed, missed \cup {s.name}}
        /\ Notify(s, {}, Event(how, s, s))
    BY <1>7 DEF DeleteSecret
  <2>2. Event(how, s, s) \in Events
    BY <1>3, MakeItems
  <2>3. cache' \in SUBSET secrets' /\ events' \in Seq(Events)
    <3>1. CASE s \in cache
      BY <1>4, <2>1, <2>2, <3>1, Parts DEF Notify
    <3>2. CASE s \notin cache
      BY <2>1, <3>2, Parts DEF Notify
    <3> QED
      BY <3>1, <3>2
  <2>4. s.name \in SecretNames
    BY <1>3, Fields
  <2> QED
    BY <1>2, <2>1, <2>3, <2>4 DEF Typed, VarTypes
<1>8. ASSUME NEW s \in secrets, Observe(s)
      PROVE  Typed'
  <2>1. /\ cache' = cache \cup {s} /\ events' = Append(events, Event("add", s, s))
        /\ UNCHANGED <<secrets, secretRev, missed>>
    BY <1>8 DEF Observe, clusterVars
  <2>2. Event("add", s, s) \in Events
    BY <1>3, MakeItems
  <2> QED
    BY <1>4, <2>1, <2>2 DEF Typed, VarTypes
<1>9. ASSUME NEW s \in cache, Resync(s)
      PROVE  Typed'
  <2>1. events' = <<Event("update", s, s)>> /\ UNCHANGED <<secrets, secretRev, missed, cache>>
    BY <1>9 DEF Resync, clusterVars
  <2>2. Event("update", s, s) \in Events
    BY <1>3, MakeItems, Parts
  <2>3. events' \in Seq(Events)
    BY <2>1, <2>2
  <2> QED
    BY <2>1, <2>3 DEF Typed, VarTypes
<1> QED
  BY <1>5, <1>6, <1>7, <1>8, <1>9

\* Does the informer tell its handlers of the event?
Says(e) == e.obj.tls /\ e.type # "gone"

\* The item they queue for it, if the secret is managed.
ItemOf(e) == SecretAction(e.type, e.obj, IF e.type = "update" THEN e.old ELSE e.obj)

\* The item of an event is an item about its secret.
LEMMA ItemOfFacts ==
    ASSUME NEW e \in Events, Says(e)
    PROVE  ItemOf(e) \in SecretActions /\ ItemOf(e).op = e.type /\ ItemOf(e).obj = e.obj
<1>1. e.type \in {"add", "update", "delete"} /\ e.obj \in Secrets /\ e.old \in Secrets
  BY Fields DEF Says
<1>2. (IF e.type = "update" THEN e.old ELSE e.obj) \in Secrets
  BY <1>1
<1> QED
  BY <1>1, <1>2, MakeItems DEF ItemOf

\* An event is handled: nothing is said, an item is queued, or the secret is dropped.
LEMMA EventHandled ==
    ASSUME Typed, HandleEvent
    PROVE  /\ events # <<>> /\ Head(events) \in Events /\ events' = Tail(events)
           /\ \/ ~Says(Head(events)) /\ queue' = queue /\ dropped' = dropped
              \/ /\ Says(Head(events)) /\ queue' = Add(queue, ItemOf(Head(events)))
                 /\ dropped' = dropped
              \/ /\ Says(Head(events)) /\ Head(events).type # "delete" /\ queue' = queue
                 /\ dropped' = dropped \cup {Head(events).obj}
           /\ UNCHANGED <<ingresses, secrets, ingressRev, secretRev, missed, watching, cache, store,
                          worker, action, folder, unwritten, unremoved, lastApplied, certs, up>>
<1> DEFINE e == Head(events)
<1>1. events # <<>> /\ events' = Tail(events)
  BY DEF HandleEvent
<1>2. e \in Events
  BY <1>1, Parts
<1>3. queue' = CASE ~e.obj.tls \/ e.type = "gone"        -> queue
                 [] e.obj.tls /\ e.type = "add"    -> onSecretAdded(queue, e.obj)
                 [] e.obj.tls /\ e.type = "update" -> onSecretUpdated(queue, e.old, e.obj)
                 [] e.obj.tls /\ e.type = "delete" -> onSecretDeleted(queue, e.obj)
  BY DEF HandleEvent
<1>4. dropped' = IF /\ e.obj.tls /\ e.type \in {"add", "update"}
                    /\ ~IsManagedTLSSecret(e.obj, SeenIngresses)
                 THEN dropped \cup {e.obj} ELSE dropped
  BY DEF HandleEvent
<1>5. UNCHANGED <<ingresses, secrets, ingressRev, secretRev, missed, watching, cache, store,
                  worker, action, folder, unwritten, unremoved, lastApplied, certs, up>>
  BY DEF HandleEvent, clusterVars, diskVars, caddyVars
<1>6. e.type \in {"add", "update", "delete", "gone"}
  BY <1>2, Fields
<1> HIDE DEF e
<1> DEFINE managed == IsManagedTLSSecret(e.obj, SeenIngresses)
<1>7. CASE ~Says(e)
  <2>1. queue' = queue
    BY <1>3, <1>7 DEF Says
  <2>2. ~(e.obj.tls /\ e.type \in {"add", "update"})
    BY <1>7 DEF Says
  <2>3. dropped' = dropped
    BY <1>4, <2>2
  <2> QED
    BY <1>1, <1>2, <1>5, <1>7, <2>1, <2>3 DEF e
<1>8. CASE Says(e) /\ e.type = "delete"
  <2>1. queue' = onSecretDeleted(queue, e.obj)
    BY <1>3, <1>8 DEF Says
  <2>2. ItemOf(e) = SecretAction("delete", e.obj, e.obj)
    BY <1>8 DEF ItemOf
  <2>3. dropped' = dropped
    BY <1>4, <1>8
  <2> QED
    BY <1>1, <1>2, <1>5, <1>8, <2>1, <2>2, <2>3 DEF e, onSecretDeleted
<1>9. CASE Says(e) /\ e.type = "add"
  <2>1. queue' = onSecretAdded(queue, e.obj)
    BY <1>3, <1>9 DEF Says
  <2>2. ItemOf(e) = SecretAction("add", e.obj, e.obj)
    BY <1>9 DEF ItemOf
  <2>3. queue' = IF managed THEN Add(queue, ItemOf(e)) ELSE queue
    BY <2>1, <2>2 DEF onSecretAdded
  <2>4. dropped' = IF ~managed THEN dropped \cup {e.obj} ELSE dropped
    BY <1>4, <1>9 DEF Says
  <2> HIDE DEF managed
  <2> QED
    BY <1>1, <1>2, <1>5, <1>9, <2>3, <2>4 DEF e
<1>10. CASE Says(e) /\ e.type = "update"
  <2>1. queue' = onSecretUpdated(queue, e.old, e.obj)
    BY <1>3, <1>10 DEF Says
  <2>2. ItemOf(e) = SecretAction("update", e.obj, e.old)
    BY <1>10 DEF ItemOf
  <2>3. queue' = IF managed THEN Add(queue, ItemOf(e)) ELSE queue
    BY <2>1, <2>2 DEF onSecretUpdated
  <2>4. dropped' = IF ~managed THEN dropped \cup {e.obj} ELSE dropped
    BY <1>4, <1>10 DEF Says
  <2> HIDE DEF managed
  <2> QED
    BY <1>1, <1>2, <1>5, <1>10, <2>3, <2>4 DEF e
<1> QED
  BY <1>6, <1>7, <1>8, <1>9, <1>10 DEF Says

\* An event is handled: the types.
LEMMA TypedEvent == Typed /\ HandleEvent => Typed'
<1> SUFFICES ASSUME Typed, HandleEvent PROVE Typed'
  OBVIOUS
<1> DEFINE e == Head(events)
<1>1. events' \in Seq(Events) /\ e \in Events /\ e.obj \in Secrets
  <2>1. events # <<>> /\ events' = Tail(events) /\ e \in Events
    BY EventHandled
  <2> QED
    BY <2>1, Parts, Fields
<1>2. UNCHANGED <<ingresses, secrets, ingressRev, secretRev, missed, watching, cache, store,
                  worker, action, folder, unwritten, unremoved, lastApplied, certs, up>>
  BY EventHandled
<1>3. queue' = queue \/ (Says(e) /\ queue' = Add(queue, ItemOf(e)))
  BY EventHandled
<1>4. dropped' = dropped \/ dropped' = dropped \cup {e.obj}
  BY EventHandled
<1> HIDE DEF e
<1>5. Says(e) => ItemOf(e) \in Actions
  BY <1>1, ItemOfFacts DEF Actions
<1>6. queue' \in Queues
  BY <1>3, <1>5, AddFields DEF Typed
<1> QED
  BY <1>1, <1>2, <1>4, <1>6 DEF Typed, VarTypes

\* The worker takes an item.
LEMMA TypedGet == Typed /\ GetItem => Typed'
<1> SUFFICES ASSUME Typed, GetItem PROVE Typed'
  OBVIOUS
<1>1. queue.waiting # <<>> /\ worker' = "handle" /\ action' = Head(queue.waiting)
      /\ queue' = Get(queue)
  BY DEF GetItem
<1>2. UNCHANGED <<ingresses, secrets, ingressRev, secretRev, missed, watching, cache, events,
                  dropped, store, folder, unwritten, unremoved, lastApplied, certs, up>>
  BY DEF GetItem, clusterVars, informerVars, diskVars, caddyVars
<1>3. queue' \in Queues /\ action' \in Actions
  BY <1>1, GetFields DEF Typed
<1>4. action' # NoAction
  BY <1>3, Items
<1> QED
  BY <1>1, <1>2, <1>3, <1>4 DEF Typed, VarTypes

\* The worker goes on with its item, or is done with it.
Stay == worker' \in {"cut", "list", "reload"} /\ queue' = queue /\ action' = action

Back == worker' = "idle" /\ action' = NoAction /\ queue' = Done(queue, action)

\* What every step of the worker has in common.
LEMMA WorkerSteps ==
    ASSUME Handlers \/ ReloadCaddy \/ LoadFails
    PROVE  /\ worker # "idle"
           /\ Stay \/ Back
           /\ UNCHANGED <<ingresses, secrets, ingressRev, secretRev, missed, cache, events, up>>
<1>1. CASE HandleIngressSet
  BY <1>1 DEF HandleIngressSet, Handling, Goto, Stay, clusterVars
<1>2. CASE MkdirFails
  BY <1>2 DEF MkdirFails, Handling, HandleFailed, Finish, Back, clusterVars, informerVars
<1>3. CASE StartPluck
  BY <1>3 DEF StartPluck, Handling, Goto, Stay, clusterVars, informerVars
<1>4. CASE HandleIngressDeleted
  BY <1>4 DEF HandleIngressDeleted, Goto, Stay, clusterVars, informerVars
<1>5. CASE SyncSecrets
  BY <1>5 DEF SyncSecrets, Goto, Stay, HandleFailed, Finish, Back, clusterVars, informerVars
<1>6. CASE HandleSecretSet
  BY <1>6 DEF HandleSecretSet, Handling, Goto, Stay, clusterVars
<1>7. CASE WriteFails
  BY <1>7 DEF WriteFails, Handling, HandleFailed, Finish, Back, clusterVars, informerVars
<1>8. CASE HandleSecretDeleted
  BY <1>8 DEF HandleSecretDeleted, Handling, Goto, Stay, HandleFailed, Finish, Back,
              clusterVars, informerVars
<1>9. CASE RemoveFails
  BY <1>9 DEF RemoveFails, Handling, HandleFailed, Finish, Back, clusterVars, informerVars
<1>10. CASE ReloadCaddy
  BY <1>10 DEF ReloadCaddy, Finish, Back, clusterVars, informerVars
<1>11. CASE LoadFails
  BY <1>11 DEF LoadFails, Finish, Back, clusterVars, informerVars
<1> QED
  BY <1>1, <1>2, <1>3, <1>4, <1>5, <1>6, <1>7, <1>8, <1>9, <1>10, <1>11 DEF Handlers

\* The item in hand is about what its kind says.
LEMMA InHand ==
    ASSUME Typed, worker = "handle"
    PROVE  /\ action.kind = "ingress" => action \in IngressActions /\ action.obj \in Ingresses
           /\ action.kind = "secret" => action \in SecretActions /\ action.obj \in Secrets
           /\ action \in SecretActions => action.kind = "secret"
<1>1. action \in Actions
  BY Parts
<1> QED
  BY <1>1, Items DEF Actions

\* A step of the worker: the types of what it changes.
LEMMA TypedWorker == Typed /\ (Handlers \/ ReloadCaddy \/ LoadFails) => Typed'
<1> SUFFICES ASSUME Typed, Handlers \/ ReloadCaddy \/ LoadFails PROVE Typed'
  OBVIOUS
<1> DEFINE Disk == /\ store' \in Seq(Ingresses) /\ folder' \in Folders
                   /\ unwritten' \cup unremoved' \subseteq SecretNames /\ dropped' \subseteq Secrets
                   /\ certs' \in Folders
<1>1. /\ worker # "idle" /\ (Stay \/ Back)
      /\ UNCHANGED <<ingresses, secrets, ingressRev, secretRev, missed, cache, events, up>>
  BY WorkerSteps
<1>2. action \in Actions /\ queue \in Queues
  BY <1>1, Parts DEF Typed
<1>3. queue' \in Queues
  BY <1>1, <1>2, DoneFields DEF Stay, Back
<1>4. /\ worker' \in {"idle", "handle", "cut", "list", "reload"}
      /\ action' \in Actions \cup {NoAction}
      /\ worker' = "idle" <=> action' = NoAction
  <2>1. CASE Stay
    BY <1>2, <2>1, Items DEF Stay
  <2>2. CASE Back
    BY <2>2 DEF Back
  <2> QED
    BY <1>1, <2>1, <2>2
<1>5. /\ store \in Seq(Ingresses) /\ folder \in Folders /\ unwritten \cup unremoved \subseteq SecretNames
      /\ dropped \subseteq Secrets /\ certs \in Folders /\ cache \in SUBSET Secrets
  BY Parts DEF Typed, VarTypes
<1>6. ASSUME HandleIngressSet PROVE Disk
  <2>1. /\ action.obj \in Ingresses /\ store' = AddIngress(store, action.obj)
        /\ UNCHANGED <<dropped, folder, unwritten, unremoved, certs>>
    BY <1>6, InHand DEF HandleIngressSet, Handling, Goto, diskVars, caddyVars
  <2> QED
    BY <1>5, <2>1, StoreLists
<1>7. ASSUME MkdirFails PROVE Disk
  <2>1. /\ action.obj \in Ingresses /\ store' = AddIngress(store, action.obj)
        /\ unwritten' = SecretNames /\ UNCHANGED <<dropped, folder, unremoved, certs>>
    BY <1>7, InHand DEF MkdirFails, Handling, HandleFailed, informerVars, caddyVars
  <2> QED
    BY <1>5, <2>1, StoreLists
<1>8. ASSUME StartPluck PROVE Disk
  BY <1>5, <1>8 DEF StartPluck, Goto, informerVars, diskVars, caddyVars
<1>9. ASSUME HandleIngressDeleted PROVE Disk
  <2>1. store' = PluckIngress(store, action.obj) /\ UNCHANGED <<dropped, folder, unwritten, unremoved, certs>>
    BY <1>9 DEF HandleIngressDeleted, Goto, informerVars, diskVars, caddyVars
  <2> QED
    BY <1>5, <2>1, StoreLists
<1>10. ASSUME SyncSecrets PROVE Disk
  <2> DEFINE listed == ListTLSSecrets(cache, store)
  <2>1. UNCHANGED <<dropped, store, unremoved, certs>>
    BY <1>10 DEF SyncSecrets, Goto, HandleFailed, informerVars, caddyVars
  <2>2. CASE folder' = writeFiles(folder, cache, store, listed) /\ unwritten' = {}
    BY <1>5, <2>1, <2>2, Written
  <2>3. ASSUME NEW p \in listed,
               folder' = [writeFiles(folder, cache, store, {q \in listed : Before(q, p)})
                             EXCEPT ![NameAt(store, p)] = Broken],
               unwritten' = {NameAt(store, q) : q \in listed \ {q \in listed : Before(q, p)}}
        PROVE  Disk
    <3> DEFINE w == writeFiles(folder, cache, store, {q \in listed : Before(q, p)})
    <3>1. w \in Folders
      BY <1>5, Written
    <3>2. \A q \in listed : NameAt(store, q) \in SecretNames
      BY <1>5, Places
    <3> HIDE DEF w, listed
    <3>3. folder' \in Folders
      BY <2>3, <3>1 DEF w, Folders
    <3> QED
      BY <1>5, <2>1, <2>3, <3>2, <3>3
  <2> QED
    BY <1>10, <2>2, <2>3 DEF SyncSecrets
<1>11. ASSUME HandleSecretSet PROVE Disk
  <2>1. /\ action.obj \in Secrets /\ folder' = [folder EXCEPT ![action.obj.name] = action.obj]
        /\ unwritten' = unwritten \ {action.obj.name} /\ dropped' = dropped \ {action.obj}
        /\ unremoved' = unremoved \ {action.obj.name} /\ UNCHANGED <<store, certs>>
    BY <1>11, InHand DEF HandleSecretSet, Handling, Goto, writeFile, caddyVars
  <2> QED
    BY <1>5, <2>1 DEF Folders
<1>12. ASSUME WriteFails PROVE Disk
  <2>1. /\ action.obj \in Secrets
        /\ folder' \in {folder, [folder EXCEPT ![action.obj.name] = Broken]}
        /\ unwritten' = unwritten \cup {action.obj.name}
        /\ UNCHANGED <<dropped, store, unremoved, certs>>
    BY <1>12, InHand DEF WriteFails, Handling, HandleFailed, informerVars, caddyVars
  <2>2. action.obj.name \in SecretNames
    BY <2>1, Fields
  <2> QED
    BY <1>5, <2>1, <2>2 DEF Folders
<1>13. ASSUME HandleSecretDeleted PROVE Disk
  <2>1. /\ folder' = [folder EXCEPT ![action.obj.name] = NoFile]
        /\ unwritten' = unwritten \ {action.obj.name} /\ unremoved' = unremoved \ {action.obj.name}
        /\ UNCHANGED <<dropped, store, certs>>
    BY <1>13 DEF HandleSecretDeleted, HandleFailed, Goto, informerVars, caddyVars
  <2> QED
    BY <1>5, <2>1 DEF Folders
<1>14. ASSUME ReloadCaddy PROVE Disk
  <2>1. UNCHANGED <<dropped, store, folder, unwritten, unremoved>> /\ certs' \in {certs, folder, EmptyFolder}
    BY <1>14 DEF ReloadCaddy, informerVars, diskVars
  <2> QED
    BY <1>5, <2>1, Empties
<1>15. ASSUME LoadFails PROVE Disk
  BY <1>5, <1>15 DEF LoadFails, informerVars, diskVars, caddyVars
<1>16. ASSUME RemoveFails PROVE Disk
  <2>1. /\ action.obj \in Secrets /\ unremoved' = unremoved \cup {action.obj.name}
        /\ UNCHANGED <<dropped, store, folder, unwritten, certs>>
    BY <1>16, InHand DEF RemoveFails, Handling, HandleFailed, informerVars, caddyVars
  <2>2. action.obj.name \in SecretNames
    BY <2>1, Fields
  <2> QED
    BY <1>5, <2>1, <2>2
<1>17. Disk
  BY <1>6, <1>7, <1>8, <1>9, <1>10, <1>11, <1>12, <1>13, <1>14, <1>15, <1>16 DEF Handlers
<1>18. watching' \in BOOLEAN
  <2>1. watching \in BOOLEAN
    BY DEF Typed, VarTypes
  <2>2. watching' = watching \/ watching' = TRUE
    BY DEF Handlers, HandleIngressSet, MkdirFails, StartPluck, HandleIngressDeleted, SyncSecrets,
           HandleSecretSet, WriteFails, HandleSecretDeleted, RemoveFails, ReloadCaddy, LoadFails, informerVars
  <2> QED
    BY <2>1, <2>2, Zenon
<1>19. /\ ingresses' \in SUBSET Ingresses /\ secrets' \in SUBSET Secrets
       /\ cache' \in SUBSET secrets' /\ events' \in Seq(Events) /\ missed' \subseteq SecretNames
       /\ ingressRev' \in 0 .. MaxIngressRev /\ secretRev' \in 0 .. MaxSecretRev
       /\ IsFiniteSet(ingresses')
  BY <1>1 DEF Typed, VarTypes
<1>20. VarTypes'
  BY <1>4, <1>18, <1>19, <1>17 DEF VarTypes
<1> QED
  BY <1>3, <1>19, <1>20 DEF Typed

\* The first list of the ingresses: a queue of items about ingresses, each once.
LEMMA FirstList ==
    ASSUME Typed, Start
    PROVE  /\ queue' \in Queues
           /\ ToSet(queue'.waiting) \in SUBSET IngressActions
           /\ queue'.dirty \in SUBSET IngressActions
           /\ queue'.processing = {}
           /\ ~up /\ up'
           /\ UNCHANGED <<ingresses, secrets, ingressRev, secretRev, missed, watching, cache, events,
                          dropped, store, worker, action, folder, unwritten, unremoved, lastApplied, certs>>
<1> DEFINE X == {IngressAction("set", ing) : ing \in ingresses}
           f == [ing \in ingresses |-> IngressAction("set", ing)]
<1>1. X \in SUBSET IngressActions
  BY MakeItems DEF Typed, VarTypes
<1>2. f \in Surjection(ingresses, X)
  BY DEF Surjection
<1>3. IsFiniteSet(X)
  BY <1>2, FS_Surjection DEF Typed
<1>4. PICK order \in SetToSeqs(X) :
          queue' = [EmptyQueue EXCEPT !.waiting = order, !.dirty = ToSet(order)]
  BY DEF Start
<1> HIDE DEF X, f
<1>5. Cardinality(X) \in Nat
  BY <1>3, FS_CardinalityType
<1>6. order \in [1 .. Cardinality(X) -> X]
  BY DEF SetToSeqs
<1>7. order \in Seq(IngressActions)
  BY <1>1, <1>5, <1>6
<1>8. ToSet(order) \in SUBSET IngressActions
  BY <1>7, Elements
<1>9. order \in Seq(Actions) /\ ToSet(order) \in SUBSET Actions
  BY <1>7, <1>8 DEF Actions
<1>10. queue' = [waiting |-> order, dirty |-> ToSet(order), processing |-> {}]
  BY <1>4 DEF EmptyQueue
<1>11. queue' \in Queues
  BY <1>9, <1>10 DEF Queues
<1>12. queue'.waiting = order /\ queue'.dirty = ToSet(order) /\ queue'.processing = {}
  BY <1>10
<1>13. /\ ~up /\ up'
       /\ UNCHANGED <<ingresses, secrets, ingressRev, secretRev, missed, watching, cache, events,
                      dropped, store, worker, action, folder, unwritten, unremoved, lastApplied, certs>>
  BY DEF Start, clusterVars, informerVars, diskVars, caddyVars
<1> QED
  BY <1>8, <1>11, <1>12, <1>13

\* The start and the death of the process.
LEMMA TypedProcess == Typed /\ (Start \/ Crash) => Typed'
<1> SUFFICES ASSUME Typed, Start \/ Crash PROVE Typed'
  OBVIOUS
<1>1. CASE Start
  BY <1>1, FirstList DEF Typed, VarTypes
<1>2. CASE Crash
  <2>1. /\ watching' \in BOOLEAN /\ cache' = {} /\ events' = <<>> /\ dropped' = {}
        /\ queue' = EmptyQueue /\ store' = <<>>
        /\ worker' = "idle" /\ action' = NoAction
        /\ folder' = EmptyFolder /\ unwritten' = {} /\ unremoved' = {} /\ certs' = EmptyFolder
        /\ UNCHANGED <<ingresses, secrets, ingressRev, secretRev, missed>>
    BY <1>2 DEF Crash, clusterVars
  <2>2. events' \in Seq(Events) /\ store' \in Seq(Ingresses)
    BY <2>1
  <2>3. queue' \in Queues /\ folder' \in Folders /\ certs' \in Folders
    BY <2>1, Empties
  <2>4. missed \subseteq SecretNames
    BY DEF Typed, VarTypes
  <2>5. /\ ingresses' \in SUBSET Ingresses /\ secrets' \in SUBSET Secrets
        /\ ingressRev' \in 0 .. MaxIngressRev /\ secretRev' \in 0 .. MaxSecretRev
        /\ IsFiniteSet(ingresses')
    BY <2>1 DEF Typed, VarTypes
  <2>6. /\ unwritten' \cup unremoved' \cup missed' \subseteq SecretNames /\ dropped' \subseteq Secrets
        /\ cache' \in SUBSET secrets'
    BY <2>1, <2>4
  <2>7. /\ worker' \in {"idle", "handle", "cut", "list", "reload"}
        /\ action' \in Actions \cup {NoAction}
        /\ worker' = "idle" <=> action' = NoAction
    BY <2>1
  <2>8. VarTypes'
    BY <2>1, <2>2, <2>3, <2>5, <2>6, <2>7 DEF VarTypes
  <2> QED
    BY <2>3, <2>5, <2>8 DEF Typed
<1> QED
  BY <1>1, <1>2

\* The steps of the system by what they do to the queue and the events.
LEMMA NextCases ==
    ASSUME Next
    PROVE  \/ \/ \E u \in Uids, spec \in IngressSpecs : SetIngress(u, spec)
              \/ \E ing \in ingresses : RemoveIngress(ing)
              \/ \E ing \in ingresses : ResyncIngress(ing)
           \/ \/ \E ns \in Namespaces, n \in SecretNames, tls \in Types : CreateSecret(ns, n, tls)
              \/ \E s \in secrets : \/ UpdateSecret(s) \/ Observe(s)
                                    \/ \E how \in {"delete", "gone"} : DeleteSecret(s, how)
              \/ \E s \in cache : Resync(s)
           \/ HandleEvent
           \/ GetItem
           \/ Handlers \/ ReloadCaddy \/ LoadFails
           \/ Start
           \/ Crash
BY DEF Next, Environment

\* Every step keeps the types.
LEMMA TypedStep == Typed /\ [Next]_vars => Typed'
<1> SUFFICES ASSUME Typed, [Next]_vars PROVE Typed'
  OBVIOUS
<1>1. CASE UNCHANGED vars
  BY <1>1 DEF vars, Typed, VarTypes
<1>2. CASE Next
  BY <1>2, NextCases, TypedIngress, TypedSecrets, TypedEvent, TypedGet, TypedWorker, TypedProcess
<1> QED
  BY <1>1, <1>2
-----------------------------------------------------------------------------
(* The line: the items about secrets, from the events to the worker.       *)

\* A process that does not run has nothing; one that does not watch has heard of no secret.
Down ==
    /\ ~up => ~watching /\ queue = EmptyQueue /\ worker = "idle"
    /\ ~watching => cache = {} /\ events = <<>> /\ worker # "list"

\* The items the informer's events will be, those behind the one in hand, and all.
SaidItems == {ItemOf(e) : e \in {f \in ToSet(events) : Says(f)}}

Behind == (ToSet(queue.waiting) \cap SecretActions) \cup SaidItems

Words == Behind \cup (queue.processing \cap SecretActions)

\* Of the items about secrets each waits or is processed once, and the queue processes the
\* item in hand.
EachOnce ==
    /\ queue.processing = IF worker = "idle" THEN {} ELSE {action}
    /\ queue.dirty \cap SecretActions = ToSet(queue.waiting) \cap SecretActions

SameKey(x, y) == x.ns = y.ns /\ x.name = y.name

\* b may come behind a: it is about a newer version, or says something else of the same one.
Later(a, b) ==
    a \in SecretActions /\ b \in SecretActions =>
        /\ a # b
        /\ SameKey(a.obj, b.obj) => a.obj.rv < b.obj.rv \/ (a.obj = b.obj /\ a.op # "delete")

ItemOrder == {p \in Actions \X Actions : Later(p[1], p[2])}

EventOrder == {p \in Events \X Events : Says(p[1]) /\ Says(p[2]) => Later(ItemOf(p[1]), ItemOf(p[2]))}

\* The items are in line: those of the queue, those of the events, and the ones behind the others.
Line ==
    /\ Sorted(queue.waiting, ItemOrder)
    /\ Sorted(events, EventOrder)
    /\ \A a \in queue.processing, b \in ToSet(queue.waiting) : Later(a, b)
    /\ \A a \in ToSet(queue.waiting) \cup queue.processing, b \in SaidItems : Later(a, b)

\* Of the versions of a secret the cluster has the newest.
Versions ==
    /\ \A s \in secrets : s.rv <= secretRev
    /\ \A s, t \in secrets : SameKey(s, t) => s = t
    /\ \A a \in Words : a.obj.rv <= secretRev
    /\ \A a \in Words, s \in secrets : SameKey(a.obj, s) => a.obj.rv < s.rv \/ a.obj = s

\* What is said of a secret was cached, and a deletion is said of what is gone.
Heard ==
    \A a \in Words : /\ a.obj.tls
                     /\ a.op = "delete" => a.obj \notin secrets
                     /\ a.obj \in secrets => a.obj \in cache

OrderInv == Typed /\ Down /\ EachOnce /\ Line /\ Versions /\ Heard

\* The items are items about secrets.
LEMMA WordTypes ==
    ASSUME Typed
    PROVE  /\ Words \in SUBSET SecretActions /\ Behind \in SUBSET Words
           /\ \A a \in Words : /\ a.op \in {"add", "update", "delete"} /\ a.obj \in Secrets
                               /\ a.obj.name \in SecretNames
           /\ \A e \in ToSet(events) : Says(e) => ItemOf(e) \in SaidItems
           /\ ToSet(queue.waiting) \in SUBSET Actions
           /\ ToSet(events) \in SUBSET Events
<1>1. ToSet(events) \in SUBSET Events /\ ToSet(queue.waiting) \in SUBSET Actions
  BY Parts, Elements
<1>2. SaidItems \in SUBSET SecretActions
  BY <1>1, ItemOfFacts DEF SaidItems
<1>3. Words \in SUBSET SecretActions /\ Behind \in SUBSET Words
  BY <1>2 DEF Words, Behind
<1>4. \A a \in Words : /\ a.op \in {"add", "update", "delete"} /\ a.obj \in Secrets
                       /\ a.obj.name \in SecretNames
  BY <1>3, Items, Fields
<1>5. \A e \in ToSet(events) : Says(e) => ItemOf(e) \in SaidItems
  BY DEF SaidItems
<1> QED
  BY <1>1, <1>3, <1>4, <1>5

\* The relations as sets of pairs.
LEMMA Pairs ==
    /\ \A a, b \in Actions : <<a, b>> \in ItemOrder <=> Later(a, b)
    /\ \A e, f \in Events : <<e, f>> \in EventOrder
                              <=> (Says(e) /\ Says(f) => Later(ItemOf(e), ItemOf(f)))
    /\ \A a, b : a \notin SecretActions \/ b \notin SecretActions => Later(a, b)
<1>1. ASSUME NEW a \in Actions, NEW b \in Actions PROVE <<a, b>> \in ItemOrder <=> Later(a, b)
  <2>1. <<a, b>> \in Actions \X Actions /\ <<a, b>>[1] = a /\ <<a, b>>[2] = b
    OBVIOUS
  <2> QED
    BY <2>1 DEF ItemOrder
<1>2. ASSUME NEW e \in Events, NEW f \in Events
      PROVE  <<e, f>> \in EventOrder <=> (Says(e) /\ Says(f) => Later(ItemOf(e), ItemOf(f)))
  <2>1. <<e, f>> \in Events \X Events /\ <<e, f>>[1] = e /\ <<e, f>>[2] = f
    OBVIOUS
  <2> QED
    BY <2>1 DEF EventOrder
<1>3. \A a, b : a \notin SecretActions \/ b \notin SecretActions => Later(a, b)
  BY DEF Later
<1> QED
  BY <1>1, <1>2, <1>3

\* Nothing new is said, and the secrets stay as they are.
LEMMA OrderKept ==
    ASSUME Versions, Heard, Words' \subseteq Words,
           UNCHANGED <<secrets, secretRev, cache>>
    PROVE  Versions' /\ Heard'
<1>1. Versions'
  BY DEF Versions
<1>2. Heard'
  BY DEF Heard
<1> QED
  BY <1>1, <1>2

\* The ingress informer queues an item: the items about secrets stay where they are.
LEMMA IngressOrder ==
    ASSUME OrderInv,
           \/ \E u \in Uids, spec \in IngressSpecs : SetIngress(u, spec)
           \/ \E ing \in ingresses : RemoveIngress(ing)
           \/ \E ing \in ingresses : ResyncIngress(ing)
    PROVE  OrderInv' /\ Behind' = Behind /\ Words' = Words
<1> USE DEF OrderInv
<1>1. UNCHANGED <<secrets, secretRev, missed, watching, cache, events, dropped, store, worker, action,
                  folder, unwritten, unremoved, lastApplied, certs, up>>
  BY TypedIngress DEF informerVars, diskVars, caddyVars
<1>2. Typed'
  BY TypedIngress
<1>3. SaidItems' = SaidItems
  BY <1>1 DEF SaidItems
<1> DEFINE OnlyIngress ==
             /\ ToSet(queue'.waiting) \cap SecretActions = ToSet(queue.waiting) \cap SecretActions
             /\ queue'.dirty \cap SecretActions = queue.dirty \cap SecretActions
             /\ queue'.processing = queue.processing
             /\ Sorted(queue'.waiting, ItemOrder)
<1>4. OnlyIngress
  <2>1. CASE queue' = queue
    BY <2>1 DEF Line
  <2>2. ASSUME NEW a \in IngressActions, queue' = Add(queue, a)
        PROVE  OnlyIngress
    <3>1. a \in Actions /\ a \notin SecretActions /\ queue \in Queues
      BY Items DEF Actions, Typed
    <3>2. /\ queue'.dirty = queue.dirty \cup {a} /\ queue'.processing = queue.processing
          /\ queue'.waiting = queue.waiting \/ queue'.waiting = Append(queue.waiting, a)
      BY <2>2, <3>1, AddFields
    <3>3. queue.waiting \in Seq(Actions) /\ ToSet(queue.waiting) \in SUBSET Actions
      BY Parts, WordTypes
    <3>4. ToSet(Append(queue.waiting, a)) = ToSet(queue.waiting) \cup {a}
      BY <3>1, <3>3, AppendElements
    <3>5. \A b \in ToSet(queue.waiting) : <<b, a>> \in ItemOrder
      BY <3>1, <3>3, Pairs
    <3>6. Sorted(Append(queue.waiting, a), ItemOrder)
      BY <3>1, <3>3, <3>5, SortedAppend DEF Line
    <3>7. Sorted(queue'.waiting, ItemOrder)
      BY <3>2, <3>6 DEF Line
    <3>8. ToSet(queue'.waiting) = ToSet(queue.waiting) \/ ToSet(queue'.waiting) = ToSet(queue.waiting) \cup {a}
      BY <3>2, <3>4
    <3> QED
      BY <3>1, <3>2, <3>7, <3>8
  <2> QED
    BY <2>1, <2>2, TypedIngress
<1>5. Behind' = Behind /\ Words' = Words
  BY <1>3, <1>4 DEF Behind, Words
<1>6. EachOnce'
  BY <1>1, <1>4 DEF EachOnce
<1>7. Line'
  <2>1. \A a \in queue'.processing, b \in ToSet(queue'.waiting) : Later(a, b)
    BY <1>4, Pairs DEF Line
  <2>2. \A a \in ToSet(queue'.waiting) \cup queue'.processing, b \in SaidItems' : Later(a, b)
    BY <1>3, <1>4, Pairs DEF Line
  <2> QED
    BY <1>1, <1>4, <2>1, <2>2 DEF Line
<1>8. Down'
  BY <1>1, TypedIngress DEF Down
<1>9. Versions' /\ Heard'
  BY <1>1, <1>5, OrderKept
<1> QED
  BY <1>2, <1>5, <1>6, <1>7, <1>8, <1>9

\* A step of the worker: what waits stays in line, and the item in hand goes when it is done.
LEMMA WorkerOrder ==
    ASSUME OrderInv, Handlers \/ ReloadCaddy \/ LoadFails
    PROVE  OrderInv' /\ Behind' = Behind /\ Words' \subseteq Words /\ (Back => Words' = Behind')
<1> USE DEF OrderInv
<1>1. /\ worker # "idle" /\ (Stay \/ Back)
      /\ UNCHANGED <<ingresses, secrets, ingressRev, secretRev, missed, cache, events, up>>
  BY WorkerSteps
<1>2. Typed'
  BY TypedWorker
<1>3. SaidItems' = SaidItems
  BY <1>1 DEF SaidItems
<1>4. action \in Actions /\ queue \in Queues /\ queue.processing = {action}
      /\ queue.waiting \in Seq(Actions) /\ ToSet(queue.waiting) \in SUBSET Actions
  BY <1>1, Parts, WordTypes DEF EachOnce, Typed
<1>5. Down'
  <2>1. up
    BY <1>1 DEF Down
  <2>2. watching' = watching \/ watching' = TRUE
    BY DEF Handlers, HandleIngressSet, MkdirFails, StartPluck, HandleIngressDeleted, SyncSecrets,
           HandleSecretSet, WriteFails, HandleSecretDeleted, RemoveFails, ReloadCaddy, LoadFails, informerVars
  <2>3. worker' = "list" => watching'
    BY DEF Handlers, HandleIngressSet, MkdirFails, StartPluck, HandleIngressDeleted, SyncSecrets,
           HandleSecretSet, WriteFails, HandleSecretDeleted, RemoveFails, ReloadCaddy, LoadFails, Goto,
           HandleFailed, Finish
  <2> QED
    BY <1>1, <2>1, <2>2, <2>3 DEF Down
<1>6. CASE Stay
  <2>1. queue' = queue /\ action' = action /\ worker' # "idle"
    BY <1>6 DEF Stay
  <2>2. Behind' = Behind /\ Words' = Words /\ ~Back
    BY <1>3, <2>1 DEF Behind, Words, Back
  <2>3. EachOnce'
    BY <1>1, <2>1 DEF EachOnce
  <2>4. Line'
    BY <1>1, <1>3, <2>1 DEF Line
  <2>5. Versions' /\ Heard'
    BY <1>1, <2>2, OrderKept
  <2> QED
    BY <1>2, <1>5, <2>2, <2>3, <2>4, <2>5
<1>7. CASE Back
  <2>1. /\ worker' = "idle" /\ queue'.processing = {} /\ queue'.dirty = queue.dirty
        /\ queue'.waiting = IF action \in queue.dirty THEN Append(queue.waiting, action)
                                                     ELSE queue.waiting
    BY <1>4, <1>7, DoneFields DEF Back
  <2>2. action \in SecretActions => action \notin queue.dirty
    <3>1. SUFFICES ASSUME action \in SecretActions, action \in queue.dirty PROVE FALSE
      OBVIOUS
    <3>2. action \in ToSet(queue.waiting)
      BY <3>1 DEF EachOnce
    <3>3. Later(action, action)
      BY <1>4, <3>2 DEF Line
    <3> QED
      BY <3>1, <3>3 DEF Later
  <2>3. /\ ToSet(queue'.waiting) \cap SecretActions = ToSet(queue.waiting) \cap SecretActions
        /\ Sorted(queue'.waiting, ItemOrder)
    <3>1. CASE action \notin queue.dirty
      BY <2>1, <3>1 DEF Line
    <3>2. CASE action \in queue.dirty
      <4>1. queue'.waiting = Append(queue.waiting, action) /\ action \notin SecretActions
        BY <2>1, <2>2, <3>2
      <4>2. ToSet(queue'.waiting) = ToSet(queue.waiting) \cup {action}
        BY <1>4, <4>1, AppendElements
      <4>3. \A b \in ToSet(queue.waiting) : <<b, action>> \in ItemOrder
        BY <1>4, <4>1, Pairs
      <4>4. Sorted(queue'.waiting, ItemOrder)
        BY <1>4, <4>1, <4>3, SortedAppend DEF Line
      <4> QED
        BY <4>1, <4>2, <4>4
    <3> QED
      BY <3>1, <3>2
  <2>4. Behind' = Behind /\ Words' = Behind' /\ Behind \subseteq Words
    BY <1>3, <2>1, <2>3 DEF Behind, Words
  <2>5. EachOnce'
    BY <2>1, <2>3 DEF EachOnce
  <2>6. \A a \in ToSet(queue'.waiting) \cup queue'.processing, b \in SaidItems' : Later(a, b)
    BY <1>3, <2>1, <2>3, Pairs DEF Line
  <2>7. Line'
    BY <1>1, <2>1, <2>3, <2>6 DEF Line
  <2>8. Versions' /\ Heard'
    BY <1>1, <2>4, OrderKept
  <2> QED
    BY <1>2, <1>5, <2>4, <2>5, <2>7, <2>8
<1> QED
  BY <1>1, <1>6, <1>7

\* The worker takes the first item in hand; what is behind it is later.
LEMMA GetOrder ==
    ASSUME OrderInv, GetItem
    PROVE  /\ OrderInv' /\ Words' = Words
           /\ queue.processing = {}
           /\ Words = Behind' \cup ({action'} \cap SecretActions)
           /\ \A b \in Behind' : Later(action', b)
<1> USE DEF OrderInv
<1> DEFINE h == Head(queue.waiting)
           w == Tail(queue.waiting)
<1>1. worker = "idle" /\ queue.waiting # <<>> /\ worker' = "handle" /\ action' = h /\ queue' = Get(queue)
  BY DEF GetItem
<1>2. UNCHANGED <<ingresses, secrets, ingressRev, secretRev, missed, watching, cache, events,
                  dropped, store, folder, unwritten, unremoved, lastApplied, certs, up>>
  BY DEF GetItem, clusterVars, informerVars, diskVars, caddyVars
<1>3. Typed'
  BY TypedGet
<1>4. queue.processing = {}
  BY <1>1 DEF EachOnce
<1>5. /\ queue'.waiting = w /\ queue'.dirty = queue.dirty \ {h} /\ queue'.processing = {h}
  BY <1>1, <1>4, GetFields DEF Typed
<1>6. queue.waiting \in Seq(Actions) /\ h \in Actions /\ w \in Seq(Actions)
      /\ ToSet(queue.waiting) = {h} \cup ToSet(w) /\ Sorted(w, ItemOrder)
      /\ \A a \in ToSet(w) : <<h, a>> \in ItemOrder
  BY <1>1, Parts, SortedTail DEF Line
<1> HIDE DEF h, w
<1>7. ToSet(w) \in SUBSET Actions
  BY <1>6, Elements
<1>8. \A a \in ToSet(w) : Later(h, a)
  BY <1>6, <1>7, Pairs
<1>9. SaidItems' = SaidItems
  BY <1>2 DEF SaidItems
<1>10. \A a \in SaidItems : Later(h, a)
  BY <1>6 DEF Line
<1>11. Words' = Words
  BY <1>4, <1>5, <1>6, <1>9 DEF Words, Behind
<1>12. Words = Behind' \cup ({h} \cap SecretActions)
  BY <1>4, <1>5, <1>6, <1>9 DEF Words, Behind
<1>13. \A b \in Behind' : Later(h, b)
  BY <1>5, <1>8, <1>9, <1>10 DEF Behind
<1>14. EachOnce'
  <2>1. h \in SecretActions => h \notin ToSet(w)
    BY <1>8 DEF Later
  <2>2. queue'.dirty \cap SecretActions = ToSet(w) \cap SecretActions
    BY <1>5, <1>6, <2>1 DEF EachOnce
  <2> QED
    BY <1>1, <1>5, <2>2 DEF EachOnce
<1>15. Line'
  <2>1. \A a \in ToSet(w) \cup {h}, b \in SaidItems : Later(a, b)
    BY <1>6 DEF Line
  <2> QED
    BY <1>2, <1>5, <1>6, <1>8, <1>9, <2>1 DEF Line
<1>16. Down'
  <2>1. up
    BY <1>1, Empties DEF Down
  <2> QED
    BY <1>1, <1>2, <2>1 DEF Down
<1>17. Versions' /\ Heard'
  BY <1>2, <1>11, OrderKept
<1> QED
  BY <1>1, <1>3, <1>4, <1>11, <1>12, <1>13, <1>14, <1>15, <1>16, <1>17

\* The process starts or dies: nothing is said of a secret.
LEMMA ProcessOrder ==
    ASSUME OrderInv, Start \/ Crash
    PROVE  OrderInv' /\ Behind' = {} /\ Words' = {} /\ cache' = {} /\ worker' = "idle"
           /\ ~watching' /\ (Start => UNCHANGED <<folder, unwritten, store, missed>>)
           /\ (Crash => folder' = EmptyFolder /\ store' = <<>>)
<1> USE DEF OrderInv
<1>1. Typed'
  BY TypedProcess
<1>2. CASE Start
  <2>1. /\ ToSet(queue'.waiting) \in SUBSET IngressActions
        /\ queue'.dirty \in SUBSET IngressActions
        /\ queue'.processing = {} /\ queue' \in Queues
        /\ ~up /\ up'
        /\ UNCHANGED <<secrets, secretRev, missed, watching, cache, events, store, worker,
                       folder, unwritten>>
    BY <1>2, FirstList
  <2>2. ~watching /\ cache = {} /\ events = <<>> /\ worker = "idle"
    BY <2>1 DEF Down
  <2>3. SaidItems' = {}
    BY <2>1, <2>2, Elements DEF SaidItems
  <2>4. /\ ToSet(queue'.waiting) \cap SecretActions = {}
        /\ queue'.dirty \cap SecretActions = {}
    BY <2>1, Items
  <2>5. Behind' = {} /\ Words' = {}
    BY <2>1, <2>3, <2>4 DEF Behind, Words
  <2>6. EachOnce'
    BY <2>1, <2>2, <2>4 DEF EachOnce
  <2>7. Sorted(queue'.waiting, ItemOrder)
    <3>1. queue'.waiting \in Seq(Actions)
      BY <2>1, QueueFields
    <3>2. \A i \in DOMAIN queue'.waiting : queue'.waiting[i] \in Actions
      BY <3>1
    <3>3. \A i \in DOMAIN queue'.waiting : queue'.waiting[i] \notin SecretActions
      BY <2>4 DEF ToSet
    <3>4. \A i, j \in DOMAIN queue'.waiting : <<queue'.waiting[i], queue'.waiting[j]>> \in ItemOrder
      BY <3>2, <3>3, Pairs
    <3> QED
      BY <3>4 DEF Sorted
  <2>8. Sorted(events', EventOrder)
    BY <2>1, <2>2, Elements
  <2>9. Line'
    BY <2>1, <2>3, <2>7, <2>8 DEF Line
  <2>10. Down'
    BY <2>1, <2>2 DEF Down
  <2>11. Versions' /\ Heard'
    BY <2>1, <2>5, OrderKept
  <2>12. Start /\ ~Crash
    BY <1>2, <2>1 DEF Crash
  <2> QED
    BY <1>1, <2>1, <2>2, <2>5, <2>6, <2>9, <2>10, <2>11, <2>12
<1>3. CASE Crash
  <2>1. /\ ~up' /\ ~watching' /\ cache' = {} /\ events' = <<>> /\ queue' = EmptyQueue
        /\ worker' = "idle" /\ folder' = EmptyFolder /\ store' = <<>> /\ up
        /\ UNCHANGED <<secrets, secretRev>>
    BY <1>3 DEF Crash, clusterVars
  <2>2. queue'.waiting = <<>> /\ queue'.dirty = {} /\ queue'.processing = {}
    BY <2>1, Empties
  <2>3. ToSet(queue'.waiting) = {} /\ ToSet(events') = {}
    BY <2>1, <2>2, Elements
  <2>4. SaidItems' = {}
    BY <2>3 DEF SaidItems
  <2>5. Behind' = {} /\ Words' = {}
    BY <2>2, <2>3, <2>4 DEF Behind, Words
  <2>6. EachOnce'
    BY <2>1, <2>2, <2>3 DEF EachOnce
  <2>7. Line'
    <3>1. Sorted(queue'.waiting, ItemOrder) /\ Sorted(events', EventOrder)
      BY <2>1, <2>2, Elements
    <3> QED
      BY <2>2, <2>3, <2>4, <3>1 DEF Line
  <2>8. Down'
    BY <2>1 DEF Down
  <2>9. Versions' /\ Heard'
    BY <2>1, <2>5 DEF Versions, Heard
  <2>10. ~Start
    BY <2>1 DEF Start
  <2> QED
    BY <1>1, <2>1, <2>5, <2>6, <2>7, <2>8, <2>9, <2>10
<1> QED
  BY <1>2, <1>3

\* The handlers are told: the item goes to the end of the queue, or its secret is dropped.
LEMMA HandledOrder ==
    ASSUME OrderInv, HandleEvent
    PROVE  /\ OrderInv' /\ Words' \subseteq Words /\ Behind' \subseteq Behind
           /\ dropped \subseteq dropped'
           /\ \A a \in Behind : a \in Behind' \/ (a.op # "delete" /\ a.obj \in dropped')
           /\ \A a \in Behind : a.op = "delete" => a \in Behind'
<1> USE DEF OrderInv
<1> DEFINE e == Head(events)
           w == Tail(events)
           x == ItemOf(e)
<1>1. /\ events # <<>> /\ e \in Events /\ events' = w
      /\ UNCHANGED <<ingresses, secrets, ingressRev, secretRev, missed, watching, cache, store,
                     worker, action, folder, unwritten, unremoved, lastApplied, certs, up>>
  BY EventHandled
<1>2. \/ ~Says(e) /\ queue' = queue /\ dropped' = dropped
      \/ Says(e) /\ queue' = Add(queue, x) /\ dropped' = dropped
      \/ Says(e) /\ e.type # "delete" /\ queue' = queue /\ dropped' = dropped \cup {e.obj}
  BY EventHandled
<1>3. Typed'
  BY TypedEvent
<1>4. /\ w \in Seq(Events) /\ ToSet(events) = {e} \cup ToSet(w) /\ Sorted(w, EventOrder)
      /\ \A f \in ToSet(w) : <<e, f>> \in EventOrder
  BY <1>1, Parts, SortedTail DEF Line
<1>5. Says(e) => x \in SecretActions /\ x.op = e.type /\ x.obj = e.obj
  BY <1>1, ItemOfFacts
<1> HIDE DEF e, w, x
<1>6. SaidItems' = {ItemOf(f) : f \in {g \in ToSet(w) : Says(g)}}
  BY <1>1 DEF SaidItems
<1>7. /\ ~Says(e) => SaidItems = SaidItems'
      /\ Says(e) => SaidItems = SaidItems' \cup {x}
  BY <1>4, <1>6 DEF SaidItems, x
<1>8. Says(e) => \A b \in SaidItems' : Later(x, b)
  <2>1. ASSUME Says(e), NEW f \in ToSet(w), Says(f) PROVE Later(x, ItemOf(f))
    <3>1. f \in Events /\ <<e, f>> \in EventOrder
      BY <1>4, Elements
    <3> QED
      BY <1>1, <2>1, <3>1, Pairs DEF x
  <2> QED
    BY <1>6, <2>1
<1>9. Down'
  <2>1. watching
    BY <1>1 DEF Down
  <2>2. up
    BY <2>1 DEF Down
  <2> QED
    BY <1>1, <2>1, <2>2 DEF Down
<1>10. /\ queue.waiting \in Seq(Actions) /\ ToSet(queue.waiting) \in SUBSET Actions
       /\ queue.processing \in SUBSET Actions /\ queue \in Queues
  BY Parts, WordTypes DEF Typed
<1>11. CASE queue' = queue
  <2>1. SaidItems' \subseteq SaidItems
    BY <1>7
  <2>2. Words' \subseteq Words /\ Behind' \subseteq Behind
    BY <1>11, <2>1 DEF Words, Behind
  <2>3. EachOnce'
    BY <1>1, <1>11 DEF EachOnce
  <2>4. Line'
    BY <1>1, <1>4, <1>11, <2>1 DEF Line
  <2>5. Versions' /\ Heard'
    BY <1>1, <2>2, OrderKept
  <2>6. CASE ~Says(e)
    <3>1. dropped' = dropped
      BY <1>2, <2>6
    <3>2. Behind' = Behind
      BY <1>7, <1>11, <2>6 DEF Behind
    <3> QED
      BY <1>3, <1>9, <2>2, <2>3, <2>4, <2>5, <3>1, <3>2
  <2>7. CASE Says(e) /\ dropped' = dropped \cup {e.obj} /\ e.type # "delete"
    <3>1. \A a \in Behind : a \in Behind' \/ a = x
      BY <1>7, <1>11, <2>7 DEF Behind
    <3>2. x.op # "delete" /\ x.obj \in dropped'
      BY <1>5, <2>7
    <3> QED
      BY <1>3, <1>9, <2>2, <2>3, <2>4, <2>5, <2>7, <3>1, <3>2
  <2>8. ASSUME Says(e), queue' = Add(queue, x) PROVE FALSE
    <3>1. x \in Actions
      BY <1>5, <2>8 DEF Actions
    <3>0. Add(queue, x).dirty = queue.dirty \cup {x} /\ Add(queue, x) = queue
      BY <1>10, <1>11, <2>8, <3>1, AddFields
    <3>2. x \in queue.dirty
      BY <3>0
    <3>3. x \in ToSet(queue.waiting) /\ x \in SaidItems /\ x \in SecretActions
      BY <1>5, <1>7, <2>8, <3>2 DEF EachOnce
    <3>4. Later(x, x)
      BY <3>3 DEF Line
    <3> QED
      BY <3>3, <3>4 DEF Later
  <2> QED
    BY <1>2, <2>6, <2>7, <2>8
<1>12. CASE Says(e) /\ queue' = Add(queue, x) /\ dropped' = dropped
  <2>1. x \in SecretActions /\ x \in Actions /\ x \in SaidItems
    BY <1>5, <1>7, <1>12 DEF Actions
  <2>2. \A a \in ToSet(queue.waiting) \cup queue.processing : Later(a, x)
    BY <2>1 DEF Line
  <2>3. x \notin ToSet(queue.waiting) \cup queue.processing
    <3>1. Later(x, x) => FALSE
      BY <2>1 DEF Later
    <3> QED
      BY <2>2, <3>1
  <2>4. x \notin queue.dirty \cup queue.processing
    BY <2>1, <2>3 DEF EachOnce
  <2>5. /\ queue'.waiting = Append(queue.waiting, x) /\ queue'.dirty = queue.dirty \cup {x}
        /\ queue'.processing = queue.processing
    BY <1>10, <1>12, <2>1, <2>4, AddFields
  <2>6. ToSet(queue'.waiting) = ToSet(queue.waiting) \cup {x}
    BY <1>10, <2>1, <2>5, AppendElements
  <2>7. \A a \in ToSet(queue.waiting) : <<a, x>> \in ItemOrder
    BY <1>10, <2>1, <2>2, Pairs
  <2>8. Sorted(queue'.waiting, ItemOrder)
    BY <1>10, <2>1, <2>5, <2>7, SortedAppend DEF Line
  <2>9. Behind' = Behind /\ Words' = Words
    BY <1>7, <1>12, <2>1, <2>5, <2>6 DEF Behind, Words
  <2>10. EachOnce'
    BY <1>1, <2>5, <2>6 DEF EachOnce
  <2>11. \A a \in queue'.processing, b \in ToSet(queue'.waiting) : Later(a, b)
    BY <2>2, <2>5, <2>6 DEF Line
  <2>12. SaidItems' \subseteq SaidItems
    BY <1>7
  <2>13. \A a \in ToSet(queue'.waiting) \cup queue'.processing, b \in SaidItems' : Later(a, b)
    BY <1>8, <1>12, <2>5, <2>6, <2>12 DEF Line
  <2>14. Line'
    BY <1>1, <1>4, <2>8, <2>11, <2>13 DEF Line
  <2>15. Versions' /\ Heard'
    BY <1>1, <2>9, OrderKept
  <2> QED
    BY <1>3, <1>9, <1>12, <2>9, <2>10, <2>14, <2>15
<1> QED
  BY <1>2, <1>11, <1>12

\* The informer has something to say: it comes behind everything else.
LEMMA SaidOrder ==
    ASSUME OrderInv, NEW e \in Events, events' = Append(events, e),
           UNCHANGED <<queue, worker, action>>,
           Says(e) => \A a \in Words : Later(a, ItemOf(e))
    PROVE  /\ EachOnce' /\ Line'
           /\ Says(e) => Behind' = Behind \cup {ItemOf(e)} /\ Words' = Words \cup {ItemOf(e)}
           /\ ~Says(e) => Behind' = Behind /\ Words' = Words
<1> USE DEF OrderInv
<1>1. events \in Seq(Events) /\ ToSet(events) \in SUBSET Events
  BY Parts, WordTypes
<1>2. ToSet(events') = ToSet(events) \cup {e}
  BY <1>1, AppendElements
<1>3. /\ Says(e) => SaidItems' = SaidItems \cup {ItemOf(e)}
      /\ ~Says(e) => SaidItems' = SaidItems
  BY <1>2 DEF SaidItems
<1>4. Says(e) => \A a \in ToSet(queue.waiting) \cup queue.processing : Later(a, ItemOf(e))
  <2>1. \A a \in ToSet(queue.waiting) \cup queue.processing : a \in SecretActions => a \in Words
    BY DEF Words, Behind
  <2> QED
    BY <2>1, Pairs
<1>5. \A f \in ToSet(events) : <<f, e>> \in EventOrder
  <2>1. \A f \in ToSet(events) : Says(f) => ItemOf(f) \in Words
    BY WordTypes DEF Words, Behind
  <2> QED
    BY <1>1, <2>1, Pairs
<1>6. Sorted(events', EventOrder)
  BY <1>1, <1>5, SortedAppend DEF Line
<1>7. \A a \in ToSet(queue.waiting) \cup queue.processing, b \in SaidItems' : Later(a, b)
  BY <1>3, <1>4 DEF Line
<1>8. Line'
  BY <1>6, <1>7 DEF Line
<1>9. EachOnce'
  BY DEF EachOnce
<1> QED
  BY <1>3, <1>8, <1>9 DEF Behind, Words

\* The informer has nothing to say.
LEMMA UnsaidOrder ==
    ASSUME OrderInv, UNCHANGED <<events, queue, worker, action>>
    PROVE  EachOnce' /\ Line' /\ Behind' = Behind /\ Words' = Words
<1>1. SaidItems' = SaidItems
  BY DEF SaidItems
<1> QED
  BY <1>1 DEF OrderInv, EachOnce, Line, Behind, Words

\* An item about the version of the cluster, or about one newer than all, may come last.
LEMMA LastInLine ==
    ASSUME OrderInv, NEW x \in SecretActions, x \notin Words,
           \/ x.obj.rv = secretRev + 1
           \/ x.obj \in secrets
    PROVE  \A a \in Words : Later(a, x)
<1> SUFFICES ASSUME NEW a \in Words, SameKey(a.obj, x.obj)
             PROVE  a.obj.rv < x.obj.rv \/ (a.obj = x.obj /\ a.op # "delete")
  BY DEF Later
<1>1. a.obj.rv \in Nat /\ secretRev \in Nat /\ a.obj \in Secrets
  BY WordTypes, Fields, Parts DEF OrderInv
<1>2. CASE x.obj.rv = secretRev + 1
  <2>1. a.obj.rv <= secretRev
    BY DEF OrderInv, Versions
  <2> QED
    BY <1>1, <1>2, <2>1
<1>3. CASE x.obj \in secrets
  BY <1>3 DEF OrderInv, Versions, Heard
<1> QED
  BY <1>2, <1>3

\* A secret is created.
LEMMA CreateOrder ==
    ASSUME OrderInv, NEW ns \in Namespaces, NEW n \in SecretNames, NEW tls \in Types,
           CreateSecret(ns, n, tls)
    PROVE  /\ OrderInv' /\ Behind' = Behind /\ Words' = Words
           /\ Tells /\ UNCHANGED <<cache, missed>>
<1> USE DEF OrderInv
<1> DEFINE new == [ns |-> ns, name |-> n, tls |-> tls, rv |-> secretRev + 1]
<1>1. Typed' /\ Tells
  BY TypedSecrets
<1>2. /\ secretRev' = secretRev + 1 /\ secrets' = secrets \cup {new}
      /\ UNCHANGED <<missed, cache, events>>
      /\ \A s \in secrets : <<s.ns, s.name>> # <<ns, n>>
  BY DEF CreateSecret
<1>3. new.ns = ns /\ new.name = n /\ new.rv = secretRev + 1
  OBVIOUS
<1> HIDE DEF new
<1>4. EachOnce' /\ Line' /\ Behind' = Behind /\ Words' = Words
  BY <1>1, <1>2, UnsaidOrder DEF Tells
<1>5. secretRev \in Nat /\ secretRev + 1 \in Nat /\ secretRev < secretRev + 1
  BY Parts
<1>6. \A s \in secrets : s.rv \in Nat /\ s.rv <= secretRev /\ ~SameKey(s, new) /\ ~SameKey(new, s)
  <2>1. \A s \in secrets : s.rv \in Nat /\ s.rv <= secretRev
    BY Parts, Fields DEF Versions
  <2>2. \A s \in secrets : ~SameKey(s, new) /\ ~SameKey(new, s)
    BY <1>2, <1>3 DEF SameKey
  <2> QED
    BY <2>1, <2>2
<1>7. \A a \in Words : a.obj.rv \in Nat /\ a.obj.rv <= secretRev
  BY WordTypes, Fields DEF Versions
<1>8. \A r \in Nat : r <= secretRev => r <= secretRev + 1 /\ r < secretRev + 1
  BY <1>5
<1>9. Versions'
  <2>1. \A s \in secrets' : s.rv <= secretRev'
    BY <1>2, <1>3, <1>5, <1>6, <1>8
  <2>2. \A s, t \in secrets' : SameKey(s, t) => s = t
    BY <1>2, <1>6 DEF Versions
  <2>3. \A a \in Words' : a.obj.rv <= secretRev'
    BY <1>2, <1>4, <1>7, <1>8
  <2>4. \A a \in Words', s \in secrets' : SameKey(a.obj, s) => a.obj.rv < s.rv \/ a.obj = s
    BY <1>2, <1>3, <1>4, <1>7, <1>8 DEF Versions
  <2> QED
    BY <2>1, <2>2, <2>3, <2>4 DEF Versions
<1>10. Heard'
  <2>1. \A a \in Words : a.obj # new
    BY <1>3, <1>5, <1>7
  <2> QED
    BY <1>2, <1>4, <2>1 DEF Heard
<1>11. Down'
  BY <1>1, <1>2 DEF Down, Tells
<1> QED
  BY <1>1, <1>2, <1>4, <1>9, <1>10, <1>11

\* A cached secret is changed: all that is said of it is older.
LEMMA UpdateOrder ==
    ASSUME OrderInv, NEW s \in secrets, UpdateSecret(s)
    PROVE  LET new == [s EXCEPT !.rv = secretRev + 1]
               x   == ItemOf(Event("update", new, s))
           IN  /\ OrderInv' /\ Tells /\ missed' = missed
               /\ new.ns = s.ns /\ new.name = s.name /\ new.tls = s.tls /\ new \in Secrets
               /\ s \notin cache => cache' = cache /\ Behind' = Behind /\ Words' = Words
               /\ s \in cache => cache' = (cache \ {s}) \cup {new}
               /\ s \in cache /\ ~s.tls => Behind' = Behind /\ Words' = Words
               /\ s \in cache /\ s.tls => /\ Behind' = Behind \cup {x} /\ Words' = Words \cup {x}
                                          /\ x.op = "update" /\ x.obj = new
<1> USE DEF OrderInv
<1> DEFINE new == [s EXCEPT !.rv = secretRev + 1]
           e   == Event("update", new, s)
           x   == ItemOf(e)
<1>1. Typed' /\ Tells
  BY TypedSecrets
<1>2. /\ secretRev < MaxSecretRev /\ secretRev' = secretRev + 1
      /\ secrets' = (secrets \ {s}) \cup {new} /\ missed' = missed /\ Notify(s, {new}, e)
  BY DEF UpdateSecret
<1>3. s \in Secrets /\ secretRev + 1 \in 1 .. MaxSecretRev
  BY <1>2, Parts, CertFolderAssumption
<1>4. /\ new \in Secrets /\ new.ns = s.ns /\ new.name = s.name /\ new.tls = s.tls
      /\ new.rv = secretRev + 1
  BY <1>3 DEF Secrets
<1> HIDE DEF new
<1>5. e \in Events /\ e.type = "update" /\ e.obj = new /\ e.old = s
  BY <1>3, <1>4, MakeItems
<1> HIDE DEF e
<1>6. Says(e) <=> s.tls
  BY <1>4, <1>5 DEF Says
<1>7. Says(e) => x \in SecretActions /\ x.op = "update" /\ x.obj = new
  BY <1>5, ItemOfFacts
<1> HIDE DEF x
<1>8. secretRev \in Nat /\ secretRev + 1 \in Nat /\ secretRev < secretRev + 1
  BY Parts
<1>9. \A r \in Nat : r <= secretRev => r <= secretRev + 1 /\ r < secretRev + 1 /\ r # secretRev + 1
  BY <1>8
<1>10. \A t \in secrets : t.rv \in Nat /\ t.rv <= secretRev
  BY Parts, Fields DEF Versions
<1>11. \A a \in Words : a.obj.rv \in Nat /\ a.obj.rv <= secretRev
  BY WordTypes, Fields DEF Versions
<1>12. Says(e) => x \notin Words /\ \A a \in Words : Later(a, x)
  <2>1. Says(e) => x \notin Words
    BY <1>4, <1>7, <1>9, <1>11
  <2> QED
    BY <1>4, <1>7, <2>1, LastInLine
<1>13. /\ EachOnce' /\ Line'
       /\ s \notin cache => cache' = cache /\ Behind' = Behind /\ Words' = Words
       /\ s \in cache => cache' = (cache \ {s}) \cup {new}
       /\ s \in cache /\ ~s.tls => Behind' = Behind /\ Words' = Words
       /\ s \in cache /\ s.tls => Behind' = Behind \cup {x} /\ Words' = Words \cup {x}
  <2>1. CASE s \notin cache
    <3>1. UNCHANGED <<cache, events>>
      BY <1>2, <2>1 DEF Notify
    <3> QED
      BY <1>1, <2>1, <3>1, UnsaidOrder DEF Tells
  <2>2. CASE s \in cache
    <3>1. cache' = (cache \ {s}) \cup {new} /\ events' = Append(events, e)
      BY <1>2, <2>2 DEF Notify
    <3>2. UNCHANGED <<queue, worker, action>>
      BY <1>1 DEF Tells
    <3>3. /\ EachOnce' /\ Line'
          /\ Says(e) => Behind' = Behind \cup {x} /\ Words' = Words \cup {x}
          /\ ~Says(e) => Behind' = Behind /\ Words' = Words
      BY <1>5, <1>12, <3>1, <3>2, SaidOrder DEF x
    <3> QED
      BY <1>6, <2>2, <3>1, <3>3
  <2> QED
    BY <2>1, <2>2
<1>14. \A a \in Words' : a \in Words \/ (s \in cache /\ a.obj = new /\ a.op = "update" /\ s.tls)
  BY <1>6, <1>7, <1>13
<1>15. Versions'
  <2>1. \A t \in secrets' : t.rv <= secretRev'
    BY <1>2, <1>4, <1>8, <1>9, <1>10
  <2>2. \A t \in secrets' : t # new => t \in secrets /\ ~SameKey(t, new) /\ ~SameKey(new, t)
    BY <1>2, <1>4 DEF Versions, SameKey
  <2>3. \A t, u \in secrets' : SameKey(t, u) => t = u
    BY <1>2, <2>2 DEF Versions
  <2>4. \A a \in Words' : a.obj.rv <= secretRev'
    BY <1>2, <1>4, <1>8, <1>9, <1>11, <1>14
  <2>5. ASSUME NEW a \in Words', NEW t \in secrets', SameKey(a.obj, t)
        PROVE  a.obj.rv < t.rv \/ a.obj = t
    <3>1. CASE a \in Words /\ t = new
      BY <1>4, <1>9, <1>11, <3>1
    <3>2. CASE a \in Words /\ t # new
      BY <2>2, <2>5, <3>2 DEF Versions
    <3>3. CASE a.obj = new
      BY <2>2, <2>5, <3>3
    <3> QED
      BY <1>14, <3>1, <3>2, <3>3
  <2> QED
    BY <2>1, <2>3, <2>4, <2>5 DEF Versions
<1>16. Heard'
  <2>1. \A a \in Words : a.obj # new
    BY <1>4, <1>9, <1>11
  <2>2. ASSUME NEW a \in Words' PROVE /\ a.obj.tls /\ (a.op = "delete" => a.obj \notin secrets')
                                      /\ a.obj \in secrets' => a.obj \in cache'
    <3>1. CASE a \in Words
      BY <1>2, <1>13, <2>1, <3>1 DEF Heard
    <3>2. CASE s \in cache /\ a.obj = new /\ a.op = "update" /\ s.tls
      BY <1>4, <1>13, <3>2
    <3> QED
      BY <1>14, <3>1, <3>2
  <2> QED
    BY <2>2 DEF Heard
<1>17. Down'
  BY <1>1, <1>2, <1>13 DEF Down, Tells, Notify
<1> QED
  BY <1>1, <1>2, <1>4, <1>6, <1>7, <1>13, <1>15, <1>16, <1>17 DEF new, e, x

\* A secret is deleted: the deletion is the last thing said of it.
LEMMA DeleteOrder ==
    ASSUME OrderInv, NEW s \in secrets, NEW how \in {"delete", "gone"}, DeleteSecret(s, how)
    PROVE  LET x == ItemOf(Event(how, s, s))
           IN  /\ OrderInv' /\ Tells
               /\ missed \subseteq missed' /\ (how = "gone" => s.name \in missed')
               /\ s \notin cache => cache' = cache /\ Behind' = Behind /\ Words' = Words
               /\ s \in cache => cache' = cache \ {s}
               /\ s \in cache /\ ~(s.tls /\ how = "delete") => Behind' = Behind /\ Words' = Words
               /\ s \in cache /\ s.tls /\ how = "delete" =>
                     /\ Behind' = Behind \cup {x} /\ Words' = Words \cup {x}
                     /\ x.op = "delete" /\ x.obj = s
<1> USE DEF OrderInv
<1> DEFINE e == Event(how, s, s)
           x == ItemOf(e)
<1>1. Typed' /\ Tells
  BY TypedSecrets
<1>2. /\ secretRev' = secretRev + 1 /\ secrets' = secrets \ {s} /\ Notify(s, {}, e)
      /\ missed' = IF how = "gone" THEN missed \cup {s.name} ELSE missed
  BY DEF DeleteSecret
<1>3. s \in Secrets
  BY Parts
<1>4. e \in Events /\ e.type = how /\ e.obj = s
  BY <1>3, MakeItems
<1> HIDE DEF e
<1>5. Says(e) <=> s.tls /\ how = "delete"
  BY <1>4 DEF Says
<1>6. Says(e) => x \in SecretActions /\ x.op = "delete" /\ x.obj = s
  BY <1>4, <1>5, ItemOfFacts
<1> HIDE DEF x
<1>7. Says(e) => x \notin Words /\ \A a \in Words : Later(a, x)
  <2>1. Says(e) => x \notin Words
    BY <1>6 DEF Heard
  <2> QED
    BY <1>6, <2>1, LastInLine
<1>8. /\ EachOnce' /\ Line'
      /\ s \notin cache => cache' = cache /\ Behind' = Behind /\ Words' = Words
      /\ s \in cache => cache' = cache \ {s}
      /\ s \in cache /\ ~Says(e) => Behind' = Behind /\ Words' = Words
      /\ s \in cache /\ Says(e) => Behind' = Behind \cup {x} /\ Words' = Words \cup {x}
  <2>1. CASE s \notin cache
    <3>1. UNCHANGED <<cache, events>>
      BY <1>2, <2>1 DEF Notify
    <3> QED
      BY <1>1, <2>1, <3>1, UnsaidOrder DEF Tells
  <2>2. CASE s \in cache
    <3>1. cache' = cache \ {s} /\ events' = Append(events, e)
      BY <1>2, <2>2 DEF Notify
    <3>2. UNCHANGED <<queue, worker, action>>
      BY <1>1 DEF Tells
    <3>3. /\ EachOnce' /\ Line'
          /\ Says(e) => Behind' = Behind \cup {x} /\ Words' = Words \cup {x}
          /\ ~Says(e) => Behind' = Behind /\ Words' = Words
      BY <1>4, <1>7, <3>1, <3>2, SaidOrder DEF x
    <3> QED
      BY <2>2, <3>1, <3>3
  <2> QED
    BY <2>1, <2>2
<1>9. \A a \in Words' : a \in Words \/ (a.obj = s /\ a.op = "delete" /\ s.tls)
  BY <1>5, <1>6, <1>8
<1>10. secretRev \in Nat /\ s.rv \in Nat /\ s.rv <= secretRev
  BY <1>3, Parts, Fields DEF Versions
<1>11. \A r \in Nat : r <= secretRev => r <= secretRev + 1
  BY <1>10
<1>12. \A t \in secrets : t.rv \in Nat /\ t.rv <= secretRev
  BY Parts, Fields DEF Versions
<1>13. \A a \in Words : a.obj.rv \in Nat /\ a.obj.rv <= secretRev
  BY WordTypes, Fields DEF Versions
<1>14. Versions'
  <2>1. \A t \in secrets' : t.rv <= secretRev'
    BY <1>2, <1>11, <1>12
  <2>2. \A t, u \in secrets' : SameKey(t, u) => t = u
    BY <1>2 DEF Versions
  <2>3. \A a \in Words' : a.obj.rv <= secretRev'
    BY <1>2, <1>9, <1>10, <1>11, <1>13
  <2>4. ASSUME NEW a \in Words', NEW t \in secrets', SameKey(a.obj, t)
        PROVE  a.obj.rv < t.rv \/ a.obj = t
    <3>1. CASE a \in Words
      BY <1>2, <2>4, <3>1 DEF Versions
    <3>2. CASE a.obj = s
      BY <1>2, <2>4, <3>2 DEF Versions
    <3> QED
      BY <1>9, <3>1, <3>2
  <2> QED
    BY <2>1, <2>2, <2>3, <2>4 DEF Versions
<1>15. Heard'
  <2>1. ASSUME NEW a \in Words' PROVE /\ a.obj.tls /\ (a.op = "delete" => a.obj \notin secrets')
                                      /\ a.obj \in secrets' => a.obj \in cache'
    <3>1. CASE a \in Words
      BY <1>2, <1>8, <3>1 DEF Heard
    <3>2. CASE a.obj = s /\ a.op = "delete" /\ s.tls
      BY <1>2, <3>2
    <3> QED
      BY <1>9, <3>1, <3>2
  <2> QED
    BY <2>1 DEF Heard
<1>16. Down'
  BY <1>1, <1>2, <1>8 DEF Down, Tells, Notify
<1>17. missed \subseteq missed' /\ (how = "gone" => s.name \in missed')
  BY <1>2
<1> QED
  BY <1>1, <1>5, <1>6, <1>8, <1>14, <1>15, <1>16, <1>17 DEF e, x

\* The informer says something of the version the cluster has.
LEMMA ReplayOrder ==
    ASSUME OrderInv, NEW s \in secrets,
           Observe(s) \/ (s \in cache /\ Resync(s))
    PROVE  /\ OrderInv' /\ Tells /\ missed' = missed
           /\ cache' = cache \cup {s}
           /\ ~s.tls => Behind' = Behind /\ Words' = Words
           /\ s.tls => \E x \in SecretActions :
                          /\ Behind' = Behind \cup {x} /\ Words' = Words \cup {x}
                          /\ x.op # "delete" /\ x.obj = s
<1> USE DEF OrderInv
<1> DEFINE e == IF Observe(s) THEN Event("add", s, s) ELSE Event("update", s, s)
           x == ItemOf(e)
<1>1. Typed' /\ Tells
  BY TypedSecrets
<1>2. s \in Secrets
  BY Parts
<1>3. /\ e \in Events /\ e.type \in {"add", "update"} /\ e.obj = s /\ e.old = s
      /\ e.type = "add" => Observe(s)
      /\ e.type = "update" => s \in cache /\ Resync(s)
  <2>1. CASE Observe(s)
    <3>1. e = Event("add", s, s)
      BY <2>1
    <3> QED
      BY <1>2, <2>1, <3>1, MakeItems
  <2>2. CASE ~Observe(s)
    <3>1. e = Event("update", s, s)
      BY <2>2
    <3> QED
      BY <1>2, <2>2, <3>1, MakeItems
  <2> QED
    BY <2>1, <2>2
<1>4. /\ events' = Append(events, e) /\ cache' = cache \cup {s}
      /\ UNCHANGED <<secrets, secretRev, missed>>
  <2>1. CASE Observe(s)
    BY <2>1 DEF Observe, clusterVars
  <2>2. CASE ~Observe(s)
    <3>1. Resync(s) /\ s \in cache /\ e = Event("update", s, s)
      BY <2>2
    <3>2. events = <<>> /\ events' = <<e>> /\ UNCHANGED <<cache, secrets, secretRev, missed>>
      BY <3>1 DEF Resync, clusterVars
    <3> HIDE DEF e
    <3>3. events' = Append(events, e)
      BY <3>2
    <3> QED
      BY <3>1, <3>2, <3>3
  <2> QED
    BY <2>1, <2>2
<1> HIDE DEF e
<1>5. Says(e) <=> s.tls
  BY <1>3 DEF Says
<1>6. Says(e) => /\ x \in SecretActions /\ x.op = e.type /\ x.obj = s
                 /\ x = SecretAction(e.type, s, s)
  BY <1>3, ItemOfFacts DEF ItemOf
<1> HIDE DEF x
<1>7. Says(e) => x \notin Words
  <2>1. CASE e.type = "add"
    BY <1>3, <1>6, <2>1 DEF Observe, Heard
  <2>2. CASE e.type = "update"
    <3>1. /\ events = <<>>
          /\ SecretAction("update", s, s) \notin queue.dirty \cup queue.processing
      BY <1>3, <2>2 DEF Resync
    <3>2. SaidItems = {}
      BY <3>1, Elements DEF SaidItems
    <3> QED
      BY <1>6, <2>2, <3>1, <3>2 DEF Words, Behind, EachOnce
  <2> QED
    BY <1>3, <2>1, <2>2
<1>8. Says(e) => \A a \in Words : Later(a, x)
  BY <1>6, <1>7, LastInLine
<1>9. /\ EachOnce' /\ Line'
      /\ Says(e) => Behind' = Behind \cup {x} /\ Words' = Words \cup {x}
      /\ ~Says(e) => Behind' = Behind /\ Words' = Words
  <2>1. UNCHANGED <<queue, worker, action>>
    BY <1>1 DEF Tells
  <2> QED
    BY <1>3, <1>4, <1>8, <2>1, SaidOrder DEF x
<1>10. \A a \in Words' : a \in Words \/ (a.obj = s /\ a.op # "delete" /\ s.tls)
  BY <1>3, <1>5, <1>6, <1>9
<1>11. Versions'
  <2>1. \A a \in Words' : a.obj.rv <= secretRev'
    BY <1>4, <1>10 DEF Versions
  <2>2. \A a \in Words', t \in secrets' : SameKey(a.obj, t) => a.obj.rv < t.rv \/ a.obj = t
    BY <1>4, <1>10 DEF Versions
  <2> QED
    BY <1>4, <2>1, <2>2 DEF Versions
<1>12. Heard'
  BY <1>4, <1>10 DEF Heard
<1>13. Down'
  <2>1. watching
    BY <1>3 DEF Observe, Down
  <2>2. up
    BY <2>1 DEF Down
  <2> QED
    BY <1>1, <2>1, <2>2 DEF Down, Tells
<1> QED
  BY <1>1, <1>3, <1>4, <1>5, <1>6, <1>9, <1>11, <1>12, <1>13

\* Every step keeps the line.
LEMMA OrderStep == OrderInv /\ [Next]_vars => OrderInv'
<1> SUFFICES ASSUME OrderInv, [Next]_vars PROVE OrderInv'
  OBVIOUS
<1>1. CASE UNCHANGED vars
  <2>1. EachOnce' /\ Line' /\ Words' = Words
    BY <1>1, UnsaidOrder DEF vars
  <2>2. Versions' /\ Heard'
    BY <1>1, <2>1, OrderKept DEF vars, OrderInv
  <2>3. Down'
    BY <1>1 DEF vars, Down, OrderInv
  <2>4. Typed'
    BY <1>1, TypedStep DEF OrderInv
  <2> QED
    BY <2>1, <2>2, <2>3, <2>4 DEF OrderInv
<1>2. CASE Next
  <2>1. \A s \in cache : s \in secrets
    BY Parts DEF OrderInv
  <2> QED
    BY <1>2, <2>1, NextCases, IngressOrder, CreateOrder, UpdateOrder, DeleteOrder, ReplayOrder,
       HandledOrder, GetOrder, WorkerOrder, ProcessOrder
<1> QED
  BY <1>1, <1>2

\* Nothing is said in the initial state.
LEMMA OrderInit == Init => OrderInv /\ Words = {} /\ Behind = {}
<1> SUFFICES ASSUME Init PROVE OrderInv /\ Words = {} /\ Behind = {}
  OBVIOUS
<1>1. Typed
  BY TypedInit
<1>2. queue.waiting = <<>> /\ queue.dirty = {} /\ queue.processing = {} /\ events = <<>>
  BY Empties DEF Init
<1>3. ToSet(queue.waiting) = {} /\ ToSet(events) = {}
  BY <1>2, Elements
<1>4. SaidItems = {}
  BY <1>3 DEF SaidItems
<1>5. Behind = {} /\ Words = {}
  BY <1>2, <1>3, <1>4 DEF Behind, Words
<1>6. EachOnce
  BY <1>2, <1>3 DEF EachOnce, Init
<1>7. Line
  <2>1. Sorted(queue.waiting, ItemOrder) /\ Sorted(events, EventOrder)
    BY <1>2, Elements
  <2> QED
    BY <1>2, <1>3, <1>4, <2>1 DEF Line
<1>8. Down
  BY DEF Down, Init
<1>9. Versions /\ Heard
  BY <1>5 DEF Versions, Heard, Init
<1> QED
  BY <1>1, <1>5, <1>6, <1>7, <1>8, <1>9 DEF OrderInv

\* Every state of the secrets' side has its type, for any cluster, any history of its ingresses
\* and secrets and any failures of the disk; in particular the queue processes exactly the item
\* in hand.
THEOREM TypeCorrect == Spec => []TypeOK
<1>1. OrderInv => TypeOK
  BY DEF OrderInv, Typed, EachOnce, TypeOK
<1> QED
  BY <1>1, OrderInit, OrderStep, PTL DEF Spec
-----------------------------------------------------------------------------
(* No file outlives its secret.                                            *)

\* The item in hand, if it is about a secret and not yet handled.
Hand == IF worker = "handle" THEN {action} \cap SecretActions ELSE {}

AliveIn(c, x) == \E s \in c : s.tls /\ SameKey(s, x)

\* The version x will be deleted, says an item of D.
DeletedBy(D, x) == \E d \in D : d.op = "delete" /\ SameKey(d.obj, x) /\ x.rv <= d.obj.rv

\* What will be written has a secret in the cache or a deletion behind it.
Doomed ==
    \A a \in Words : a.op # "delete" =>
        a.obj.name \in missed \/ AliveIn(cache, a.obj) \/ DeletedBy(Behind, a.obj)

\* So has what is written; its deletion may be in hand, or have failed.
Passing ==
    \A n \in SecretNames : folder[n] \in Secrets /\ folder[n].tls =>
        /\ folder[n].name = n
        /\ \/ n \in missed \cup unremoved \/ AliveIn(cache, folder[n])
           \/ \E d \in Behind \cup Hand : d.op = "delete" /\ SameKey(d.obj, folder[n])

FileInv == OrderInv /\ Doomed /\ Passing

\* A step that says nothing new and loses no secret and no deletion.
LEMMA DoomedQuiet ==
    ASSUME Doomed, Words' \subseteq Words, missed \subseteq missed',
           \A x : AliveIn(cache, x) => AliveIn(cache', x),
           \A d \in Behind : d.op = "delete" => d \in Behind'
    PROVE  Doomed'
<1> SUFFICES ASSUME NEW a \in Words', a.op # "delete"
             PROVE  a.obj.name \in missed' \/ AliveIn(cache', a.obj) \/ DeletedBy(Behind', a.obj)
  BY DEF Doomed
<1>1. a.obj.name \in missed \/ AliveIn(cache, a.obj) \/ DeletedBy(Behind, a.obj)
  BY DEF Doomed
<1>2. DeletedBy(Behind, a.obj) => DeletedBy(Behind', a.obj)
  BY DEF DeletedBy
<1> QED
  BY <1>1, <1>2

\* The same for the files.
LEMMA PassingQuiet ==
    ASSUME Passing, UNCHANGED <<folder, unremoved>>, missed \subseteq missed',
           \A x : AliveIn(cache, x) => AliveIn(cache', x),
           \A d \in Behind \cup Hand : d.op = "delete" => d \in Behind' \cup Hand'
    PROVE  Passing'
<1> SUFFICES ASSUME NEW n \in SecretNames, folder[n] \in Secrets, folder[n].tls
             PROVE  /\ folder[n].name = n
                    /\ \/ n \in missed' \cup unremoved' \/ AliveIn(cache', folder[n])
                       \/ \E d \in Behind' \cup Hand' : d.op = "delete" /\ SameKey(d.obj, folder[n])
  BY DEF Passing
<1> QED
  BY DEF Passing

\* A secret is changed, cached or replayed: it stays alive, and what is said is that it lives.
LEMMA LivingFiles ==
    ASSUME FileInv, FileInv => OrderInv', Tells, missed' = missed, NEW N,
           \A x : AliveIn(cache, x) => AliveIn(cache', x),
           Behind' = Behind \cup N, Words' = Words \cup N,
           \A y \in N : AliveIn(cache', y.obj)
    PROVE  FileInv'
<1>1. Hand' = Hand /\ UNCHANGED <<folder, unremoved>>
  BY DEF Hand, Tells, diskVars
<1>2. Passing'
  BY <1>1, PassingQuiet DEF FileInv
<1>3. ASSUME NEW a \in Words', a.op # "delete"
      PROVE  a.obj.name \in missed' \/ AliveIn(cache', a.obj) \/ DeletedBy(Behind', a.obj)
  <2>1. CASE a \in N
    BY <2>1
  <2>2. CASE a \in Words
    <3>1. a.obj.name \in missed \/ AliveIn(cache, a.obj) \/ DeletedBy(Behind, a.obj)
      BY <1>3, <2>2 DEF FileInv, Doomed
    <3>2. DeletedBy(Behind, a.obj) => DeletedBy(Behind', a.obj)
      BY DEF DeletedBy
    <3> QED
      BY <3>1, <3>2
  <2> QED
    BY <1>3, <2>1, <2>2
<1> QED
  BY <1>2, <1>3 DEF FileInv, Doomed

\* The steps of the secrets but for the deletion.
LEMMA SecretFiles ==
    ASSUME FileInv,
           \/ \E ns \in Namespaces, n \in SecretNames, tls \in Types : CreateSecret(ns, n, tls)
           \/ \E s \in secrets : UpdateSecret(s) \/ Observe(s)
           \/ \E s \in cache : Resync(s)
    PROVE  FileInv'
<1> USE DEF FileInv
<1>1. ASSUME NEW ns \in Namespaces, NEW n \in SecretNames, NEW tls \in Types,
             CreateSecret(ns, n, tls)
      PROVE  FileInv'
  <2>1. /\ OrderInv' /\ Behind' = Behind /\ Words' = Words /\ Tells /\ UNCHANGED <<cache, missed>>
    BY <1>1, CreateOrder
  <2> DEFINE N == {}
  <2>2. Behind' = Behind \cup N /\ Words' = Words \cup N /\ \A y \in N : AliveIn(cache', y.obj)
    BY <2>1
  <2> HIDE DEF N
  <2>3. \A x : AliveIn(cache, x) => AliveIn(cache', x)
    BY <2>1
  <2> QED
    BY <2>1, <2>2, <2>3, LivingFiles
<1>2. ASSUME NEW s \in secrets, UpdateSecret(s)
      PROVE  FileInv'
  <2> DEFINE new == [s EXCEPT !.rv = secretRev + 1]
             x   == ItemOf(Event("update", new, s))
  <2>1. /\ OrderInv' /\ Tells /\ missed' = missed
        /\ new.ns = s.ns /\ new.name = s.name /\ new.tls = s.tls
        /\ s \notin cache => cache' = cache /\ Behind' = Behind /\ Words' = Words
        /\ s \in cache => cache' = (cache \ {s}) \cup {new}
        /\ s \in cache /\ ~s.tls => Behind' = Behind /\ Words' = Words
        /\ s \in cache /\ s.tls => /\ Behind' = Behind \cup {x} /\ Words' = Words \cup {x}
                                   /\ x.obj = new
    BY <1>2, UpdateOrder
  <2> HIDE DEF new, x
  <2>2. \A z : AliveIn(cache, z) => AliveIn(cache', z)
    BY <2>1 DEF AliveIn, SameKey
  <2>3. s \in cache /\ s.tls => AliveIn(cache', x.obj)
    BY <2>1 DEF AliveIn, SameKey
  <2> DEFINE N == IF s \in cache /\ s.tls THEN {x} ELSE {}
  <2>4. Behind' = Behind \cup N /\ Words' = Words \cup N /\ \A y \in N : AliveIn(cache', y.obj)
    BY <2>1, <2>3
  <2> HIDE DEF N
  <2> QED
    BY <2>1, <2>2, <2>4, LivingFiles
<1>3. ASSUME NEW s \in secrets, Observe(s) \/ (s \in cache /\ Resync(s))
      PROVE  FileInv'
  <2>1. /\ OrderInv' /\ Tells /\ missed' = missed /\ cache' = cache \cup {s}
        /\ ~s.tls => Behind' = Behind /\ Words' = Words
        /\ s.tls => \E x \in SecretActions :
                       /\ Behind' = Behind \cup {x} /\ Words' = Words \cup {x}
                       /\ x.op # "delete" /\ x.obj = s
    BY <1>3, ReplayOrder
  <2>2. \A z : AliveIn(cache, z) => AliveIn(cache', z)
    BY <2>1 DEF AliveIn
  <2>3. s.tls => AliveIn(cache', s)
    BY <2>1 DEF AliveIn, SameKey
  <2>4. CASE ~s.tls
    <3> DEFINE N == {}
    <3>1. Behind' = Behind \cup N /\ Words' = Words \cup N /\ \A y \in N : AliveIn(cache', y.obj)
      BY <2>1, <2>4
    <3> HIDE DEF N
    <3> QED
      BY <2>1, <2>2, <3>1, LivingFiles
  <2>5. CASE s.tls
    <3>1. PICK x : Behind' = Behind \cup {x} /\ Words' = Words \cup {x} /\ x.obj = s
      BY <2>1, <2>5
    <3> DEFINE N == {x}
    <3>2. Behind' = Behind \cup N /\ Words' = Words \cup N /\ \A y \in N : AliveIn(cache', y.obj)
      BY <2>3, <2>5, <3>1
    <3> HIDE DEF N
    <3> QED
      BY <2>1, <2>2, <3>2, LivingFiles
  <2> QED
    BY <2>4, <2>5
<1>4. \A s \in cache : s \in secrets
  BY Parts DEF OrderInv
<1> QED
  BY <1>1, <1>2, <1>3, <1>4

\* A secret is deleted: its deletion is said, or the watch has missed it.
LEMMA DeletedFiles ==
    ASSUME FileInv, NEW s \in secrets, NEW how \in {"delete", "gone"}, DeleteSecret(s, how)
    PROVE  FileInv'
<1> USE DEF FileInv
<1> DEFINE x == ItemOf(Event(how, s, s))
<1>1. /\ OrderInv' /\ Tells
      /\ missed \subseteq missed' /\ (how = "gone" => s.name \in missed')
      /\ s \notin cache => cache' = cache /\ Behind' = Behind /\ Words' = Words
      /\ s \in cache => cache' = cache \ {s}
      /\ s \in cache /\ ~(s.tls /\ how = "delete") => Behind' = Behind /\ Words' = Words
      /\ s \in cache /\ s.tls /\ how = "delete" =>
            /\ Behind' = Behind \cup {x} /\ Words' = Words \cup {x}
            /\ x.op = "delete" /\ x.obj = s
  BY DeleteOrder
<1> HIDE DEF x
<1>2. Hand' = Hand /\ UNCHANGED <<folder, unremoved>>
  BY <1>1 DEF Hand, Tells, diskVars
<1>3. CASE s \notin cache
  <2>1. Doomed'
    BY <1>1, <1>3, DoomedQuiet
  <2>2. Passing'
    BY <1>1, <1>2, <1>3, PassingQuiet
  <2> QED
    BY <1>1, <2>1, <2>2
<1>4. CASE s \in cache /\ ~s.tls
  <2>1. \A z : AliveIn(cache, z) => AliveIn(cache', z)
    BY <1>1, <1>4 DEF AliveIn
  <2>2. Doomed'
    BY <1>1, <1>4, <2>1, DoomedQuiet
  <2>3. Passing'
    BY <1>1, <1>2, <1>4, <2>1, PassingQuiet
  <2> QED
    BY <1>1, <2>2, <2>3
<1>5. CASE s \in cache /\ s.tls
  <2>1. \A z : AliveIn(cache, z) => AliveIn(cache', z) \/ SameKey(s, z)
    BY <1>1, <1>5 DEF AliveIn
  <2>2. Behind \subseteq Behind'
    BY <1>1, <1>5
  <2>3. \A z : DeletedBy(Behind, z) => DeletedBy(Behind', z)
    BY <2>2 DEF DeletedBy
  <2>4. ASSUME NEW a \in Words', a.op # "delete"
        PROVE  a.obj.name \in missed' \/ AliveIn(cache', a.obj) \/ DeletedBy(Behind', a.obj)
    <3>1. a \in Words
      BY <1>1, <1>5, <2>4
    <3>2. a.obj.name \in missed \/ AliveIn(cache, a.obj) \/ DeletedBy(Behind, a.obj)
      BY <2>4, <3>1 DEF Doomed
    <3>3. CASE SameKey(s, a.obj)
      <4>1. CASE how = "gone"
        BY <1>1, <3>3, <4>1 DEF SameKey
      <4>2. CASE how = "delete"
        <5>1. SameKey(a.obj, s)
          BY <3>3 DEF SameKey
        <5>2. a.obj.rv < s.rv \/ a.obj = s
          BY <3>1, <5>1 DEF OrderInv, Versions
        <5>3. s.rv \in Nat /\ a.obj.rv \in Nat
          BY <3>1, Parts, Fields, WordTypes DEF OrderInv
        <5>4. a.obj.rv <= s.rv
          BY <5>2, <5>3
        <5>5. x \in Behind' /\ x.op = "delete" /\ x.obj = s
          BY <1>1, <1>5, <4>2
        <5> QED
          BY <3>3, <5>4, <5>5 DEF DeletedBy
      <4> QED
        BY <4>1, <4>2
    <3>4. CASE ~SameKey(s, a.obj)
      BY <1>1, <2>1, <2>3, <3>2, <3>4
    <3> QED
      BY <3>3, <3>4
  <2>5. ASSUME NEW n \in SecretNames, folder'[n] \in Secrets, folder'[n].tls
        PROVE  /\ folder'[n].name = n
               /\ \/ n \in missed' \cup unremoved' \/ AliveIn(cache', folder'[n])
                  \/ \E d \in Behind' \cup Hand' : d.op = "delete" /\ SameKey(d.obj, folder'[n])
    <3>1. /\ folder[n].name = n
          /\ \/ n \in missed \cup unremoved \/ AliveIn(cache, folder[n])
             \/ \E d \in Behind \cup Hand : d.op = "delete" /\ SameKey(d.obj, folder[n])
      BY <1>2, <2>5 DEF Passing
    <3>2. CASE SameKey(s, folder[n])
      <4>1. CASE how = "gone"
        BY <1>1, <1>2, <3>1, <3>2, <4>1 DEF SameKey
      <4>2. CASE how = "delete"
        <5>1. x \in Behind' /\ x.op = "delete" /\ x.obj = s
          BY <1>1, <1>5, <4>2
        <5> QED
          BY <1>2, <3>1, <3>2, <5>1
      <4> QED
        BY <4>1, <4>2
    <3>3. CASE ~SameKey(s, folder[n])
      BY <1>1, <1>2, <2>1, <2>2, <3>1, <3>3
    <3> QED
      BY <3>2, <3>3
  <2> QED
    BY <1>1, <2>4, <2>5 DEF Doomed, Passing
<1> QED
  BY <1>3, <1>4, <1>5

\* The worker takes an item: a deletion is now in hand.
LEMMA TakenFiles ==
    ASSUME FileInv, GetItem
    PROVE  FileInv'
<1> USE DEF FileInv
<1>1. /\ OrderInv' /\ Words' = Words /\ Words = Behind' \cup ({action'} \cap SecretActions)
      /\ \A b \in Behind' : Later(action', b)
      /\ queue.processing = {}
  BY GetOrder
<1>2. UNCHANGED <<missed, cache, folder, unremoved>> /\ worker' = "handle" /\ worker = "idle"
  BY DEF GetItem, clusterVars, informerVars, diskVars
<1>3. Hand' = {action'} \cap SecretActions /\ Hand = {}
  BY <1>2 DEF Hand
<1>4. Behind \subseteq Behind' \cup Hand'
  BY <1>1, <1>3 DEF Words
<1>5. Passing'
  BY <1>2, <1>3, <1>4, PassingQuiet
<1>6. ASSUME NEW a \in Words, a.op # "delete", DeletedBy(Behind, a.obj)
      PROVE  DeletedBy(Behind', a.obj)
  <2>1. PICK d \in Behind : d.op = "delete" /\ SameKey(d.obj, a.obj) /\ a.obj.rv <= d.obj.rv
    BY <1>6 DEF DeletedBy
  <2>2. CASE d \in Behind'
    BY <2>1, <2>2 DEF DeletedBy
  <2>3. CASE d \notin Behind'
    <3>1. d = action' /\ d \in SecretActions /\ a \in Behind'
      BY <1>1, <1>3, <1>4, <1>6, <2>1, <2>3
    <3>2. Later(d, a) /\ a \in SecretActions
      BY <1>1, <3>1, WordTypes DEF OrderInv
    <3>3. d.obj.rv < a.obj.rv
      BY <2>1, <3>1, <3>2 DEF Later
    <3>4. d.obj.rv \in Nat /\ a.obj.rv \in Nat
      BY <3>1, <3>2, Items, Fields
    <3> QED
      BY <2>1, <3>3, <3>4
  <2> QED
    BY <2>2, <2>3
<1>7. Doomed'
  BY <1>1, <1>2, <1>6 DEF Doomed
<1> QED
  BY <1>1, <1>5, <1>7

\* What a step of the worker does to the files: nothing, the files of the listed secrets, or the
\* one file of the secret in hand is written, spoilt or removed, or stays.
Leaves ==
    /\ Hand = {} /\ worker # "list"
    /\ UNCHANGED <<folder, dropped, unremoved>>
    /\ unwritten' \in {unwritten, SecretNames}

Lists ==
    /\ Hand = {} /\ worker = "list"
    /\ UNCHANGED <<dropped, unremoved>>
    /\ \A n \in SecretNames :
          \/ folder'[n] \in {folder[n], Broken}
          \/ folder'[n] \in cache /\ folder'[n].name = n

Holds == action \in SecretActions /\ worker = "handle" /\ Hand = {action} /\ action \in Words

Writes ==
    /\ Holds /\ action.op # "delete"
    /\ folder' = [folder EXCEPT ![action.obj.name] = action.obj]
    /\ unwritten' = unwritten \ {action.obj.name}
    /\ dropped' = dropped \ {action.obj}
    /\ unremoved' = unremoved \ {action.obj.name}

Spoils ==
    /\ Holds /\ action.op # "delete"
    /\ folder' \in {folder, [folder EXCEPT ![action.obj.name] = Broken]}
    /\ unwritten' = unwritten \cup {action.obj.name}
    /\ UNCHANGED <<dropped, unremoved>>

Removes ==
    /\ Holds /\ action.op = "delete"
    /\ folder' = [folder EXCEPT ![action.obj.name] = NoFile]
    /\ unwritten' = unwritten \ {action.obj.name}
    /\ dropped' = dropped
    /\ unremoved' = unremoved \ {action.obj.name}

GivesUp ==
    /\ Holds /\ action.op = "delete"
    /\ UNCHANGED <<folder, unwritten, dropped>>
    /\ unremoved' = unremoved \cup {action.obj.name}

\* There is nothing else, and the secrets are listed only when none was cached.
LEMMA WorkerFiles ==
    ASSUME OrderInv, Handlers \/ ReloadCaddy \/ LoadFails
    PROVE  /\ Leaves \/ Lists \/ Writes \/ Spoils \/ Removes \/ GivesUp
           /\ Hand' = {}
           /\ worker' = "list" => cache = {}
<1> USE DEF OrderInv
<1>1. /\ worker # "idle" /\ (Stay \/ Back)
  BY WorkerSteps
<1>2. Hand' = {}
  <2>1. worker' # "handle"
    BY <1>1 DEF Stay, Back
  <2> QED
    BY <2>1 DEF Hand
<1>3. worker' = "list" => cache = {}
  <2>1. worker' = "list" => ~watching
    BY DEF Handlers, HandleIngressSet, MkdirFails, StartPluck, HandleIngressDeleted, SyncSecrets,
           HandleSecretSet, WriteFails, HandleSecretDeleted, RemoveFails, ReloadCaddy, LoadFails, Goto,
           HandleFailed, Finish
  <2> QED
    BY <2>1 DEF Down
<1>4. ASSUME worker = "handle", action.kind = "ingress" PROVE Hand = {} /\ worker # "list"
  BY <1>4, InHand DEF Hand
<1>5. worker # "handle" => Hand = {}
  BY DEF Hand
<1>6. ASSUME worker = "handle", action.kind = "secret" PROVE Holds
  <2>1. action \in SecretActions
    BY <1>6, InHand
  <2>2. queue.processing = {action}
    BY <1>6 DEF EachOnce
  <2>3. action \in Words /\ Hand = {action}
    BY <1>6, <2>1, <2>2 DEF Words, Hand
  <2> QED
    BY <1>6, <2>1, <2>3 DEF Holds
<1>7. ASSUME HandleIngressSet PROVE Leaves
  BY <1>4, <1>7 DEF HandleIngressSet, Handling, Goto, diskVars, Leaves
<1>8. ASSUME MkdirFails PROVE Leaves
  BY <1>4, <1>8 DEF MkdirFails, Handling, informerVars, Leaves
<1>9. ASSUME StartPluck PROVE Leaves
  BY <1>4, <1>9 DEF StartPluck, Handling, informerVars, diskVars, Leaves
<1>10. ASSUME HandleIngressDeleted PROVE Leaves
  BY <1>5, <1>10 DEF HandleIngressDeleted, informerVars, diskVars, Leaves
<1>11. ASSUME ReloadCaddy PROVE Leaves
  BY <1>5, <1>11 DEF ReloadCaddy, informerVars, diskVars, Leaves
<1>12. ASSUME LoadFails PROVE Leaves
  BY <1>5, <1>12 DEF LoadFails, informerVars, diskVars, Leaves
<1>13. ASSUME HandleSecretSet PROVE Writes
  <2>1. Holds
    BY <1>6, <1>13 DEF HandleSecretSet, Handling
  <2> QED
    BY <1>13, <2>1 DEF HandleSecretSet, Handling, writeFile, Writes
<1>14. ASSUME WriteFails PROVE Spoils
  <2>1. Holds
    BY <1>6, <1>14 DEF WriteFails, Handling
  <2> QED
    BY <1>14, <2>1 DEF WriteFails, Handling, informerVars, Spoils
<1>15. ASSUME HandleSecretDeleted PROVE Removes
  <2>1. Holds
    BY <1>6, <1>15 DEF HandleSecretDeleted, Handling
  <2> QED
    BY <1>15, <2>1 DEF HandleSecretDeleted, Handling, informerVars, Removes
<1>16. ASSUME SyncSecrets PROVE Lists
  <2> DEFINE listed == ListTLSSecrets(cache, store)
  <2>1. worker = "list" /\ UNCHANGED <<dropped, unremoved>> /\ Hand = {}
    BY <1>5, <1>16 DEF SyncSecrets, informerVars
  <2>2. folder \in Folders /\ cache \in SUBSET Secrets /\ store \in Seq(Ingresses)
    BY Parts
  <2>3. CASE folder' = writeFiles(folder, cache, store, listed)
    BY <2>1, <2>2, <2>3, Written DEF Lists
  <2>4. ASSUME NEW p \in listed,
               folder' = [writeFiles(folder, cache, store, {q \in listed : Before(q, p)})
                             EXCEPT ![NameAt(store, p)] = Broken]
        PROVE  Lists
    <3> DEFINE w == writeFiles(folder, cache, store, {q \in listed : Before(q, p)})
    <3>1. /\ w \in Folders
          /\ \A n \in SecretNames : w[n] = folder[n] \/ (w[n] \in cache /\ w[n].name = n)
      BY <2>2, Written
    <3> HIDE DEF w, listed
    <3>2. \A n \in SecretNames : folder'[n] = Broken \/ folder'[n] = w[n]
      BY <2>4, <3>1 DEF w, Folders
    <3> QED
      BY <2>1, <3>1, <3>2 DEF Lists
  <2> QED
    BY <1>16, <2>3, <2>4 DEF SyncSecrets
<1>17. ASSUME RemoveFails PROVE GivesUp
  <2>1. Holds
    BY <1>6, <1>17 DEF RemoveFails, Handling
  <2> QED
    BY <1>17, <2>1 DEF RemoveFails, Handling, informerVars, GivesUp
<1>18. Leaves \/ Lists \/ Writes \/ Spoils \/ Removes \/ GivesUp
  BY <1>7, <1>8, <1>9, <1>10, <1>11, <1>12, <1>13, <1>14, <1>15, <1>16, <1>17 DEF Handlers
<1> QED
  BY <1>2, <1>3, <1>18

\* A step of the worker writes only what lives or will be deleted.
LEMMA WorkerPasses ==
    ASSUME FileInv, Handlers \/ ReloadCaddy \/ LoadFails
    PROVE  FileInv'
<1> USE DEF FileInv
<1>1. OrderInv' /\ Behind' = Behind /\ Words' \subseteq Words
  BY WorkerOrder
<1>2. UNCHANGED <<missed, cache>>
  BY WorkerSteps
<1>3. Doomed'
  BY <1>1, <1>2, DoomedQuiet
<1>4. Hand' = {}
  BY WorkerFiles
<1> DEFINE Fine(f) ==
             /\ \/ f.name \in missed \cup unremoved' \/ AliveIn(cache, f)
                \/ \E d \in Behind : d.op = "delete" /\ SameKey(d.obj, f)
<1>5. folder \in Folders /\ cache \in SUBSET Secrets
  BY Parts DEF OrderInv
<1>6. SUFFICES ASSUME NEW n \in SecretNames, folder'[n] \in Secrets, folder'[n].tls
               PROVE  folder'[n].name = n /\ Fine(folder'[n])
  <2> HIDE DEF Fine
  <2>1. ASSUME NEW m \in SecretNames, folder'[m] \in Secrets, folder'[m].tls,
               folder'[m].name = m, Fine(folder'[m])
        PROVE  \/ m \in missed' \cup unremoved' \/ AliveIn(cache', folder'[m])
               \/ \E d \in Behind' \cup Hand' : d.op = "delete" /\ SameKey(d.obj, folder'[m])
    BY <1>1, <1>2, <2>1 DEF Fine
  <2> QED
    BY <1>1, <1>3, <1>6, <2>1 DEF Passing
<1>7. CASE /\ folder'[n] = folder[n] /\ (n \in unremoved => n \in unremoved')
           /\ \A d \in Hand : d.op = "delete" => d.obj.name # n
  <2>1. /\ folder[n].name = n
        /\ \/ n \in missed \cup unremoved \/ AliveIn(cache, folder[n])
           \/ \E d \in Behind \cup Hand : d.op = "delete" /\ SameKey(d.obj, folder[n])
    BY <1>6, <1>7 DEF Passing
  <2>2. \A d \in Hand : d.op = "delete" => ~SameKey(d.obj, folder[n])
    BY <1>7, <2>1 DEF SameKey
  <2> QED
    BY <1>7, <2>1, <2>2
<1>8. CASE folder'[n] \in cache /\ folder'[n].name = n
  BY <1>6, <1>8 DEF AliveIn, SameKey
<1>9. CASE folder'[n] \in {NoFile, Broken}
  BY <1>6, <1>9, Fields
<1>10. CASE Writes /\ n = action.obj.name
  <2>1. folder'[n] = action.obj
    BY <1>5, <1>10 DEF Writes, Folders
  <2>2. action \in Words /\ action.op # "delete"
    BY <1>10 DEF Writes, Holds
  <2>3. action.obj.name \in missed \/ AliveIn(cache, action.obj) \/ DeletedBy(Behind, action.obj)
    BY <2>2 DEF Doomed
  <2> QED
    BY <1>10, <2>1, <2>3 DEF DeletedBy
<1>11. ASSUME Writes \/ Spoils \/ Removes \/ GivesUp, n # action.obj.name
       PROVE  /\ folder'[n] = folder[n] /\ (n \in unremoved => n \in unremoved')
              /\ \A d \in Hand : d.op = "delete" => d.obj.name # n
  BY <1>5, <1>11 DEF Writes, Spoils, Removes, GivesUp, Holds, Folders
<1>12. CASE Writes
  BY <1>7, <1>10, <1>11, <1>12
<1>13. CASE Spoils
  <2>1. folder'[n] = folder[n] \/ folder'[n] = Broken
    BY <1>5, <1>13 DEF Spoils, Folders
  <2>2. unremoved' = unremoved /\ \A d \in Hand : d.op # "delete"
    BY <1>13 DEF Spoils, Holds
  <2> QED
    BY <1>7, <1>9, <2>1, <2>2
<1>14. CASE Removes
  <2>1. n = action.obj.name => folder'[n] = NoFile
    BY <1>5, <1>14 DEF Removes, Folders
  <2> QED
    BY <1>7, <1>9, <1>11, <1>14, <2>1
<1>15. CASE Leaves
  BY <1>7, <1>15 DEF Leaves
<1>16. CASE Lists
  BY <1>7, <1>8, <1>9, <1>16 DEF Lists
<1>17. CASE GivesUp
  <2>1. CASE n = action.obj.name
    <3>1. folder'[n] = folder[n] /\ n \in unremoved'
      BY <1>17, <2>1 DEF GivesUp
    <3>2. folder[n].name = n
      BY <1>6, <3>1 DEF Passing
    <3> QED
      BY <3>1, <3>2
  <2> QED
    BY <1>7, <1>11, <1>17, <2>1
<1> QED
  BY <1>12, <1>13, <1>14, <1>15, <1>16, <1>17, WorkerFiles

\* Every step keeps the files.
LEMMA FileStep == FileInv /\ [Next]_vars => FileInv'
<1> SUFFICES ASSUME FileInv, [Next]_vars PROVE FileInv'
  OBVIOUS
<1> USE DEF FileInv
<1>1. OrderInv'
  BY OrderStep
<1>2. ASSUME Words' \subseteq Words, UNCHANGED <<missed, cache, folder, unremoved, worker, action>>,
             \A d \in Behind : d.op = "delete" => d \in Behind'
      PROVE  FileInv'
  <2>1. Hand' = Hand
    BY <1>2 DEF Hand
  <2>2. Doomed'
    BY <1>2, DoomedQuiet
  <2>3. Passing'
    BY <1>2, <2>1, PassingQuiet
  <2> QED
    BY <1>1, <2>2, <2>3
<1>3. CASE UNCHANGED vars
  <2>1. Words' = Words /\ Behind' = Behind
    BY <1>3, UnsaidOrder DEF vars
  <2> QED
    BY <1>2, <1>3, <2>1 DEF vars
<1>4. CASE \/ \E u \in Uids, spec \in IngressSpecs : SetIngress(u, spec)
           \/ \E ing \in ingresses : RemoveIngress(ing)
           \/ \E ing \in ingresses : ResyncIngress(ing)
  <2>1. Words' = Words /\ Behind' = Behind
    BY <1>4, IngressOrder
  <2>2. UNCHANGED <<missed, cache, folder, unremoved, worker, action>>
    BY <1>4, TypedIngress DEF OrderInv, informerVars, diskVars
  <2> QED
    BY <1>2, <2>1, <2>2
<1>5. CASE HandleEvent
  <2>1. Words' \subseteq Words /\ \A d \in Behind : d.op = "delete" => d \in Behind'
    BY <1>5, HandledOrder
  <2>2. UNCHANGED <<missed, cache, folder, unremoved, worker, action>>
    BY <1>5, EventHandled DEF OrderInv
  <2> QED
    BY <1>2, <2>1, <2>2
<1>6. CASE Start \/ Crash
  <2>1. /\ Words' = {} /\ Behind' = {} /\ (Start => UNCHANGED <<folder, missed>>)
        /\ (Crash => folder' = EmptyFolder)
    BY <1>6, ProcessOrder
  <2>2. Doomed'
    BY <2>1 DEF Doomed
  <2>3. CASE Start
    <3>1. ~up /\ UNCHANGED <<cache, unremoved>>
      BY <2>3, FirstList DEF OrderInv
    <3>2. Behind = {} /\ Hand = {}
      <4>1. queue = EmptyQueue /\ events = <<>> /\ worker = "idle"
        BY <3>1 DEF OrderInv, Down
      <4>2. ToSet(queue.waiting) = {} /\ ToSet(events) = {}
        BY <4>1, Empties, Elements
      <4> QED
        BY <4>1, <4>2 DEF Behind, SaidItems, Hand
    <3> QED
      BY <1>1, <2>1, <2>2, <2>3, <3>1, <3>2, PassingQuiet
  <2>4. CASE Crash
    <3>1. \A n \in SecretNames : folder'[n] \notin Secrets
      BY <2>1, <2>4, Empties, Fields
    <3> QED
      BY <1>1, <2>2, <3>1 DEF Passing
  <2> QED
    BY <1>6, <2>3, <2>4
<1> QED
  BY <1>3, <1>4, <1>5, <1>6, NextCases, SecretFiles, DeletedFiles, TakenFiles, WorkerPasses

\* The folder is empty in the initial state.
LEMMA FileInit == Init => FileInv
<1> SUFFICES ASSUME Init PROVE FileInv
  OBVIOUS
<1>1. OrderInv /\ Words = {}
  BY OrderInit
<1>2. \A n \in SecretNames : folder[n] \notin Secrets
  BY Empties, Fields DEF Init
<1> QED
  BY <1>1, <1>2 DEF FileInv, Doomed, Passing

\* Once nothing is under way, each file of a TLS secret belongs to one that is still in the
\* cluster: onSecretDeleted queues every deletion, managed or not, and no older version is
\* written behind it.  Only a deletion the watch has missed, or a file that could not be
\* removed and was not written again, is left.
THEOREM FilesDoNotOutlive == Spec => []NoOrphanFile
<1>1. FileInv => NoOrphanFile
  <2> SUFFICES ASSUME FileInv, Settled, NEW n \in SecretNames \ (missed \cup unremoved),
                      folder[n] \in Secrets, folder[n].tls
               PROVE  \E s \in secrets : s.tls /\ s.name = n /\ s.ns = folder[n].ns
    BY DEF NoOrphanFile
  <2>1. ToSet(queue.waiting) = {} /\ ToSet(events) = {} /\ Hand = {}
    BY Elements DEF Settled, Hand
  <2>2. Behind = {}
    BY <2>1 DEF Behind, SaidItems
  <2>3. folder[n].name = n /\ AliveIn(cache, folder[n])
    BY <2>1, <2>2 DEF FileInv, Passing
  <2> QED
    BY <2>3, Parts DEF AliveIn, SameKey, FileInv, OrderInv
<1> QED
  BY FileInit, FileStep, <1>1, PTL DEF Spec
-----------------------------------------------------------------------------
(* The folder follows the secrets.                                         *)

\* File names have no namespace: with several of them, secrets of one name share a file.
OneNamespace == \A a, b \in Namespaces : a = b

\* The version s of a secret is under way behind the item in hand, or was dropped.
Coming(s) == s \in dropped \/ \E a \in Behind : a.op # "delete" /\ a.obj = s

\* ... or it is in hand, in its file, or could not be written.
Arrives(s) ==
    \/ Coming(s) \/ s.name \in unwritten \/ folder[s.name] = s
    \/ \E a \in Hand : a.op # "delete" /\ a.obj = s

\* Each cached secret arrives; the worker that lists, and every older item, leave it coming.
Follows ==
    \A s \in cache : s.tls =>
        /\ Arrives(s)
        /\ worker = "list" => Coming(s)
        /\ \A a \in Words : SameKey(a.obj, s) /\ a.obj # s => Coming(s)

\* Without the informer nothing is said of secrets, and an ingress with a TLS section is in the
\* store only if the folder could not be made.
Unwatched ==
    ~watching => Words = {} /\ (HasManagedTLS(store) => unwritten = SecretNames)

FollowInv == OrderInv /\ Follows /\ Unwatched

\* In one namespace the name is the key.
LEMMA NameIsKey ==
    ASSUME OneNamespace, NEW x \in Secrets, NEW y \in Secrets, x.name = y.name
    PROVE  SameKey(x, y)
BY Fields DEF OneNamespace, SameKey

\* A step that takes nothing away from what a cached secret s has.
LEMMA StillFollows ==
    ASSUME Follows, NEW s \in cache, s.tls, worker' = "list" => worker = "list",
           Coming(s) => Coming(s)', Arrives(s) => Arrives(s)',
           \A a \in Words' : a \in Words \/ ~SameKey(a.obj, s) \/ a.obj = s
    PROVE  /\ Arrives(s)'
           /\ worker' = "list" => Coming(s)'
           /\ \A a \in Words' : SameKey(a.obj, s) /\ a.obj # s => Coming(s)'
BY DEF Follows

\* What is coming or arrives still does when more is said and the files stay.
LEMMA StillComes ==
    ASSUME NEW s, Behind \subseteq Behind', dropped \subseteq dropped'
    PROVE  /\ Coming(s) => Coming(s)'
           /\ UNCHANGED <<folder, unwritten, worker, action>> => (Arrives(s) => Arrives(s)')
<1>1. Coming(s) => Coming(s)'
  BY DEF Coming
<1>2. UNCHANGED <<worker, action>> => Hand' = Hand
  BY DEF Hand
<1> QED
  BY <1>1, <1>2 DEF Arrives

\* A step of the secrets: what changes is said.
LEMMA SecretsFollow ==
    ASSUME OneNamespace, FollowInv,
           \/ \E ns \in Namespaces, n \in SecretNames, tls \in Types : CreateSecret(ns, n, tls)
           \/ \E s \in secrets : \/ UpdateSecret(s) \/ Observe(s)
                                 \/ \E how \in {"delete", "gone"} : DeleteSecret(s, how)
           \/ \E s \in cache : Resync(s)
    PROVE  FollowInv'
<1> USE DEF FollowInv
<1>1. \A s, t \in secrets : SameKey(s, t) => s = t
  BY DEF OrderInv, Versions
<1>2. cache \in SUBSET secrets
  BY Parts DEF OrderInv
\* N: what is new to the cache; X: what is said.
<1>3. ASSUME NEW N, NEW X, OrderInv', Tells, Behind' = Behind \cup X, Words' = Words \cup X,
             \A t \in cache' : t \in cache \/ t \in N,
             \A t \in N : t.tls => \E x \in X : x.op # "delete" /\ x.obj = t,
             \A x \in X, t \in cache' : SameKey(x.obj, t) => x.obj = t,
             ~watching => X = {}
      PROVE  FollowInv'
  <2>1. UNCHANGED <<folder, unwritten, worker, action, dropped, store, watching>>
    BY <1>3 DEF Tells
  <2>2. ASSUME NEW t \in cache', t.tls
        PROVE  /\ Arrives(t)'
               /\ worker' = "list" => Coming(t)'
               /\ \A a \in Words' : SameKey(a.obj, t) /\ a.obj # t => Coming(t)'
    <3>1. CASE t \in N
      <4>1. Coming(t)'
        BY <1>3, <2>2, <3>1 DEF Coming
      <4> QED
        BY <4>1 DEF Arrives
    <3>2. CASE t \in cache
      <4>1. (Coming(t) => Coming(t)') /\ (Arrives(t) => Arrives(t)')
        BY <1>3, <2>1, StillComes
      <4>2. \A a \in Words' : a \in Words \/ ~SameKey(a.obj, t) \/ a.obj = t
        BY <1>3
      <4> QED
        BY <2>1, <2>2, <3>2, <4>1, <4>2, StillFollows
    <3> QED
      BY <1>3, <3>1, <3>2
  <2>3. Unwatched'
    BY <1>3, <2>1 DEF Unwatched
  <2> QED
    BY <1>3, <2>2, <2>3 DEF Follows
<1>4. ASSUME NEW ns \in Namespaces, NEW n \in SecretNames, NEW tls \in Types,
             CreateSecret(ns, n, tls)
      PROVE  FollowInv'
  <2> DEFINE X == {}
             N == {}
  <2>1. OrderInv' /\ Tells /\ Behind' = Behind \cup X /\ Words' = Words \cup X /\ cache' = cache
    BY <1>4, CreateOrder
  <2>2. /\ \A x \in X, t \in cache' : SameKey(x.obj, t) => x.obj = t
        /\ \A t \in N : t.tls => \E x \in X : x.op # "delete" /\ x.obj = t
        /\ ~watching => X = {}
    OBVIOUS
  <2>3. \A t \in cache' : t \in cache \/ t \in N
    BY <2>1
  <2> HIDE DEF X, N, FollowInv
  <2> QED
    BY <1>3, <2>1, <2>2, <2>3
<1>5. ASSUME NEW s \in secrets, UpdateSecret(s)
      PROVE  FollowInv'
  <2> DEFINE new == [s EXCEPT !.rv = secretRev + 1]
             x   == ItemOf(Event("update", new, s))
             X   == IF s \in cache /\ s.tls THEN {x} ELSE {}
             N   == IF s \in cache THEN {new} ELSE {}
  <2>1. /\ OrderInv' /\ Tells
        /\ new.ns = s.ns /\ new.name = s.name /\ new.tls = s.tls
        /\ s \notin cache => cache' = cache /\ Behind' = Behind /\ Words' = Words
        /\ s \in cache => cache' = (cache \ {s}) \cup {new}
        /\ s \in cache /\ ~s.tls => Behind' = Behind /\ Words' = Words
        /\ s \in cache /\ s.tls => /\ Behind' = Behind \cup {x} /\ Words' = Words \cup {x}
                                   /\ x.op = "update" /\ x.obj = new
    BY <1>5, UpdateOrder
  <2> HIDE DEF new, x
  <2>2. Behind' = Behind \cup X /\ Words' = Words \cup X
    BY <2>1
  <2>3. \A t \in cache' : t \in cache \/ t \in N
    BY <2>1
  <2>4. \A t \in N : t.tls => \E y \in X : y.op # "delete" /\ y.obj = t
    BY <2>1
  <2>5. \A y \in X, t \in cache' : SameKey(y.obj, t) => y.obj = t
    <3>1. SUFFICES ASSUME s \in cache, s.tls, NEW t \in cache', SameKey(new, t) PROVE t = new
      BY <2>1
    <3>2. t \in cache /\ t # s => FALSE
      BY <1>1, <1>2, <2>1, <3>1 DEF SameKey
    <3> QED
      BY <2>1, <3>1, <3>2
  <2>6. ~watching => X = {}
    BY DEF OrderInv, Down
  <2>7. OrderInv' /\ Tells
    BY <2>1
  <2> HIDE DEF X, N, FollowInv
  <2> QED
    BY <1>3, <2>2, <2>3, <2>4, <2>5, <2>6, <2>7
<1>6. ASSUME NEW s \in secrets, NEW how \in {"delete", "gone"}, DeleteSecret(s, how)
      PROVE  FollowInv'
  <2> DEFINE x == ItemOf(Event(how, s, s))
             X == IF s \in cache /\ s.tls /\ how = "delete" THEN {x} ELSE {}
             N == {}
  <2>1. /\ OrderInv' /\ Tells
        /\ s \notin cache => cache' = cache /\ Behind' = Behind /\ Words' = Words
        /\ s \in cache => cache' = cache \ {s}
        /\ s \in cache /\ ~(s.tls /\ how = "delete") => Behind' = Behind /\ Words' = Words
        /\ s \in cache /\ s.tls /\ how = "delete" =>
              /\ Behind' = Behind \cup {x} /\ Words' = Words \cup {x}
              /\ x.op = "delete" /\ x.obj = s
    BY <1>6, DeleteOrder
  <2> HIDE DEF x
  <2>2. Behind' = Behind \cup X /\ Words' = Words \cup X
    BY <2>1
  <2>3. \A t \in cache' : t \in cache \/ t \in N
    BY <2>1
  <2>4. \A t \in N : t.tls => \E y \in X : y.op # "delete" /\ y.obj = t
    OBVIOUS
  <2>5. \A y \in X, t \in cache' : SameKey(y.obj, t) => y.obj = t
    BY <1>1, <1>2, <2>1
  <2>6. ~watching => X = {}
    BY DEF OrderInv, Down
  <2>7. OrderInv' /\ Tells
    BY <2>1
  <2> HIDE DEF X, N, FollowInv
  <2> QED
    BY <1>3, <2>2, <2>3, <2>4, <2>5, <2>6, <2>7
<1>7. ASSUME NEW s \in secrets, Observe(s) \/ (s \in cache /\ Resync(s))
      PROVE  FollowInv'
  <2>1. /\ OrderInv' /\ Tells /\ cache' = cache \cup {s}
        /\ ~s.tls => Behind' = Behind /\ Words' = Words
        /\ s.tls => \E x \in SecretActions :
                       /\ Behind' = Behind \cup {x} /\ Words' = Words \cup {x}
                       /\ x.op # "delete" /\ x.obj = s
    BY <1>7, ReplayOrder
  <2> DEFINE N == {s}
  <2>2. \A t \in cache' : t \in cache \/ t \in N
    BY <2>1
  <2>3. watching
    BY <1>7 DEF Observe, OrderInv, Down
  <2>4. CASE ~s.tls
    <3> DEFINE X == {}
    <3>1. Behind' = Behind \cup X /\ Words' = Words \cup X
      BY <2>1, <2>4
    <3>2. /\ \A t \in N : t.tls => \E x \in X : x.op # "delete" /\ x.obj = t
          /\ \A x \in X, t \in cache' : SameKey(x.obj, t) => x.obj = t
      BY <2>4
    <3> HIDE DEF X, N, FollowInv
    <3> QED
      BY <1>3, <2>1, <2>2, <2>3, <3>1, <3>2
  <2>5. CASE s.tls
    <3>1. PICK x : /\ Behind' = Behind \cup {x} /\ Words' = Words \cup {x}
                   /\ x.op # "delete" /\ x.obj = s
      BY <2>1, <2>5
    <3> DEFINE X == {x}
    <3>2. Behind' = Behind \cup X /\ Words' = Words \cup X
      BY <3>1
    <3>3. \A t \in N : t.tls => \E y \in X : y.op # "delete" /\ y.obj = t
      BY <3>1
    <3>4. \A y \in X, t \in cache' : SameKey(y.obj, t) => y.obj = t
      BY <1>1, <1>2, <2>1, <3>1
    <3> HIDE DEF X, N, FollowInv
    <3> QED
      BY <1>3, <2>1, <2>2, <2>3, <3>2, <3>3, <3>4
  <2> QED
    BY <2>4, <2>5
<1> QED
  BY <1>2, <1>4, <1>5, <1>6, <1>7

\* A step of the worker that starts no informer: the store has TLS sections only if it had them,
\* or if the folder could not be made.
LEMMA UnwatchedWorker ==
    ASSUME FollowInv, Handlers \/ ReloadCaddy \/ LoadFails
    PROVE  Unwatched'
<1> USE DEF FollowInv
<1>1. SUFFICES ASSUME ~watching'
               PROVE  Words' = {} /\ (HasManagedTLS(store)' => unwritten' = SecretNames)
  BY DEF Unwatched
<1>2. ~watching
  BY <1>1 DEF Handlers, HandleIngressSet, MkdirFails, StartPluck, HandleIngressDeleted, SyncSecrets,
         HandleSecretSet, WriteFails, HandleSecretDeleted, RemoveFails, ReloadCaddy, LoadFails, informerVars
<1>3. Words = {} /\ (HasManagedTLS(store) => unwritten = SecretNames) /\ worker # "list"
  BY <1>2 DEF Unwatched, OrderInv, Down
<1>4. Words' = {}
  BY <1>3, WorkerOrder
<1>5. ~Holds /\ ~Lists
  BY <1>3 DEF Holds, Lists
<1>6. CASE HandleIngressSet
  <2>1. ~HasManagedTLS(store')
    BY <1>1, <1>6 DEF HandleIngressSet
  <2> QED
    BY <1>4, <2>1
<1>7. CASE MkdirFails
  BY <1>4, <1>7 DEF MkdirFails
<1>8. CASE StartPluck \/ ReloadCaddy \/ LoadFails
  BY <1>3, <1>4, <1>8 DEF StartPluck, ReloadCaddy, LoadFails, diskVars
<1>9. CASE HandleIngressDeleted
  <2>1. store' = PluckIngress(store, action.obj) /\ unwritten' = unwritten
    BY <1>9 DEF HandleIngressDeleted, diskVars
  <2>2. ToSet(store') \in SUBSET ToSet(store)
    BY <2>1, StoreLists, Parts DEF OrderInv
  <2>3. HasManagedTLS(store') => HasManagedTLS(store)
    BY <2>2 DEF HasManagedTLS, ToSet
  <2> QED
    BY <1>3, <1>4, <2>1, <2>3
<1>10. CASE SyncSecrets
  BY <1>3, <1>10 DEF SyncSecrets
<1>11. ASSUME HandleSecretSet \/ WriteFails \/ HandleSecretDeleted \/ RemoveFails PROVE FALSE
  <2>1. worker = "handle" /\ action.kind = "secret"
    BY <1>11 DEF HandleSecretSet, WriteFails, HandleSecretDeleted, RemoveFails, Handling
  <2>2. action \in SecretActions /\ queue.processing = {action}
    BY <2>1, InHand DEF OrderInv, EachOnce
  <2> QED
    BY <1>3, <2>2 DEF Words
<1> QED
  BY <1>6, <1>7, <1>8, <1>9, <1>10, <1>11 DEF Handlers

\* What the worker writes or removes is what was said of the secret, or a newer version comes.
LEMMA WorkerFollows ==
    ASSUME OneNamespace, FollowInv, Handlers \/ ReloadCaddy \/ LoadFails
    PROVE  FollowInv'
<1> USE DEF FollowInv
<1>1. OrderInv' /\ Behind' = Behind /\ Words' \subseteq Words
  BY WorkerOrder
<1>2. cache' = cache
  BY WorkerSteps
<1>3. Hand' = {} /\ (worker' = "list" => cache = {})
  BY WorkerFiles
<1>4. folder \in Folders /\ cache \in SUBSET Secrets /\ cache \in SUBSET secrets
  BY Parts DEF OrderInv
<1>5. SUFFICES ASSUME NEW s \in cache, s.tls
               PROVE  /\ Arrives(s)'
                      /\ \A a \in Words' : SameKey(a.obj, s) /\ a.obj # s => Coming(s)'
  <2>1. Follows'
    BY <1>2, <1>3, <1>5 DEF Follows
  <2> QED
    BY <1>1, <2>1, UnwatchedWorker
<1>6. /\ Arrives(s)
      /\ worker = "list" => Coming(s)
      /\ \A a \in Words : SameKey(a.obj, s) /\ a.obj # s => Coming(s)
  BY <1>5 DEF Follows
<1>7. s.name \in SecretNames /\ s \in Secrets /\ s \in secrets
  BY <1>4, Fields
<1>8. dropped' = dropped => (Coming(s) => Coming(s)')
  BY <1>1 DEF Coming
<1>9. Coming(s)' => Arrives(s)'
  BY DEF Arrives
<1>10. s.name \in unwritten' \/ folder'[s.name] = s => Arrives(s)'
  BY DEF Arrives
<1>11. CASE Leaves
  <2>1. /\ Hand = {} /\ UNCHANGED <<folder, dropped>> /\ unwritten' \in {unwritten, SecretNames}
    BY <1>11 DEF Leaves
  <2>2. Coming(s) => Coming(s)'
    BY <1>8, <2>1
  <2>3. Coming(s) \/ s.name \in unwritten \/ folder[s.name] = s
    BY <1>6, <2>1 DEF Arrives
  <2>4. Arrives(s)'
    BY <1>7, <1>9, <1>10, <2>1, <2>2, <2>3
  <2> QED
    BY <1>1, <1>6, <2>2, <2>4
<1>12. CASE Lists
  <2>1. Coming(s)'
    BY <1>6, <1>8, <1>12 DEF Lists
  <2> QED
    BY <1>9, <2>1
<1>13. ASSUME Holds, action.obj.name = s.name, action.obj # s PROVE Coming(s)
  <2>1. action \in Words /\ action.obj \in Secrets
    BY <1>13, Items DEF Holds
  <2>2. SameKey(action.obj, s)
    BY <1>7, <1>13, <2>1, NameIsKey
  <2> QED
    BY <1>6, <1>13, <2>1, <2>2
<1>14. ASSUME Holds, action.obj.name # s.name
       PROVE  Coming(s) \/ s.name \in unwritten \/ folder[s.name] = s
  BY <1>6, <1>14 DEF Arrives, Holds
<1>15. CASE Writes
  <2>1. /\ Holds /\ folder' = [folder EXCEPT ![action.obj.name] = action.obj]
        /\ unwritten' = unwritten \ {action.obj.name} /\ dropped' = dropped \ {action.obj}
    BY <1>15 DEF Writes
  <2>2. CASE action.obj = s
    <3>1. folder'[s.name] = s
      BY <1>4, <1>7, <2>1, <2>2 DEF Folders
    <3>2. ASSUME NEW a \in Words, SameKey(a.obj, s), a.obj # s PROVE FALSE
      <4>1. a # action /\ queue.processing = {action}
        BY <2>1, <2>2, <3>2 DEF Holds, OrderInv, EachOnce
      <4>2. a \in Behind /\ a \in SecretActions /\ action \in SecretActions
        BY <2>1, <3>2, <4>1, WordTypes DEF Holds, Words, OrderInv
      <4>3. Later(action, a)
        BY <4>1, <4>2 DEF OrderInv, Line, Behind
      <4>4. SameKey(action.obj, a.obj)
        BY <2>2, <3>2 DEF SameKey
      <4>5. s.rv < a.obj.rv
        BY <2>2, <3>2, <4>2, <4>3, <4>4 DEF Later
      <4>6. a.obj.rv < s.rv
        BY <1>7, <3>2 DEF OrderInv, Versions
      <4>7. a.obj.rv \in Nat /\ s.rv \in Nat
        BY <1>7, <4>2, Items, Fields
      <4> QED
        BY <4>5, <4>6, <4>7
    <3> QED
      BY <1>1, <1>10, <3>1, <3>2
  <2>3. CASE action.obj # s
    <3>1. Coming(s) => Coming(s)'
      BY <1>1, <2>1, <2>3 DEF Coming
    <3>2. CASE action.obj.name = s.name
      BY <1>9, <1>13, <2>1, <2>3, <3>1, <3>2
    <3>3. CASE action.obj.name # s.name
      <4>1. folder'[s.name] = folder[s.name] /\ (s.name \in unwritten => s.name \in unwritten')
        BY <1>4, <1>7, <2>1, <3>3 DEF Folders
      <4> QED
        BY <1>1, <1>6, <1>9, <1>10, <1>14, <2>1, <3>1, <3>3, <4>1
    <3> QED
      BY <3>2, <3>3
  <2> QED
    BY <2>2, <2>3
<1>16. CASE Spoils
  <2>1. /\ Holds /\ folder' \in {folder, [folder EXCEPT ![action.obj.name] = Broken]}
        /\ unwritten' = unwritten \cup {action.obj.name} /\ dropped' = dropped
    BY <1>16 DEF Spoils
  <2>2. Coming(s) => Coming(s)'
    BY <1>8, <2>1
  <2>3. action.obj.name # s.name => folder'[s.name] = folder[s.name]
    BY <1>4, <1>7, <2>1 DEF Folders
  <2>4. Arrives(s)'
    BY <1>9, <1>10, <1>14, <2>1, <2>2, <2>3
  <2> QED
    BY <1>1, <1>6, <2>2, <2>4
<1>17. CASE Removes
  <2>1. /\ Holds /\ folder' = [folder EXCEPT ![action.obj.name] = NoFile] /\ action.op = "delete"
        /\ unwritten' = unwritten \ {action.obj.name} /\ dropped' = dropped
    BY <1>17 DEF Removes
  <2>2. Coming(s) => Coming(s)'
    BY <1>8, <2>1
  <2>3. action.obj # s
    BY <1>7, <2>1 DEF Holds, OrderInv, Heard
  <2>4. CASE action.obj.name = s.name
    BY <1>9, <1>13, <2>1, <2>2, <2>3, <2>4
  <2>5. CASE action.obj.name # s.name
    <3>1. folder'[s.name] = folder[s.name] /\ (s.name \in unwritten => s.name \in unwritten')
      BY <1>4, <1>7, <2>1, <2>5 DEF Folders
    <3> QED
      BY <1>1, <1>6, <1>9, <1>10, <1>14, <2>1, <2>2, <2>5, <3>1
  <2> QED
    BY <2>4, <2>5
<1>18. CASE GivesUp
  <2>1. Holds /\ action.op = "delete" /\ UNCHANGED <<folder, unwritten, dropped>>
    BY <1>18 DEF GivesUp
  <2>2. Coming(s) => Coming(s)'
    BY <1>8, <2>1
  <2>3. action.obj # s
    BY <1>7, <2>1 DEF Holds, OrderInv, Heard
  <2>4. CASE action.obj.name = s.name
    BY <1>9, <1>13, <2>1, <2>2, <2>3, <2>4
  <2>5. CASE action.obj.name # s.name
    BY <1>1, <1>6, <1>9, <1>10, <1>14, <2>1, <2>2, <2>5
  <2> QED
    BY <2>4, <2>5
<1> QED
  BY <1>11, <1>12, <1>15, <1>16, <1>17, <1>18, WorkerFiles

\* The worker takes an item: what it brings is in hand, and nothing older is behind it.
LEMMA TakenFollows ==
    ASSUME FollowInv, GetItem
    PROVE  FollowInv'
<1> USE DEF FollowInv
<1>1. /\ OrderInv' /\ Words' = Words /\ Words = Behind' \cup ({action'} \cap SecretActions)
      /\ \A b \in Behind' : Later(action', b)
  BY GetOrder
<1>2. /\ UNCHANGED <<cache, folder, unwritten, dropped, store, watching>>
      /\ worker' = "handle" /\ worker = "idle"
  BY DEF GetItem, clusterVars, informerVars, diskVars
<1>3. Hand' = {action'} \cap SecretActions /\ Hand = {}
  BY <1>2 DEF Hand
<1>4. Behind \subseteq Behind' \cup Hand'
  BY <1>1, <1>3 DEF Words
<1>5. cache \in SUBSET secrets /\ cache \in SUBSET Secrets
  BY Parts DEF OrderInv
<1>6. ASSUME NEW s \in cache, s.tls
      PROVE  /\ Arrives(s)'
             /\ \A a \in Words' : SameKey(a.obj, s) /\ a.obj # s => Coming(s)'
  <2>1. /\ Arrives(s)
        /\ \A a \in Words : SameKey(a.obj, s) /\ a.obj # s => Coming(s)
    BY <1>6 DEF Follows
  <2>2. Coming(s) => Coming(s)' \/ \E a \in Hand' : a.op # "delete" /\ a.obj = s
    BY <1>2, <1>4 DEF Coming
  <2>3. Arrives(s)'
    BY <1>2, <1>3, <2>1, <2>2 DEF Arrives
  <2>4. ASSUME NEW a \in Words', SameKey(a.obj, s), a.obj # s PROVE Coming(s)'
    <3>1. Coming(s)
      BY <1>1, <2>1, <2>4
    <3>2. CASE Coming(s)'
      BY <3>2
    <3>3. ASSUME NEW h \in Hand', h.obj = s PROVE FALSE
      <4>1. h = action' /\ h \in SecretActions
        BY <1>3, <3>3
      <4>2. a # h
        BY <2>4, <3>3
      <4>3. a \in Behind' /\ a \in SecretActions
        BY <1>1, <2>4, <4>1, <4>2, WordTypes DEF OrderInv
      <4>4. Later(h, a)
        BY <1>1, <4>1, <4>3
      <4>5. SameKey(h.obj, a.obj)
        BY <2>4, <3>3 DEF SameKey
      <4>6. s.rv < a.obj.rv
        BY <2>4, <3>3, <4>1, <4>3, <4>4, <4>5 DEF Later
      <4>7. a.obj.rv < s.rv
        BY <1>1, <1>5, <2>4 DEF OrderInv, Versions
      <4>8. a.obj.rv \in Nat /\ s.rv \in Nat
        BY <1>5, <4>3, Items, Fields
      <4> QED
        BY <4>6, <4>7, <4>8
    <3> QED
      BY <2>2, <3>1, <3>2, <3>3
  <2> QED
    BY <2>3, <2>4
<1>7. Follows'
  BY <1>2, <1>6 DEF Follows
<1>8. Unwatched'
  BY <1>1, <1>2 DEF Unwatched
<1> QED
  BY <1>1, <1>7, <1>8

\* Every step lets the folder follow.
LEMMA FollowStep == OneNamespace /\ FollowInv /\ [Next]_vars => FollowInv'
<1> SUFFICES ASSUME OneNamespace, FollowInv, [Next]_vars PROVE FollowInv'
  OBVIOUS
<1>1. OrderInv'
  BY OrderStep DEF FollowInv
<1>2. ASSUME Words' \subseteq Words,
             UNCHANGED <<cache, folder, unwritten, worker, action, store, watching>>,
             dropped \subseteq dropped',
             \A a \in Behind : a \in Behind' \/ (a.op # "delete" /\ a.obj \in dropped')
      PROVE  FollowInv'
  <2>1. Hand' = Hand
    BY <1>2 DEF Hand
  <2>2. \A s : Coming(s) => Coming(s)'
    BY <1>2 DEF Coming
  <2>3. \A s : Arrives(s) => Arrives(s)'
    BY <1>2, <2>1, <2>2 DEF Arrives
  <2>4. Follows'
    BY <1>2, <2>2, <2>3 DEF FollowInv, Follows
  <2>5. Unwatched'
    BY <1>2 DEF FollowInv, Unwatched
  <2> QED
    BY <1>1, <2>4, <2>5 DEF FollowInv
<1>3. CASE UNCHANGED vars
  <2>1. Words' = Words /\ Behind' = Behind
    BY <1>3, UnsaidOrder DEF vars, FollowInv
  <2> QED
    BY <1>2, <1>3, <2>1 DEF vars
<1>4. CASE \/ \E u \in Uids, spec \in IngressSpecs : SetIngress(u, spec)
           \/ \E ing \in ingresses : RemoveIngress(ing)
           \/ \E ing \in ingresses : ResyncIngress(ing)
  <2>1. Words' = Words /\ Behind' = Behind
    BY <1>4, IngressOrder DEF FollowInv
  <2>2. UNCHANGED <<cache, folder, unwritten, worker, action, store, watching, dropped>>
    BY <1>4, TypedIngress DEF FollowInv, OrderInv, informerVars, diskVars
  <2> QED
    BY <1>2, <2>1, <2>2
<1>5. CASE HandleEvent
  <2>1. /\ Words' \subseteq Words /\ dropped \subseteq dropped'
        /\ \A a \in Behind : a \in Behind' \/ (a.op # "delete" /\ a.obj \in dropped')
    BY <1>5, HandledOrder DEF FollowInv
  <2>2. UNCHANGED <<cache, folder, unwritten, worker, action, store, watching>>
    BY <1>5, EventHandled DEF FollowInv, OrderInv
  <2> QED
    BY <1>2, <2>1, <2>2
<1>6. CASE Start \/ Crash
  <2>1. /\ Words' = {} /\ cache' = {} /\ (Start => UNCHANGED <<unwritten, store>>)
        /\ (Crash => store' = <<>>)
    BY <1>6, ProcessOrder DEF FollowInv
  <2>2. Follows'
    BY <2>1 DEF Follows
  <2>3. Unwatched'
    <3>1. CASE Start
      <4>1. ~watching
        BY <3>1 DEF FollowInv, OrderInv, Down, Start
      <4> QED
        BY <2>1, <3>1, <4>1 DEF FollowInv, Unwatched
    <3>2. CASE Crash
      <4>1. DOMAIN store' = {}
        BY <2>1, <3>2
      <4>2. ~HasManagedTLS(store')
        BY <4>1 DEF HasManagedTLS
      <4> QED
        BY <2>1, <4>2 DEF Unwatched
    <3> QED
      BY <1>6, <3>1, <3>2
  <2> QED
    BY <1>1, <2>2, <2>3 DEF FollowInv
<1> QED
  BY <1>3, <1>4, <1>5, <1>6, NextCases, SecretsFollow, TakenFollows, WorkerFollows

\* Nothing is cached and nothing stored in the initial state.
LEMMA FollowInit == Init => FollowInv
<1> SUFFICES ASSUME Init PROVE FollowInv
  OBVIOUS
<1>1. OrderInv /\ Words = {}
  BY OrderInit
<1>2. DOMAIN store = {} /\ cache = {}
  BY DEF Init
<1> QED
  BY <1>1, <1>2 DEF FollowInv, Follows, Unwatched, HasManagedTLS

\* watchTLSSecrets "will sync the CertFolder with TLS secrets", for the secrets of one namespace:
\* once nothing is under way, each TLS secret an ingress of the store names is in its file as it
\* is now, unless the last write of the file failed or its event found no ingress naming it.
THEOREM FolderFollowsSecrets ==
    ASSUME \A a, b \in Namespaces : a = b
    PROVE  Spec => []FolderInSync
<1>1. OneNamespace
  BY DEF OneNamespace
<1>2. FollowInv => FolderInSync
  <2> SUFFICES ASSUME FollowInv, Settled, NEW s \in secrets, s.tls, IsManagedTLSSecret(s, store)
               PROVE  s.name \in unwritten \/ s \in dropped \/ folder[s.name] = s
    BY DEF FolderInSync, InSyncButFor
  <2>1. ToSet(queue.waiting) = {} /\ ToSet(events) = {} /\ Hand = {}
    BY Elements DEF Settled, Hand
  <2>2. Behind = {}
    BY <2>1 DEF Behind, SaidItems
  <2>3. CASE watching
    <3>1. s \in cache
      BY <2>3 DEF Settled
    <3>2. Arrives(s)
      BY <3>1 DEF FollowInv, Follows
    <3> QED
      BY <2>1, <2>2, <3>2 DEF Arrives, Coming
  <2>4. CASE ~watching
    <3>1. HasManagedTLS(store)
      <4>1. PICK i \in DOMAIN store : s.name \in ToSet(store[i].spec.secrets)
        BY DEF IsManagedTLSSecret
      <4>2. store[i].spec.secrets # <<>>
        BY <4>1, Elements
      <4> QED
        BY <4>2 DEF HasManagedTLS
    <3>2. unwritten = SecretNames
      BY <2>4, <3>1 DEF FollowInv, Unwatched
    <3>3. s.name \in SecretNames
      BY Parts, Fields DEF FollowInv, OrderInv
    <3> QED
      BY <3>2, <3>3
  <2> QED
    BY <2>3, <2>4
<1> QED
  BY FollowInit, FollowStep, <1>1, <1>2, PTL DEF Spec
=============================================================================
