-------------------------- MODULE Converter_proofs --------------------------
(***************************************************************************)
(* Proofs about Converter: the order in which the plugins run, that a      *)
(* conversion does not depend on the iteration of the map of plugins, what *)
(* the patterns of a path accept, how the routes are sorted, and from      *)
(* these the properties of every configuration.                            *)
(***************************************************************************)
EXTENDS Converter, FiniteSetTheorems, NaturalsInduction, WellFoundedInduction, TLAPS

\* A set of numbers that is not empty has a least one.
LEMMA LeastNumber ==
    ASSUME NEW M \in SUBSET Nat, M # {}
    PROVE  \E i \in M : \A j \in M : i <= j
<1>1. IsWellFoundedOn(OpToRel(<, Nat), Nat)
    BY NatLessThanWellFounded, Zenon
<1>2. PICK i \in M : \A j \in M : ~ (<<j, i>> \in OpToRel(<, Nat))
    BY <1>1, WFMin, Zenon
<1>3. \A j \in M : ~ (j < i)
    BY <1>2 DEF OpToRel
<1> QED  BY <1>3
-----------------------------------------------------------------------------
(* The order of the plugins.                                               *)

Names == ToSet(Alphabet)

\* The plugins that go before p.
Smaller(o, p) == {q \in Names : lessPlugins(o, q, p)}

\* getOrderIndex returns a number.
LEMMA IndexIsNumber ==
    ASSUME NEW o, DOMAIN o \subseteq Nat, NEW p
    PROVE  getOrderIndex(o, p) \in Int
<1> DEFINE found == {i \in DOMAIN o : o[i] = p}
<1>1. CASE found = {}
    BY <1>1 DEF getOrderIndex
<1>2. CASE found # {}
  <2>1. found \in SUBSET Nat
      OBVIOUS
  <2> HIDE DEF found
  <2>2. PICK m \in found : \A j \in found : m <= j
      BY <1>2, <2>1, LeastNumber
  <2>3. (CHOOSE i \in found : \A j \in found : i <= j) \in found
      BY <2>2
  <2>4. getOrderIndex(o, p) = (CHOOSE i \in found : \A j \in found : i <= j) - 1
      BY <1>2 DEF getOrderIndex, found
  <2> DEFINE least == CHOOSE i \in found : \A j \in found : i <= j
  <2>5. least \in Nat
      BY <2>1, <2>3
  <2> HIDE DEF least
  <2> QED  BY <2>4, <2>5 DEF least
<1> QED  BY <1>1, <1>2

\* What the order of sortPlugins compares; names tell plugins apart.
LEMMA Keys ==
    /\ \A p \in Names : Priority(p) \in Int /\ Rank(p) \in Nat
    /\ \A p, q \in Names : Rank(p) = Rank(q) => p = q
<1>1. ASSUME NEW p \in Names PROVE Rank(p) \in DOMAIN Alphabet /\ Alphabet[Rank(p)] = p
  <2>1. \E i \in DOMAIN Alphabet : Alphabet[i] = p
      BY DEF Names, ToSet
  <2> QED  BY <2>1 DEF Rank
<1>2. DOMAIN Alphabet \subseteq Nat
    BY DEF Alphabet
<1>3. \A p \in Names : Priority(p) \in Int
    BY DEF Priority
<1> QED  BY <1>1, <1>2, <1>3

\* sortPlugins compares by a strict total order.
LEMMA TotalOrder ==
    ASSUME NEW o, DOMAIN o \subseteq Nat
    PROVE  /\ \A p \in Names : ~lessPlugins(o, p, p)
           /\ \A p, q \in Names : p # q => lessPlugins(o, p, q) \/ lessPlugins(o, q, p)
           /\ \A p, q, r \in Names :
                lessPlugins(o, p, q) /\ lessPlugins(o, q, r) => lessPlugins(o, p, r)
<1>1. \A p \in Names : getOrderIndex(o, p) \in Int
    BY IndexIsNumber
<1>2. ASSUME NEW p \in Names PROVE ~lessPlugins(o, p, p)
    BY <1>1, Keys DEF lessPlugins
<1>3. ASSUME NEW p \in Names, NEW q \in Names, p # q
      PROVE  lessPlugins(o, p, q) \/ lessPlugins(o, q, p)
  <2>1. Rank(p) # Rank(q)
      BY <1>3, Keys
  <2> QED  BY <1>1, <2>1, Keys DEF lessPlugins
<1>4. ASSUME NEW p \in Names, NEW q \in Names, NEW r \in Names,
             lessPlugins(o, p, q), lessPlugins(o, q, r)
      PROVE  lessPlugins(o, p, r)
    BY <1>1, <1>4, Keys DEF lessPlugins
<1> QED  BY <1>2, <1>3, <1>4

\* Where sortPlugins puts each plugin.
Placed(o) == {<<Cardinality(Smaller(o, p)) + 1, p>> : p \in Names}

\* As many entries of an iteration go before an entry as there are smaller plugins.
LEMMA SameCount ==
    ASSUME NEW o, DOMAIN o \subseteq Nat, NEW it, IsIteration(it), NEW i \in DOMAIN it
    PROVE  Cardinality({j \in DOMAIN it : lessPlugins(o, it[j], it[i])})
             = Cardinality(Smaller(o, it[i]))
<1> DEFINE B == {j \in DOMAIN it : lessPlugins(o, it[j], it[i])}
           f == [j \in B |-> it[j]]
<1>1. \A j \in DOMAIN it : it[j] \in Names
    BY DEF IsIteration, Names, ToSet
<1>2. \A n \in Names : \E j \in DOMAIN it : it[j] = n
    BY DEF IsIteration, Names, ToSet
<1>3. f \in Bijection(B, Smaller(o, it[i]))
  <2>1. f \in [B -> Smaller(o, it[i])]
      BY <1>1 DEF Smaller
  <2>2. \A j, k \in B : f[j] = f[k] => j = k
      BY DEF IsIteration
  <2>3. \A n \in Smaller(o, it[i]) : \E j \in B : f[j] = n
      BY <1>2 DEF Smaller
  <2> HIDE DEF f, B
  <2> QED  BY <2>1, <2>2, <2>3, Zenon DEF Bijection, Injection, Surjection, IsInjective
<1>4. IsFiniteSet(B)
  <2>1. DOMAIN it = 1 .. 11
      BY DEF IsIteration, Alphabet
  <2>2. ASSUME NEW n \in Nat PROVE IsFiniteSet(1 .. n)
      BY FS_Interval
  <2>3. B \subseteq DOMAIN it
      OBVIOUS
  <2> HIDE DEF B
  <2> QED  BY <2>1, <2>2, <2>3, FS_Subset
<1> HIDE DEF f, B
<1>5. Cardinality(B) = Cardinality(Smaller(o, it[i]))
  <2>1. ExistsBijection(B, Smaller(o, it[i]))
      BY <1>3 DEF ExistsBijection
  <2> QED  BY <1>4, <2>1, FS_Bijection
<1> QED  BY <1>5 DEF B

\* sortPlugins gives each plugin its place whatever the iteration of the map was.
LEMMA PlacesOfPlugins ==
    ASSUME NEW o, DOMAIN o \subseteq Nat, NEW it, IsIteration(it)
    PROVE  Plugins(it, o) = [k \in DOMAIN Alphabet |-> (CHOOSE p \in Placed(o) : p[1] = k)[2]]
<1> DEFINE first(i, j) == IF i < j THEN ~lessPlugins(o, it[j], it[i]) ELSE lessPlugins(o, it[i], it[j])
           placed == {<<Cardinality({j \in DOMAIN it : first(j, i)}) + 1, it[i]>> : i \in DOMAIN it}
<1>0. DOMAIN it = DOMAIN Alphabet /\ DOMAIN it \subseteq Int
    BY DEF IsIteration, Alphabet
<1>1. Plugins(it, o) = [k \in DOMAIN it |-> (CHOOSE p \in placed : p[1] = k)[2]]
    BY DEF Plugins, sortPlugins, StableSort
<1>2. \A j \in DOMAIN it : it[j] \in Names
    BY DEF IsIteration, Names, ToSet
<1>3. \A i, j \in DOMAIN it : first(j, i) <=> lessPlugins(o, it[j], it[i])
  <2> SUFFICES ASSUME NEW i \in DOMAIN it, NEW j \in DOMAIN it
               PROVE  first(j, i) <=> lessPlugins(o, it[j], it[i])
      OBVIOUS
  <2>1. it[i] \in Names /\ it[j] \in Names
      BY <1>2
  <2>2. CASE i = j
    <3>1. ~(j < i)
        BY <1>0, <2>2
    <3> QED  BY <3>1
  <2>3. CASE i # j
    <3>1. it[i] # it[j]
        BY <2>3 DEF IsIteration
    <3>2. lessPlugins(o, it[j], it[i]) <=> ~lessPlugins(o, it[i], it[j])
        BY <2>1, <3>1, TotalOrder
    <3> QED  BY <3>2
  <2> QED  BY <2>2, <2>3
<1>4. \A i \in DOMAIN it : {j \in DOMAIN it : first(j, i)}
                             = {j \in DOMAIN it : lessPlugins(o, it[j], it[i])}
    BY <1>3
<1>5. \A i \in DOMAIN it : Cardinality({j \in DOMAIN it : first(j, i)})
                             = Cardinality(Smaller(o, it[i]))
    BY <1>4, SameCount
<1>6. placed = {<<Cardinality(Smaller(o, it[i])) + 1, it[i]>> : i \in DOMAIN it}
    BY <1>5
<1>7. \A n : n \in Names <=> \E i \in DOMAIN it : it[i] = n
    BY DEF IsIteration, Names, ToSet
<1>8. placed = Placed(o)
    BY <1>6, <1>7 DEF Placed
<1> HIDE DEF placed
<1> QED  BY <1>0, <1>1, <1>8

\* The list of names in the order of "<" is one of the iterations of the map.
LEMMA AlphabetIsIteration == IsIteration(Alphabet)
<1>1. DOMAIN Alphabet = 1 .. 11
    BY DEF Alphabet
<1>2. \A i, j \in 1 .. 11 : Alphabet[i] = Alphabet[j] => i = j
    BY DEF Alphabet
<1> QED  BY <1>1, <1>2 DEF IsIteration

\* The plugins are as many as the places of the list.
LEMMA NumberOfPlugins ==
    /\ IsFiniteSet(Names) /\ Cardinality(Names) \in Nat
    /\ DOMAIN Alphabet = 1 .. Cardinality(Names)
    /\ IsFiniteSet(DOMAIN Alphabet) /\ Cardinality(DOMAIN Alphabet) = Cardinality(Names)
<1>1. DOMAIN Alphabet = 1 .. 11
    BY DEF Alphabet
<1>2. ASSUME NEW n \in Nat PROVE IsFiniteSet(1 .. n) /\ Cardinality(1 .. n) = n
    BY FS_Interval
<1>3. IsFiniteSet(DOMAIN Alphabet) /\ Cardinality(DOMAIN Alphabet) = 11
    BY <1>1, <1>2
<1>4. Alphabet \in [DOMAIN Alphabet -> Names] /\ \A p \in Names : \E i \in DOMAIN Alphabet : Alphabet[i] = p
  <2>1. Alphabet = [i \in DOMAIN Alphabet |-> Alphabet[i]]
      BY DEF Alphabet
  <2>2. \A i \in DOMAIN Alphabet : Alphabet[i] \in Names
      BY DEF Names, ToSet
  <2>3. \A p \in Names : \E i \in DOMAIN Alphabet : Alphabet[i] = p
      BY DEF Names, ToSet
  <2> QED  BY <2>1, <2>2, <2>3
<1>5. \A i, j \in DOMAIN Alphabet : Alphabet[i] = Alphabet[j] => i = j
    BY AlphabetIsIteration DEF IsIteration
<1>6. Alphabet \in Bijection(DOMAIN Alphabet, Names)
    BY <1>4, <1>5, Zenon DEF Bijection, Injection, Surjection, IsInjective
<1>7. ExistsBijection(DOMAIN Alphabet, Names)
    BY <1>6 DEF ExistsBijection
<1>8. IsFiniteSet(Names) /\ Cardinality(Names) = 11
    BY <1>3, <1>7, FS_Bijection
<1> QED  BY <1>1, <1>3, <1>8

\* The number of smaller plugins: below the number of plugins, and greater for greater ones.
LEMMA Ranks ==
    ASSUME NEW o, DOMAIN o \subseteq Nat
    PROVE  /\ \A p \in Names : /\ Cardinality(Smaller(o, p)) \in Nat
                               /\ Cardinality(Smaller(o, p)) < Cardinality(Names)
           /\ \A p, q \in Names :
                lessPlugins(o, p, q) => Cardinality(Smaller(o, p)) < Cardinality(Smaller(o, q))
<1> DEFINE rank(p) == Cardinality(Smaller(o, p))
           n == Cardinality(Names)
<1>1. \A p \in Names : IsFiniteSet(Smaller(o, p)) /\ rank(p) \in Nat /\ rank(p) < n
  <2> SUFFICES ASSUME NEW p \in Names
               PROVE  IsFiniteSet(Smaller(o, p)) /\ rank(p) \in Nat /\ rank(p) < n
      OBVIOUS
  <2>1. Smaller(o, p) \subseteq Names /\ p \notin Smaller(o, p)
      BY TotalOrder DEF Smaller
  <2>2. /\ IsFiniteSet(Smaller(o, p)) /\ rank(p) <= n
        /\ rank(p) = n => Smaller(o, p) = Names
      BY <2>1, NumberOfPlugins, FS_Subset
  <2>3. rank(p) \in Nat /\ n \in Nat
      BY <2>2, NumberOfPlugins, FS_CardinalityType
  <2> HIDE DEF rank, n
  <2> QED  BY <2>1, <2>2, <2>3
<1>2. ASSUME NEW p \in Names, NEW q \in Names, lessPlugins(o, p, q)
      PROVE  rank(p) < rank(q)
  <2>1. Smaller(o, p) \subseteq Smaller(o, q)
      BY <1>2, TotalOrder DEF Smaller
  <2>2. p \in Smaller(o, q) /\ p \notin Smaller(o, p)
      BY <1>2, TotalOrder DEF Smaller
  <2>3. /\ rank(p) <= rank(q)
        /\ rank(p) = rank(q) => Smaller(o, p) = Smaller(o, q)
      BY <1>1, <2>1, FS_Subset
  <2>4. rank(p) \in Nat /\ rank(q) \in Nat
      BY <1>1
  <2> HIDE DEF rank
  <2> QED  BY <2>2, <2>3, <2>4
<1> QED  BY <1>1, <1>2

\* Each place of the list is the one of exactly one plugin.
LEMMA EachPlaceOnce ==
    ASSUME NEW o, DOMAIN o \subseteq Nat, NEW k \in DOMAIN Alphabet
    PROVE  \E p \in Names : Cardinality(Smaller(o, p)) + 1 = k
<1> DEFINE rank(p) == Cardinality(Smaller(o, p))
           n == Cardinality(Names)
           R == [p \in Names |-> rank(p) + 1]
<1>1. \A p \in Names : rank(p) \in Nat /\ rank(p) < n
    BY Ranks
<1>2. n \in Nat /\ DOMAIN Alphabet = 1 .. n
    BY NumberOfPlugins
<1>3. R \in [Names -> DOMAIN Alphabet]
  <2> HIDE DEF rank, n
  <2> QED  BY <1>1, <1>2
<1>4. ASSUME NEW p \in Names, NEW q \in Names, p # q PROVE R[p] # R[q]
  <2>1. rank(p) < rank(q) \/ rank(q) < rank(p)
      BY <1>4, TotalOrder, Ranks
  <2> HIDE DEF rank, n
  <2> QED  BY <1>1, <2>1
<1>5. R \in Injection(Names, DOMAIN Alphabet)
  <2> HIDE DEF R
  <2> QED  BY <1>3, <1>4 DEF Injection, IsInjective
<1>6. R \in Surjection(Names, DOMAIN Alphabet)
  <2> HIDE DEF R
  <2> QED  BY <1>5, NumberOfPlugins, FS_Injection
<1>7. \E p \in Names : R[p] = k
  <2> HIDE DEF R
  <2> QED  BY <1>6, Zenon DEF Surjection
<1> QED  BY <1>7

\* Where the sorted list has which plugin.
LEMMA PluginAtPlace ==
    ASSUME NEW o, DOMAIN o \subseteq Nat, NEW it, IsIteration(it), NEW k \in DOMAIN Alphabet
    PROVE  /\ Plugins(it, o)[k] \in Names
           /\ k = Cardinality(Smaller(o, Plugins(it, o)[k])) + 1
<1> DEFINE c == CHOOSE p \in Placed(o) : p[1] = k
<1>1. \E p \in Placed(o) : p[1] = k
  <2>1. PICK p \in Names : Cardinality(Smaller(o, p)) + 1 = k
      BY EachPlaceOnce
  <2>2. <<Cardinality(Smaller(o, p)) + 1, p>> \in Placed(o)
      BY DEF Placed
  <2>3. <<Cardinality(Smaller(o, p)) + 1, p>>[1] = k
      BY <2>1
  <2> QED  BY <2>2, <2>3
<1>2. c \in Placed(o) /\ c[1] = k
    BY <1>1
<1>3. Plugins(it, o)[k] = c[2]
    BY PlacesOfPlugins
<1> HIDE DEF c
<1>4. PICK p \in Names : c = <<Cardinality(Smaller(o, p)) + 1, p>>
    BY <1>2 DEF Placed
<1>5. c[1] = Cardinality(Smaller(o, p)) + 1 /\ c[2] = p
    BY <1>4
<1> QED  BY <1>2, <1>3, <1>5

\* Whatever the iteration of the map and the value of -plugins-order, sortPlugins returns
\* every plugin once, and a plugin is called before another exactly when it is less.
THEOREM PluginsAreSorted ==
    ASSUME NEW o, DOMAIN o \subseteq Nat, NEW it, IsIteration(it)
    PROVE  /\ IsIteration(Plugins(it, o))
           /\ \A i, j \in DOMAIN Plugins(it, o) :
                 i < j <=> lessPlugins(o, Plugins(it, o)[i], Plugins(it, o)[j])
<1> DEFINE P == Plugins(it, o)
           rank(p) == Cardinality(Smaller(o, p))
<1>1. DOMAIN P = DOMAIN Alphabet
    BY PlacesOfPlugins
<1>2. \A k \in DOMAIN Alphabet : P[k] \in Names /\ k = rank(P[k]) + 1
    BY PluginAtPlace
<1>3. \A p \in Names : rank(p) \in Nat /\ rank(p) + 1 \in DOMAIN Alphabet
  <2>1. \A p \in Names : rank(p) \in Nat /\ rank(p) < Cardinality(Names)
      BY Ranks
  <2> HIDE DEF rank
  <2> QED  BY <2>1, NumberOfPlugins
<1>4. \A p, q \in Names : lessPlugins(o, p, q) => rank(p) < rank(q)
    BY Ranks
<1> HIDE DEF P, rank
<1>5. ASSUME NEW i \in DOMAIN P, NEW j \in DOMAIN P
      PROVE  i < j <=> lessPlugins(o, P[i], P[j])
  <2>1. P[i] \in Names /\ P[j] \in Names /\ i = rank(P[i]) + 1 /\ j = rank(P[j]) + 1
      BY <1>1, <1>2
  <2>2. rank(P[i]) \in Nat /\ rank(P[j]) \in Nat
      BY <2>1, <1>3
  <2>3. i < j <=> rank(P[i]) < rank(P[j])
      BY <2>1, <2>2
  <2>4. CASE P[i] = P[j]
    <3>1. ~lessPlugins(o, P[i], P[j])
        BY <2>1, <2>4, TotalOrder
    <3>2. ~(rank(P[i]) < rank(P[j]))
        BY <2>2, <2>4
    <3> QED  BY <2>3, <3>1, <3>2
  <2>5. CASE P[i] # P[j]
    <3>1. lessPlugins(o, P[i], P[j]) \/ lessPlugins(o, P[j], P[i])
        BY <2>1, <2>5, TotalOrder
    <3>2. lessPlugins(o, P[i], P[j]) => rank(P[i]) < rank(P[j])
        BY <1>4, <2>1
    <3>3. lessPlugins(o, P[j], P[i]) => rank(P[j]) < rank(P[i])
        BY <1>4, <2>1
    <3>4. ~(rank(P[i]) < rank(P[j]) /\ rank(P[j]) < rank(P[i]))
        BY <2>2
    <3> QED  BY <2>3, <3>1, <3>2, <3>3, <3>4
  <2> QED  BY <2>4, <2>5
<1>6. ASSUME NEW i \in DOMAIN P, NEW j \in DOMAIN P, P[i] = P[j] PROVE i = j
    BY <1>1, <1>2, <1>6
<1>7. ASSUME NEW p \in Names PROVE \E k \in DOMAIN P : P[k] = p
  <2>1. rank(p) \in Nat /\ rank(p) + 1 \in DOMAIN P
      BY <1>1, <1>3
  <2>2. PICK k \in DOMAIN P : k = rank(p) + 1
      BY <2>1
  <2>3. P[k] \in Names /\ rank(P[k]) + 1 = rank(p) + 1
      BY <1>1, <1>2, <2>2
  <2>4. rank(P[k]) = rank(p)
      BY <2>1, <2>3, <1>3
  <2>5. P[k] # p => lessPlugins(o, P[k], p) \/ lessPlugins(o, p, P[k])
      BY <2>3, TotalOrder
  <2>6. lessPlugins(o, P[k], p) \/ lessPlugins(o, p, P[k]) => rank(P[k]) < rank(p) \/ rank(p) < rank(P[k])
      BY <1>4, <2>3
  <2> QED  BY <2>1, <2>4, <2>5, <2>6
<1>8. ToSet(P) = ToSet(Alphabet)
    BY <1>1, <1>2, <1>7 DEF ToSet, Names
<1>9. IsIteration(P)
    BY <1>1, <1>6, <1>8 DEF IsIteration
<1> QED  BY <1>5, <1>9 DEF P

\* A value of -plugins-order that names none of the plugins.
NamesNone(o) == DOMAIN o \subseteq Nat /\ \A i \in DOMAIN o : o[i] \notin Names

\* The default value of -plugins-order names none.
LEMMA DefaultNamesNone == NamesNone(DefaultOrder)
<1>1. ASSUME NEW s PROVE DOMAIN <<s>> \subseteq Nat /\ \A i \in DOMAIN <<s>> : <<s>>[i] = s
    OBVIOUS
<1>2. Names = {"configmap", "healthz", "ingress", "ingress.matcher", "ingress.redirect",
               "ingress.reverseproxy", "ingress.rewrite", "ingress_sort", "metrics",
               "secrets_store", "tls"}
  <2>1. DOMAIN Alphabet = {1, 2, 3, 4, 5, 6, 7, 8, 9, 10, 11}
      BY DEF Alphabet
  <2>2. Names = {Alphabet[i] : i \in {1, 2, 3, 4, 5, 6, 7, 8, 9, 10, 11}}
      BY <2>1 DEF Names, ToSet
  <2>3. Names = {Alphabet[1], Alphabet[2], Alphabet[3], Alphabet[4], Alphabet[5], Alphabet[6],
                 Alphabet[7], Alphabet[8], Alphabet[9], Alphabet[10], Alphabet[11]}
      BY <2>2
  <2> QED  BY <2>3 DEF Alphabet
<1>3. "" \notin Names
    BY <1>2, Zenon
<1> QED  BY <1>1, <1>3, Zenon DEF NamesNone, DefaultOrder

\* Without -plugins-order, or if it names no plugin, the routes are sorted after they
\* have been made, and of the plugins that add handlers to a route the redirect is the
\* first and the proxy the last.
THEOREM DefaultOrderOfPlugins ==
    ASSUME NEW o, NamesNone(o), NEW it, IsIteration(it)
    PROVE  LET P == Plugins(it, o)
           IN  \A i, j \in DOMAIN P :
                  \/ P[i] = "ingress" /\ P[j] = "ingress_sort"
                  \/ P[i] = "ingress.redirect" /\ P[j] \in {"ingress.rewrite", "ingress.reverseproxy"}
                  \/ P[i] \in {"ingress.rewrite", "ingress.matcher"} /\ P[j] = "ingress.reverseproxy"
                  => i < j
<1> DEFINE P == Plugins(it, o)
<1>1. DOMAIN o \subseteq Nat
    BY DEF NamesNone
<1>2. ASSUME NEW p \in Names PROVE getOrderIndex(o, p) = -1
    BY DEF getOrderIndex, NamesNone
<1>3. \A p, q \in Names : Priority(p) > Priority(q) => lessPlugins(o, p, q)
    BY <1>2, Keys DEF lessPlugins
<1>4. lessPlugins(o, "ingress.redirect", "ingress.rewrite")
  <2>1. Alphabet[5] = "ingress.redirect" /\ Alphabet[7] = "ingress.rewrite"
        /\ 5 \in DOMAIN Alphabet /\ 7 \in DOMAIN Alphabet
      BY DEF Alphabet
  <2>2. \A i, j \in DOMAIN Alphabet : Alphabet[i] = Alphabet[j] => i = j
      BY AlphabetIsIteration DEF IsIteration
  <2>3. Rank("ingress.redirect") = 5 /\ Rank("ingress.rewrite") = 7
      BY <2>1, <2>2 DEF Rank
  <2>4. "ingress.redirect" \in Names /\ "ingress.rewrite" \in Names
      BY <2>1 DEF Names, ToSet
  <2>5. Priority("ingress.redirect") = Priority("ingress.rewrite")
      BY DEF Priority
  <2> QED  BY <1>2, <2>3, <2>4, <2>5 DEF lessPlugins
<1>5. \A i \in DOMAIN P : P[i] \in Names
  <2>1. IsIteration(P)
      BY <1>1, PluginsAreSorted
  <2> HIDE DEF P
  <2> QED  BY <2>1 DEF IsIteration, Names, ToSet
<1>6. \A i, j \in DOMAIN P : lessPlugins(o, P[i], P[j]) => i < j
    BY <1>1, PluginsAreSorted
<1>7. /\ Priority("ingress") > Priority("ingress_sort")
      /\ Priority("ingress.redirect") > Priority("ingress.reverseproxy")
      /\ Priority("ingress.rewrite") > Priority("ingress.reverseproxy")
      /\ Priority("ingress.matcher") > Priority("ingress.reverseproxy")
    BY DEF Priority
<1> HIDE DEF P
<1>8. ASSUME NEW i \in DOMAIN P, NEW j \in DOMAIN P,
             \/ P[i] = "ingress" /\ P[j] = "ingress_sort"
             \/ P[i] = "ingress.redirect" /\ P[j] \in {"ingress.rewrite", "ingress.reverseproxy"}
             \/ P[i] \in {"ingress.rewrite", "ingress.matcher"} /\ P[j] = "ingress.reverseproxy"
      PROVE  i < j
  <2>1. Priority(P[i]) > Priority(P[j]) \/ lessPlugins(o, P[i], P[j])
      BY <1>4, <1>7, <1>8
  <2> QED  BY <1>3, <1>5, <1>6, <2>1
<1> QED  BY <1>8 DEF P
-----------------------------------------------------------------------------
(* The configuration is a function of the store.                           *)

\* Two iterations of the map give the plugins in the same order.
LEMMA SamePlugins ==
    ASSUME NEW o, DOMAIN o \subseteq Nat, NEW it, IsIteration(it)
    PROVE  Plugins(it, o) = Plugins(Alphabet, o)
BY PlacesOfPlugins, AlphabetIsIteration

\* The configuration is the one of the store, for some iteration of the map.
Converted ==
    /\ order \in Orders
    /\ \E it \in Iterations : config = ConvertToCaddyConfig(it, store)

\* A configuration that was converted is the one that any other conversion gives.
LEMMA ConvertedIsDeterministic == Converted => Deterministic
<1> SUFFICES ASSUME Converted PROVE config = ConvertToCaddyConfig(Alphabet, store)
    BY DEF Deterministic
<1>1. PICK it \in Iterations : config = ConvertToCaddyConfig(it, store)
    BY DEF Converted
<1>2. IsIteration(it) /\ DOMAIN order \subseteq Nat
    BY ConverterAssumption DEF Converted
<1>3. Plugins(it, order) = Plugins(Alphabet, order)
    BY <1>2, SamePlugins
<1> QED  BY <1>1, <1>3 DEF ConvertToCaddyConfig

\* Every step that changes the store converts it again.
LEMMA StepConverts == Converted /\ [Next]_vars => Converted'
<1> SUFFICES ASSUME Converted, [Next]_vars PROVE Converted'
    OBVIOUS
<1>1. ASSUME NEW u \in Uids, NEW body \in Bodies, SetIngress(u, body) PROVE Converted'
    BY <1>1 DEF SetIngress, Converted, ConvertToCaddyConfig
<1>2. ASSUME NEW ing \in ToSet(store), DeleteIngress(ing) PROVE Converted'
    BY <1>2 DEF DeleteIngress, Converted, ConvertToCaddyConfig
<1>3. CASE UNCHANGED vars
    BY <1>3 DEF vars, Converted, ConvertToCaddyConfig
<1> QED  BY <1>1, <1>2, <1>3 DEF Next

\* The configuration does not depend on the order in which Go iterates the map of
\* plugins, whatever the store, the options and -plugins-order: reloadCaddy finds a
\* difference only when something has changed.
THEOREM ConversionIsDeterministic == Spec => []Deterministic
<1>1. Init => Converted
    BY DEF Init, Converted
<1> QED  BY <1>1, StepConverts, ConvertedIsDeterministic, PTL DEF Spec
-----------------------------------------------------------------------------
(* What the patterns of a path accept.                                     *)

\* A sequence is a prefix of one that is no longer only if they are equal.
LEMMA PrefixOfSameLength ==
    ASSUME NEW E, NEW s \in Seq(E), NEW t \in Seq(E)
    PROVE  /\ s = t => IsPrefix(s, t)
           /\ IsPrefix(s, t) /\ Len(t) <= Len(s) => s = t
           /\ IsPrefix(<<>>, t)
<1>1. s = t => IsPrefix(s, t)
    BY DEF IsPrefix
<1>2. ASSUME IsPrefix(s, t), Len(t) <= Len(s) PROVE s = t
  <2>1. Len(s) = Len(t) /\ SubSeq(s, 1, Len(s)) = SubSeq(t, 1, Len(t))
      BY <1>2 DEF IsPrefix
  <2> QED  BY <2>1
<1>3. IsPrefix(<<>>, t)
    BY DEF IsPrefix
<1> QED  BY <1>1, <1>2, <1>3

\* The members of short lists.
LEMMA MembersOfShortLists ==
    ASSUME NEW x, NEW y
    PROVE  /\ ToSet(<<x>>) = {x} /\ <<x>> # <<>>
           /\ ToSet(<<x, y>>) = {x, y} /\ <<x, y>> # <<>>
<1>1. ToSet(<<x>>) = {x} /\ ToSet(<<x, y>>) = {x, y}
    BY DEF ToSet
<1>2. Len(<<x>>) = 1 /\ Len(<<x, y>>) = 2 /\ Len(<<>>) = 0
    OBVIOUS
<1>3. <<x>> # <<>> /\ <<x, y>> # <<>>
    BY <1>2
<1> QED  BY <1>1, <1>3

\* A path in lower case has as many elements.
LEMMA LowerCaseIs ==
    ASSUME NEW elems \in Seq(DOMAIN Width)
    PROVE  /\ LowerCase(elems) \in Seq(DOMAIN Width) /\ Len(LowerCase(elems)) = Len(elems)
           /\ \A k \in 1 .. Len(elems) : LowerCase(elems)[k] = Lower[elems[k]]
           /\ elems = <<>> <=> LowerCase(elems) = <<>>
<1> DEFINE n == Len(elems)
<1>1. n \in Nat /\ DOMAIN elems = 1 .. n /\ \A k \in 1 .. n : elems[k] \in DOMAIN Width
    OBVIOUS
<1>2. \A k \in 1 .. n : Lower[elems[k]] \in DOMAIN Width
    BY <1>1, ConverterAssumption
<1>3. LowerCase(elems) = [k \in 1 .. n |-> Lower[elems[k]]]
    BY <1>1 DEF LowerCase
<1> HIDE DEF n
<1>4. LowerCase(elems) \in Seq(DOMAIN Width) /\ Len(LowerCase(elems)) = n
    BY <1>1, <1>2, <1>3
<1>5. \A k \in 1 .. n : LowerCase(elems)[k] = Lower[elems[k]]
    BY <1>3
<1>6. elems = <<>> <=> n = 0
    BY DEF n
<1>7. LowerCase(elems) = <<>> <=> n = 0
    BY <1>4
<1> QED  BY <1>4, <1>5, <1>6, <1>7 DEF n

\* The patterns that MatchPath makes of the path of a rule accept exactly the requests
\* that Kubernetes says the rule covers, compared by elements for a Prefix, but for the case
\* of the letters, which Caddy ignores; a path of an ingress has no wildcard, and the path of
\* a request begins with a slash.
THEOREM PatternsCoverPaths ==
    ASSUME NEW elems \in Seq(DOMAIN Width), NEW slash \in BOOLEAN, NEW type \in STRING,
           NEW asked \in Seq(DOMAIN Width), NEW ends \in BOOLEAN, asked # <<>> \/ ends
    PROVE  LET path == [elems |-> elems, slash |-> slash, star |-> FALSE]
               q    == [elems |-> asked, slash |-> ends]
               ps   == MatchPath(path, type)
           IN  (ps = <<>> \/ \E p \in ToSet(ps) : PatternMatches(p, q))
                 <=> (path = NoPath \/ MatchesIgnoringCase([path |-> path, type |-> type], q))
<1> DEFINE path == [elems |-> elems, slash |-> slash, star |-> FALSE]
           q    == [elems |-> asked, slash |-> ends]
           ps   == MatchPath(path, type)
           low  == LowerCase(elems)
           low2 == LowerCase(asked)
           some == \E p \in ToSet(ps) : PatternMatches(p, q)
           kube == MatchesIgnoringCase([path |-> path, type |-> type], q)
<1>0. /\ low \in Seq(DOMAIN Width) /\ low2 \in Seq(DOMAIN Width)
      /\ elems = <<>> <=> low = <<>>
      /\ asked = <<>> <=> low2 = <<>>
    BY LowerCaseIs
<1>a. kube <=> IF type = "Prefix" THEN IsPrefix(low, low2) ELSE low = low2 /\ slash = ends
    BY DEF MatchesIgnoringCase, KubernetesMatches
<1>1. CASE path = NoPath
  <2>1. ps = <<>>
      BY <1>1 DEF MatchPath
  <2> QED  BY <1>1, <2>1
<1>2. CASE path # NoPath /\ type # "Prefix"
  <2>1. ps = <<path>>
      BY <1>2 DEF MatchPath
  <2>2. ps # <<>> /\ ToSet(ps) = {path}
    <3> HIDE DEF ps, path
    <3> QED  BY <2>1, MembersOfShortLists
  <2>3. some <=> PatternMatches(path, q)
    <3> HIDE DEF ps, q, path
    <3> QED  BY <2>2, Zenon
  <2>4. PatternMatches(path, q) <=> low = low2 /\ slash = ends
      BY DEF PatternMatches
  <2>5. (ps = <<>> \/ some) <=> (path = NoPath \/ kube)
    <3> HIDE DEF kube, some, ps, path, q, low, low2
    <3> QED  BY <1>2, <1>a, <2>2, <2>3, <2>4
  <2> QED  BY <2>5, Zenon
<1>3. CASE path # NoPath /\ type = "Prefix"
  <2>1. kube <=> IsPrefix(low, low2)
    <3> HIDE DEF kube, low, low2
    <3> QED  BY <1>3, <1>a
  <2>2. PatternMatches(Below(path), q) <=>
            IsPrefix(low, low2) /\ (Len(low2) > Len(low) \/ ends)
      BY DEF PatternMatches, Below
  <2>3. CASE TrimSlash(path) = NoPath
    <3>1. ps = <<Below(path)>>
        BY <1>3, <2>3 DEF MatchPath
    <3>2. low = <<>> /\ (low2 # <<>> \/ ends)
      <4>1. elems = <<>>
          BY <2>3 DEF TrimSlash, NoPath
      <4> HIDE DEF low, low2
      <4> QED  BY <1>0, <4>1
    <3>3. IsPrefix(low, low2) /\ (Len(low2) > Len(low) \/ ends)
      <4> HIDE DEF low, low2
      <4> QED  BY <1>0, <3>2, PrefixOfSameLength
    <3>4. ps # <<>> /\ some
      <4>1. PatternMatches(Below(path), q)
          BY <2>2, <3>3
      <4> HIDE DEF ps, q, path
      <4>2. ps # <<>> /\ ToSet(ps) = {Below(path)}
          BY <3>1, MembersOfShortLists
      <4> QED  BY <4>1, <4>2, Zenon
    <3>5. (ps = <<>> \/ some) <=> (path = NoPath \/ kube)
      <4> HIDE DEF kube, some, ps, path, q, low, low2
      <4> QED  BY <2>1, <3>3, <3>4
    <3> QED  BY <3>5, Zenon
  <2>4. CASE TrimSlash(path) # NoPath
    <3>1. ps = <<TrimSlash(path), Below(path)>>
        BY <1>3, <2>4 DEF MatchPath
    <3>2. ps # <<>> /\ ToSet(ps) = {TrimSlash(path), Below(path)}
      <4> HIDE DEF ps, path
      <4> QED  BY <3>1, MembersOfShortLists
    <3>3. some <=> PatternMatches(TrimSlash(path), q) \/ PatternMatches(Below(path), q)
      <4> HIDE DEF ps, q, path
      <4> QED  BY <3>2, Zenon
    <3>4. PatternMatches(TrimSlash(path), q) <=> low = low2 /\ ~ends
        BY DEF PatternMatches, TrimSlash
    <3>5. (low = low2 /\ ~ends) \/ (IsPrefix(low, low2) /\ (Len(low2) > Len(low) \/ ends))
            <=> IsPrefix(low, low2)
      <4> HIDE DEF low, low2
      <4>1. ~(Len(low2) > Len(low)) => Len(low2) <= Len(low)
          BY <1>0
      <4> QED  BY <1>0, <4>1, PrefixOfSameLength
    <3>6. (ps = <<>> \/ some) <=> (path = NoPath \/ kube)
      <4> HIDE DEF kube, some, ps, path, q, low, low2
      <4> QED  BY <1>3, <2>1, <2>2, <3>2, <3>3, <3>4, <3>5
    <3> QED  BY <3>6, Zenon
  <2> QED  BY <2>3, <2>4
<1> QED  BY <1>1, <1>2, <1>3
-----------------------------------------------------------------------------
(* What sortRoutes makes of the routes.                                    *)

\* A list of routes; the text of a path has a length, and only the empty one has length 0.
RouteList(routes, n) ==
    /\ n \in Nat /\ DOMAIN routes = 1 .. n
    /\ \A i \in 1 .. n : /\ FirstPath(routes[i]).star \in BOOLEAN
                         /\ Length(FirstPath(routes[i])) \in Nat
                         /\ Length(FirstPath(routes[i])) = 0 <=> FirstPath(routes[i]) = NoPath

\* Full paths go before wildcards, and both before routes for every path.
Class(r) == IF FirstPath(r) = NoPath THEN 2 ELSE IF FirstPath(r).star THEN 1 ELSE 0

\* sortRoutes compares by class and, within a class, by the length of the path.
LEMMA ComparesByClass ==
    ASSUME NEW routes, NEW n, RouteList(routes, n), NEW i \in 1 .. n, NEW j \in 1 .. n
    PROVE  lessRoutes(routes[i], routes[j]) <=>
              \/ Class(routes[i]) < Class(routes[j])
              \/ /\ Class(routes[i]) = Class(routes[j])
                 /\ Length(FirstPath(routes[j])) < Length(FirstPath(routes[i]))
<1> DEFINE p == FirstPath(routes[i])
           q == FirstPath(routes[j])
<1>1. /\ p.star \in BOOLEAN /\ Length(p) \in Nat /\ (Length(p) = 0 <=> p = NoPath)
      /\ q.star \in BOOLEAN /\ Length(q) \in Nat /\ (Length(q) = 0 <=> q = NoPath)
    BY DEF RouteList
<1>2. ~NoPath.star
    BY DEF NoPath
<1>3. lessRoutes(routes[i], routes[j]) <=>
         IF p.star = q.star THEN Length(q) < Length(p)
         ELSE IF NoPath \in {p, q} THEN q = NoPath ELSE q.star
    BY DEF lessRoutes
<1>4. /\ Class(routes[i]) = IF p = NoPath THEN 2 ELSE IF p.star THEN 1 ELSE 0
      /\ Class(routes[j]) = IF q = NoPath THEN 2 ELSE IF q.star THEN 1 ELSE 0
    BY DEF Class
<1> HIDE DEF p, q
<1> QED  BY <1>1, <1>2, <1>3, <1>4 DEF p, q

\* The route at i goes before the one at j when the routes are sorted.
Before(routes, i, j) ==
    IF i < j THEN ~lessRoutes(routes[j], routes[i]) ELSE lessRoutes(routes[i], routes[j])

\* What the comment of the plugin wants when r is tried before s: "exact paths then prefix
\* paths and finally empty paths", and of two of a class "the longer first".
GoesBefore(r, s) ==
    /\ Class(r) <= Class(s)
    /\ Class(r) = Class(s) => Length(FirstPath(s)) <= Length(FirstPath(r))

\* The order among the routes is a strict total order of their places.
LEMMA BeforeOrders ==
    ASSUME NEW routes, NEW n, RouteList(routes, n)
    PROVE  /\ \A i \in 1 .. n : ~Before(routes, i, i)
           /\ \A i, j \in 1 .. n : i # j => Before(routes, i, j) \/ Before(routes, j, i)
           /\ \A i, j, k \in 1 .. n :
                 Before(routes, i, j) /\ Before(routes, j, k) => Before(routes, i, k)
           /\ \A i, j \in 1 .. n :
                 Before(routes, i, j) => GoesBefore(routes[i], routes[j])
<1> DEFINE len(i) == Length(FirstPath(routes[i]))
           class(i) == Class(routes[i])
<1>1. n \in Nat /\ \A i \in 1 .. n : len(i) \in Nat /\ class(i) \in 0 .. 2
    BY DEF RouteList, Class
<1>2. \A i, j \in 1 .. n : lessRoutes(routes[i], routes[j]) <=>
                              class(i) < class(j) \/ (class(i) = class(j) /\ len(j) < len(i))
    BY ComparesByClass
<1> HIDE DEF len, class
<1>3. \A i, j \in 1 .. n : Before(routes, i, j) <=>
                              \/ class(i) < class(j)
                              \/ class(i) = class(j) /\ len(j) < len(i)
                              \/ class(i) = class(j) /\ len(j) = len(i) /\ i < j
    BY <1>1, <1>2 DEF Before
<1>4. \A i \in 1 .. n : ~Before(routes, i, i)
    BY <1>1, <1>3
<1>5. \A i, j \in 1 .. n : i # j => Before(routes, i, j) \/ Before(routes, j, i)
    BY <1>1, <1>3
<1>6. ASSUME NEW i \in 1 .. n, NEW j \in 1 .. n, NEW k \in 1 .. n,
             Before(routes, i, j), Before(routes, j, k)
      PROVE  Before(routes, i, k)
    BY <1>1, <1>3, <1>6
<1>7. \A i, j \in 1 .. n : Before(routes, i, j) =>
                              class(i) <= class(j) /\ (class(i) = class(j) => len(j) <= len(i))
    BY <1>1, <1>3
<1>8. \A i, j \in 1 .. n : Before(routes, i, j) => GoesBefore(routes[i], routes[j])
    BY <1>7 DEF GoesBefore, class, len
<1> QED  BY <1>4, <1>5, <1>6, <1>8

\* The routes that go before the one at i.
Ahead(routes, n, i) == {j \in 1 .. n : Before(routes, j, i)}

\* The place of a route after sorting: one of the list, and later for later routes.
LEMMA PlacesOfRoutes ==
    ASSUME NEW routes, NEW n, RouteList(routes, n)
    PROVE  /\ \A i \in 1 .. n : Cardinality(Ahead(routes, n, i)) + 1 \in 1 .. n
           /\ \A i, j \in 1 .. n :
                 Before(routes, i, j) <=>
                    Cardinality(Ahead(routes, n, i)) + 1 < Cardinality(Ahead(routes, n, j)) + 1
<1> DEFINE rank(i) == Cardinality(Ahead(routes, n, i))
<1>1. n \in Nat
    BY DEF RouteList
<1>2. IsFiniteSet(1 .. n) /\ Cardinality(1 .. n) = n
    BY <1>1, FS_Interval
<1>3. ASSUME NEW i \in 1 .. n
      PROVE  IsFiniteSet(Ahead(routes, n, i)) /\ rank(i) \in Nat /\ rank(i) < n
  <2>1. Ahead(routes, n, i) \subseteq 1 .. n /\ i \notin Ahead(routes, n, i)
      BY BeforeOrders DEF Ahead
  <2>2. /\ IsFiniteSet(Ahead(routes, n, i)) /\ rank(i) <= n
        /\ rank(i) = n => Ahead(routes, n, i) = 1 .. n
      BY <1>2, <2>1, FS_Subset
  <2>3. rank(i) \in Nat
      BY <2>2, FS_CardinalityType
  <2>4. rank(i) # n
      BY <2>1, <2>2
  <2> HIDE DEF rank
  <2> QED  BY <1>1, <2>2, <2>3, <2>4
<1>4. ASSUME NEW i \in 1 .. n, NEW j \in 1 .. n, Before(routes, i, j)
      PROVE  rank(i) < rank(j)
  <2>1. Ahead(routes, n, i) \subseteq Ahead(routes, n, j)
      BY <1>4, BeforeOrders DEF Ahead
  <2>2. i \in Ahead(routes, n, j) /\ i \notin Ahead(routes, n, i)
      BY <1>4, BeforeOrders DEF Ahead
  <2>3. /\ rank(i) <= rank(j)
        /\ rank(i) = rank(j) => Ahead(routes, n, i) = Ahead(routes, n, j)
      BY <1>3, <2>1, FS_Subset
  <2>4. rank(i) \in Nat /\ rank(j) \in Nat
      BY <1>3
  <2>5. rank(i) # rank(j)
      BY <2>2, <2>3
  <2> HIDE DEF rank
  <2> QED  BY <2>3, <2>4, <2>5
<1>5. \A i, j \in 1 .. n : i # j => Before(routes, i, j) \/ Before(routes, j, i)
    BY BeforeOrders
<1> HIDE DEF rank
<1>6. \A i \in 1 .. n : rank(i) + 1 \in 1 .. n
    BY <1>1, <1>3
<1>7. ASSUME NEW i \in 1 .. n, NEW j \in 1 .. n, rank(i) < rank(j)
      PROVE  Before(routes, i, j)
  <2>1. rank(i) \in Nat /\ rank(j) \in Nat
      BY <1>3
  <2>2. i # j
      BY <1>7, <2>1
  <2>3. ~Before(routes, j, i)
      BY <1>4, <1>7, <2>1
  <2> QED  BY <1>5, <2>2, <2>3
<1>8. ASSUME NEW i \in 1 .. n, NEW j \in 1 .. n
      PROVE  Before(routes, i, j) <=> rank(i) + 1 < rank(j) + 1
  <2>1. rank(i) \in Nat /\ rank(j) \in Nat
      BY <1>3
  <2>2. rank(i) < rank(j) <=> rank(i) + 1 < rank(j) + 1
      BY <2>1
  <2> QED  BY <1>4, <1>7, <2>2
<1> QED  BY <1>6, <1>8 DEF rank

\* sortRoutes neither loses nor invents a route: the sorted list is a permutation f of the
\* routes, the route of a full path goes before that of a wildcard, that of a longer path
\* before that of a shorter one of its class, a route for every path is last, and routes
\* that tie keep their order.
THEOREM RoutesAreSorted ==
    ASSUME NEW routes, NEW n, RouteList(routes, n)
    PROVE  \E f \in Bijection(1 .. n, 1 .. n) :
              /\ StableSort(routes, lessRoutes) = [k \in 1 .. n |-> routes[f[k]]]
              /\ \A i, j \in 1 .. n : i < j => GoesBefore(routes[f[i]], routes[f[j]])
              /\ \A i, j \in 1 .. n : i < j <=> Before(routes, f[i], f[j])
<1> DEFINE place(i) == Cardinality(Ahead(routes, n, i)) + 1
           R == [i \in 1 .. n |-> place(i)]
           f == [k \in 1 .. n |-> CHOOSE i \in 1 .. n : place(i) = k]
           first(i, j) == IF i < j THEN ~lessRoutes(routes[j], routes[i])
                                   ELSE lessRoutes(routes[i], routes[j])
           placed == {<<Cardinality({j \in 1 .. n : first(j, i)}) + 1, routes[i]>> : i \in 1 .. n}
<1>1. n \in Nat /\ DOMAIN routes = 1 .. n
    BY DEF RouteList
<1>2. StableSort(routes, lessRoutes) = [k \in 1 .. n |-> (CHOOSE p \in placed : p[1] = k)[2]]
    BY <1>1 DEF StableSort
<1>3. placed = {<<place(i), routes[i]>> : i \in 1 .. n}
    BY DEF Ahead, Before
<1>4. /\ \A i \in 1 .. n : place(i) \in 1 .. n
      /\ \A i, j \in 1 .. n : Before(routes, i, j) <=> place(i) < place(j)
    BY PlacesOfRoutes
<1>5. \A i, j \in 1 .. n : i # j => Before(routes, i, j) \/ Before(routes, j, i)
    BY BeforeOrders
<1> HIDE DEF place, placed
<1>6. \A i, j \in 1 .. n : place(i) = place(j) => i = j
    BY <1>1, <1>4, <1>5
<1>7. R \in Injection(1 .. n, 1 .. n)
  <2>1. R \in [1 .. n -> 1 .. n]
      BY <1>4
  <2>2. \A i, j \in 1 .. n : R[i] = R[j] => i = j
      BY <1>6
  <2> HIDE DEF R
  <2> QED  BY <2>1, <2>2 DEF Injection, IsInjective
<1>8. IsFiniteSet(1 .. n)
    BY <1>1, FS_Interval
<1>9. R \in Surjection(1 .. n, 1 .. n)
  <2> HIDE DEF R
  <2> QED  BY <1>7, <1>8, FS_Injection
<1>10. \A k \in 1 .. n : \E i \in 1 .. n : place(i) = k
  <2>1. \A k \in 1 .. n : \E i \in 1 .. n : R[i] = k
    <3> HIDE DEF R
    <3> QED  BY <1>9, Zenon DEF Surjection
  <2> QED  BY <2>1
<1>11. \A k \in 1 .. n : f[k] \in 1 .. n /\ place(f[k]) = k
    BY <1>10
<1>12. f \in [1 .. n -> 1 .. n]
    BY <1>10
<1> HIDE DEF f
<1>13. f \in Bijection(1 .. n, 1 .. n)
  <2>1. \A i, j \in 1 .. n : f[i] = f[j] => i = j
      BY <1>11, Zenon
  <2>2. \A i \in 1 .. n : \E k \in 1 .. n : f[k] = i
    <3>1. \A i \in 1 .. n : f[place(i)] = i
        BY <1>4, <1>6, <1>11, Zenon
    <3> QED  BY <1>4, <3>1, Zenon
  <2> QED  BY <1>12, <2>1, <2>2, Zenon DEF Bijection, Injection, Surjection, IsInjective
<1>14. ASSUME NEW k \in 1 .. n
       PROVE  (CHOOSE p \in placed : p[1] = k)[2] = routes[f[k]]
  <2> DEFINE c == CHOOSE p \in placed : p[1] = k
  <2>1. \E p \in placed : p[1] = k
    <3>1. <<k, routes[f[k]]>> \in placed
        BY <1>3, <1>11
    <3>2. <<k, routes[f[k]]>>[1] = k
        OBVIOUS
    <3> QED  BY <3>1, <3>2
  <2>2. c \in placed /\ c[1] = k
      BY <2>1
  <2> HIDE DEF c
  <2>3. PICK i \in 1 .. n : c = <<place(i), routes[i]>>
      BY <1>3, <2>2
  <2>4. place(i) = k /\ c[2] = routes[i]
      BY <2>2, <2>3
  <2>5. i = f[k]
      BY <1>6, <1>11, <2>4, Zenon
  <2> QED  BY <2>4, <2>5 DEF c
<1>15. StableSort(routes, lessRoutes) = [k \in 1 .. n |-> routes[f[k]]]
    BY <1>2, <1>14
<1>16. \A i, j \in 1 .. n : i < j <=> Before(routes, f[i], f[j])
    BY <1>4, <1>11
<1>17. \A i, j \in 1 .. n : i < j => GoesBefore(routes[f[i]], routes[f[j]])
    BY <1>11, <1>16, BeforeOrders
<1> QED  BY <1>13, <1>15, <1>16, <1>17
-----------------------------------------------------------------------------
(* Recursive functions of a place in a list.  What holds for every place   *)
(* is shown for a set: a set that has 0 and with each place the next one   *)
(* has all of them.                                                        *)

\* Induction over the places up to n.
LEMMA AllPlaces ==
    ASSUME NEW n \in Nat, NEW S, 0 \in S, \A k \in 0 .. n : k \in S /\ k < n => k + 1 \in S
    PROVE  \A k \in 0 .. n : k \in S
<1> DEFINE M == {k \in 0 .. n : k \notin S}
<1> SUFFICES ASSUME M # {} PROVE FALSE
    OBVIOUS
<1>1. M \in SUBSET Nat
    OBVIOUS
<1>2. PICK i \in M : \A j \in M : i <= j
  <2> HIDE DEF M
  <2> QED  BY <1>1, LeastNumber
<1>3. i # 0 /\ i \in 0 .. n /\ i \notin S
    BY <1>2
<1>4. i - 1 \in 0 .. n /\ i - 1 \notin M
    BY <1>2, <1>3
<1> QED  BY <1>3, <1>4

\* f has the lengths of the beginnings of elems.
IsLengths(f, elems, n) ==
    f = [k \in 0 .. n |-> IF k = 0 THEN 0 ELSE f[k - 1] + 1 + Width[elems[k]]]

\* There are such lengths.
LEMMA LengthsExist ==
    ASSUME NEW elems, NEW n \in Nat
    PROVE  \E f : IsLengths(f, elems, n)
<1> DEFINE S == {k \in 0 .. n : \E f : IsLengths(f, elems, k)}
<1>1. 0 \in S
  <2>1. IsLengths([k \in 0 .. 0 |-> 0], elems, 0)
      BY DEF IsLengths
  <2> QED  BY <2>1
<1>2. ASSUME NEW k \in S, k < n PROVE k + 1 \in S
  <2>1. PICK f : IsLengths(f, elems, k)
      BY <1>2
  <2> DEFINE g == [i \in 0 .. k + 1 |-> IF i = 0 THEN 0 ELSE f[i - 1] + 1 + Width[elems[i]]]
  <2>2. g = [i \in 0 .. k + 1 |-> IF i = 0 THEN 0 ELSE f[i - 1] + 1 + Width[elems[i]]]
      OBVIOUS
  <2>3. \A i \in 0 .. k : f[i] = g[i]
      BY <2>1 DEF IsLengths
  <2> HIDE DEF g
  <2>4. \A i \in 1 .. k + 1 : f[i - 1] = g[i - 1]
    <3>1. \A i \in 1 .. k + 1 : i - 1 \in 0 .. k
        OBVIOUS
    <3> QED  BY <2>3, <3>1
  <2>5. \A i \in 0 .. k + 1 : (IF i = 0 THEN 0 ELSE f[i - 1] + 1 + Width[elems[i]])
                                = IF i = 0 THEN 0 ELSE g[i - 1] + 1 + Width[elems[i]]
      BY <2>4
  <2>6. IsLengths(g, elems, k + 1)
      BY <2>2, <2>5, Zenon DEF IsLengths
  <2>7. k + 1 \in 0 .. n
      BY <1>2
  <2> QED  BY <2>6, <2>7
<1> HIDE DEF S
<1>3. n \in S
    BY <1>1, <1>2, AllPlaces
<1> QED  BY <1>3 DEF S

\* The length of a text: nothing for no elements, and at least 2 for each.
LEMMA ElemsLengthIs ==
    ASSUME NEW elems \in Seq(DOMAIN Width)
    PROVE  \E f \in [0 .. Len(elems) -> Nat] :
              /\ f[0] = 0
              /\ \A k \in 1 .. Len(elems) : /\ Width[elems[k]] \in Nat \ {0}
                                            /\ f[k] = f[k - 1] + 1 + Width[elems[k]]
              /\ ElemsLength(elems) = f[Len(elems)]
<1> DEFINE n == Len(elems)
           f == CHOOSE f : f = [k \in 0 .. n |-> IF k = 0 THEN 0 ELSE f[k - 1] + 1 + Width[elems[k]]]
<1>1. n \in Nat
    OBVIOUS
<1>2. f = [k \in 0 .. n |-> IF k = 0 THEN 0 ELSE f[k - 1] + 1 + Width[elems[k]]]
    BY <1>1, LengthsExist DEF IsLengths
<1>3. ElemsLength(elems) = f[n]
    BY DEF ElemsLength
<1>4. \A k \in 1 .. n : Width[elems[k]] \in Nat \ {0}
    BY ConverterAssumption
<1> HIDE DEF f, n
<1>5. f[0] = 0 /\ \A k \in 1 .. n : f[k] = f[k - 1] + 1 + Width[elems[k]]
  <2>1. 0 \in 0 .. n /\ \A k \in 1 .. n : k \in 0 .. n /\ k # 0
      BY <1>1
  <2>2. \A k \in 0 .. n : f[k] = IF k = 0 THEN 0 ELSE f[k - 1] + 1 + Width[elems[k]]
      BY <1>2, Zenon
  <2> QED  BY <2>1, <2>2
<1> DEFINE S == {k \in 0 .. n : f[k] \in Nat}
<1>6. 0 \in S
    BY <1>1, <1>5
<1>7. ASSUME NEW k \in 0 .. n, k \in S, k < n PROVE k + 1 \in S
  <2>1. k + 1 \in 1 .. n
      BY <1>1, <1>7
  <2>2. f[k + 1] = f[k] + 1 + Width[elems[k + 1]]
      BY <1>5, <2>1
  <2>3. f[k] \in Nat /\ Width[elems[k + 1]] \in Nat
      BY <1>4, <1>7, <2>1
  <2> QED  BY <2>1, <2>2, <2>3
<1> HIDE DEF S
<1>8. \A k \in 0 .. n : k \in S
    BY <1>1, <1>6, <1>7, AllPlaces
<1>9. f \in [0 .. n -> Nat]
    BY <1>2, <1>8 DEF S
<1> QED  BY <1>3, <1>4, <1>5, <1>9 DEF n

\* A text that goes on has at least two characters more, also if the case of letters differs.
LEMMA LongerThanPrefix ==
    ASSUME NEW a \in Seq(DOMAIN Width), NEW b \in Seq(DOMAIN Width),
           IsPrefix(LowerCase(a), LowerCase(b)), Len(a) < Len(b)
    PROVE  ElemsLength(a) + 2 <= ElemsLength(b)
<1>1. PICK f \in [0 .. Len(a) -> Nat] :
            /\ f[0] = 0
            /\ \A k \in 1 .. Len(a) : /\ Width[a[k]] \in Nat \ {0}
                                      /\ f[k] = f[k - 1] + 1 + Width[a[k]]
            /\ ElemsLength(a) = f[Len(a)]
    BY ElemsLengthIs
<1>2. PICK g \in [0 .. Len(b) -> Nat] :
            /\ g[0] = 0
            /\ \A k \in 1 .. Len(b) : /\ Width[b[k]] \in Nat \ {0}
                                      /\ g[k] = g[k - 1] + 1 + Width[b[k]]
            /\ ElemsLength(b) = g[Len(b)]
    BY ElemsLengthIs
<1> DEFINE m == Len(a)
           n == Len(b)
<1>3. m \in Nat /\ n \in Nat /\ m < n
    OBVIOUS
<1>4. \A k \in 1 .. m : Width[a[k]] = Width[b[k]]
  <2> DEFINE c == LowerCase(a)
             d == LowerCase(b)
  <2>1. /\ c \in Seq(DOMAIN Width) /\ Len(c) = m /\ \A k \in 1 .. m : c[k] = Lower[a[k]]
        /\ d \in Seq(DOMAIN Width) /\ Len(d) = n /\ \A k \in 1 .. n : d[k] = Lower[b[k]]
      BY LowerCaseIs
  <2>2. \A k \in 1 .. m : k \in 1 .. n /\ a[k] \in DOMAIN Width /\ b[k] \in DOMAIN Width
      BY <1>3
  <2> HIDE DEF c, d, m, n
  <2>3. SubSeq(c, 1, m) = SubSeq(d, 1, m)
      BY <2>1 DEF IsPrefix, c, d
  <2>4. \A k \in 1 .. m : SubSeq(c, 1, m)[k] = c[k] /\ SubSeq(d, 1, m)[k] = d[k]
      BY <1>3, <2>1
  <2>5. \A k \in 1 .. m : Lower[a[k]] = Lower[b[k]]
      BY <2>1, <2>2, <2>3, <2>4
  <2> QED  BY <2>2, <2>5, ConverterAssumption
<1> HIDE DEF m, n
<1> DEFINE S == {k \in 0 .. m : f[k] = g[k]}
<1>5. f[m] = g[m]
  <2>1. 0 \in S
      BY <1>1, <1>2, <1>3
  <2>2. ASSUME NEW k \in 0 .. m, k \in S, k < m PROVE k + 1 \in S
    <3>1. k + 1 \in 1 .. m /\ k + 1 \in 1 .. n /\ (k + 1) - 1 = k
        BY <1>3, <2>2
    <3>2. f[k + 1] = f[k] + 1 + Width[a[k + 1]]
        BY <1>1, <3>1 DEF m
    <3>3. g[k + 1] = g[k] + 1 + Width[b[k + 1]]
        BY <1>2, <3>1 DEF n
    <3> QED  BY <1>4, <2>2, <3>1, <3>2, <3>3
  <2> HIDE DEF S
  <2>3. \A k \in 0 .. m : k \in S
      BY <1>3, <2>1, <2>2, AllPlaces
  <2> QED  BY <1>3, <2>3 DEF S
<1> HIDE DEF S
<1> DEFINE R == {k \in 0 .. n : k > m => g[m] + 2 <= g[k]}
<1>6. g[m] + 2 <= g[n]
  <2>1. 0 \in R
      BY <1>3
  <2>2. ASSUME NEW k \in 0 .. n, k \in R, k < n PROVE k + 1 \in R
    <3>1. k + 1 \in 1 .. n /\ (k + 1) - 1 = k
        BY <1>3, <2>2
    <3>2. g[k + 1] = g[k] + 1 + Width[b[k + 1]] /\ Width[b[k + 1]] \in Nat \ {0}
        BY <1>2, <3>1 DEF n
    <3>3. g[k] \in Nat /\ g[m] \in Nat
      <4>1. k \in 0 .. Len(b) /\ m \in 0 .. Len(b)
          BY <1>3, <2>2 DEF n
      <4> QED  BY <1>2, <4>1
    <3>4. k < m \/ k = m \/ k > m
        BY <1>3
    <3>5. g[k] + 2 <= g[k + 1]
        BY <3>2, <3>3
    <3>6. k > m => g[m] + 2 <= g[k]
        BY <2>2
    <3>7. k + 1 > m => g[m] + 2 <= g[k + 1]
        BY <1>3, <3>2, <3>3, <3>4, <3>5, <3>6
    <3> QED  BY <3>1, <3>7
  <2> HIDE DEF R
  <2>3. \A k \in 0 .. n : k \in R
      BY <1>3, <2>1, <2>2, AllPlaces
  <2> QED  BY <1>3, <2>3 DEF R
<1> QED  BY <1>1, <1>2, <1>5, <1>6 DEF m, n

\* One turn of the loops of IngressPlugin and of ConvertToCaddyConfig.
NextRoute(plugin, r, ing, rule, path) ==
    IF r.result # "ok" THEN r ELSE IngressHandler(plugin, r, ing, rule, path)

NextConfig(plugin, plugins, opts, cfg, ings) ==
    IF cfg.result # "ok" THEN cfg ELSE GlobalHandler(plugin, plugins, opts, cfg, ings)

\* f has the route after each of the first plugins.
IsRoutes(f, plugins, ing, rule, path, n) ==
    f = [k \in 0 .. n |-> IF k = 0 THEN NewRoute ELSE NextRoute(plugins[k], f[k - 1], ing, rule, path)]

\* There is such a function.
LEMMA RoutesExist ==
    ASSUME NEW plugins, NEW ing, NEW rule, NEW path, NEW n \in Nat
    PROVE  \E f : IsRoutes(f, plugins, ing, rule, path, n)
<1> DEFINE S == {k \in 0 .. n : \E f : IsRoutes(f, plugins, ing, rule, path, k)}
<1>1. 0 \in S
  <2>1. IsRoutes([k \in 0 .. 0 |-> NewRoute], plugins, ing, rule, path, 0)
      BY DEF IsRoutes
  <2> QED  BY <2>1
<1>2. ASSUME NEW k \in S, k < n PROVE k + 1 \in S
  <2>1. PICK f : IsRoutes(f, plugins, ing, rule, path, k)
      BY <1>2
  <2> DEFINE g == [i \in 0 .. k + 1 |-> IF i = 0 THEN NewRoute ELSE NextRoute(plugins[i], f[i - 1], ing, rule, path)]
  <2>2. g = [i \in 0 .. k + 1 |-> IF i = 0 THEN NewRoute ELSE NextRoute(plugins[i], f[i - 1], ing, rule, path)]
      OBVIOUS
  <2>3. \A i \in 0 .. k : f[i] = g[i]
      BY <2>1 DEF IsRoutes
  <2> HIDE DEF g
  <2>4. \A i \in 1 .. k + 1 : f[i - 1] = g[i - 1]
    <3>1. \A i \in 1 .. k + 1 : i - 1 \in 0 .. k
        OBVIOUS
    <3> QED  BY <2>3, <3>1
  <2>5. \A i \in 0 .. k + 1 : (IF i = 0 THEN NewRoute ELSE NextRoute(plugins[i], f[i - 1], ing, rule, path))
                                = IF i = 0 THEN NewRoute ELSE NextRoute(plugins[i], g[i - 1], ing, rule, path)
      BY <2>4
  <2>6. IsRoutes(g, plugins, ing, rule, path, k + 1)
      BY <2>2, <2>5, Zenon DEF IsRoutes
  <2>7. k + 1 \in 0 .. n
      BY <1>2
  <2> QED  BY <2>6, <2>7
<1> HIDE DEF S
<1>3. n \in S
    BY <1>1, <1>2, AllPlaces
<1> QED  BY <1>3 DEF S

\* f has the configuration after each of the first plugins.
IsConfigs(f, plugins, opts, ings, n) ==
    f = [k \in 0 .. n |-> IF k = 0 THEN NewConfig ELSE NextConfig(plugins[k], plugins, opts, f[k - 1], ings)]

\* There is such a function.
LEMMA ConfigsExist ==
    ASSUME NEW plugins, NEW opts, NEW ings, NEW n \in Nat
    PROVE  \E f : IsConfigs(f, plugins, opts, ings, n)
<1> DEFINE S == {k \in 0 .. n : \E f : IsConfigs(f, plugins, opts, ings, k)}
<1>1. 0 \in S
  <2>1. IsConfigs([k \in 0 .. 0 |-> NewConfig], plugins, opts, ings, 0)
      BY DEF IsConfigs
  <2> QED  BY <2>1
<1>2. ASSUME NEW k \in S, k < n PROVE k + 1 \in S
  <2>1. PICK f : IsConfigs(f, plugins, opts, ings, k)
      BY <1>2
  <2> DEFINE g == [i \in 0 .. k + 1 |-> IF i = 0 THEN NewConfig ELSE NextConfig(plugins[i], plugins, opts, f[i - 1], ings)]
  <2>2. g = [i \in 0 .. k + 1 |-> IF i = 0 THEN NewConfig ELSE NextConfig(plugins[i], plugins, opts, f[i - 1], ings)]
      OBVIOUS
  <2>3. \A i \in 0 .. k : f[i] = g[i]
      BY <2>1 DEF IsConfigs
  <2> HIDE DEF g
  <2>4. \A i \in 1 .. k + 1 : f[i - 1] = g[i - 1]
    <3>1. \A i \in 1 .. k + 1 : i - 1 \in 0 .. k
        OBVIOUS
    <3> QED  BY <2>3, <3>1
  <2>5. \A i \in 0 .. k + 1 : (IF i = 0 THEN NewConfig ELSE NextConfig(plugins[i], plugins, opts, f[i - 1], ings))
                                = IF i = 0 THEN NewConfig ELSE NextConfig(plugins[i], plugins, opts, g[i - 1], ings)
      BY <2>4
  <2>6. IsConfigs(g, plugins, opts, ings, k + 1)
      BY <2>2, <2>5, Zenon DEF IsConfigs
  <2>7. k + 1 \in 0 .. n
      BY <1>2
  <2> QED  BY <2>6, <2>7
<1> HIDE DEF S
<1>3. n \in S
    BY <1>1, <1>2, AllPlaces
<1> QED  BY <1>3 DEF S

\* The route of a path is what the last of n plugins leaves, each taking what the one
\* before it has left.
LEMMA RouteOfIs ==
    ASSUME NEW plugins, NEW n \in Nat, Len(plugins) = n, NEW ing, NEW rule, NEW path
    PROVE  \E f : /\ f[0] = NewRoute
                  /\ \A k \in 1 .. n : f[k] = NextRoute(plugins[k], f[k - 1], ing, rule, path)
                  /\ RouteOf(plugins, ing, rule, path) = f[n]
<1> DEFINE f == CHOOSE f : f = [k \in 0 .. n |-> IF k = 0 THEN NewRoute
                                                 ELSE NextRoute(plugins[k], f[k - 1], ing, rule, path)]
<1>1. f = [k \in 0 .. n |-> IF k = 0 THEN NewRoute
                            ELSE NextRoute(plugins[k], f[k - 1], ing, rule, path)]
    BY RoutesExist DEF IsRoutes
<1>2. RouteOf(plugins, ing, rule, path) = f[n]
    BY DEF RouteOf, NextRoute
<1> HIDE DEF f
<1>3. f[0] = NewRoute
    BY <1>1
<1>4. \A k \in 1 .. n : f[k] = NextRoute(plugins[k], f[k - 1], ing, rule, path)
    BY <1>1
<1> QED  BY <1>2, <1>3, <1>4

\* f has the configuration after each of n plugins, each taking what the one before it
\* has left.
IsRun(f, plugins, opts, ings, n) ==
    /\ f[0] = NewConfig
    /\ \A k \in 1 .. n : f[k] = NextConfig(plugins[k], plugins, opts, f[k - 1], ings)

\* The configuration is what the last of n plugins leaves.
LEMMA RunPluginsIs ==
    ASSUME NEW plugins, NEW n \in Nat, Len(plugins) = n, NEW opts, NEW ings
    PROVE  \E f : IsRun(f, plugins, opts, ings, n) /\ RunPlugins(plugins, opts, ings) = f[n]
<1> DEFINE f == CHOOSE f : f = [k \in 0 .. n |-> IF k = 0 THEN NewConfig
                                                 ELSE NextConfig(plugins[k], plugins, opts, f[k - 1], ings)]
<1>1. f = [k \in 0 .. n |-> IF k = 0 THEN NewConfig
                            ELSE NextConfig(plugins[k], plugins, opts, f[k - 1], ings)]
    BY ConfigsExist DEF IsConfigs
<1>2. RunPlugins(plugins, opts, ings) = f[n]
    BY DEF RunPlugins, NextConfig
<1> HIDE DEF f
<1>3. f[0] = NewConfig
    BY <1>1
<1>4. \A k \in 1 .. n : f[k] = NextConfig(plugins[k], plugins, opts, f[k - 1], ings)
    BY <1>1
<1> QED  BY <1>2, <1>3, <1>4 DEF IsRun

\* The members of two lists in a row are those of either.
LEMMA MembersOfBoth ==
    ASSUME NEW T, NEW a \in Seq(T), NEW b \in Seq(T)
    PROVE  /\ a \o b \in Seq(T)
           /\ \A x : x \in ToSet(a \o b) <=> x \in ToSet(a) \/ x \in ToSet(b)
<1> DEFINE c == a \o b
<1>1. c \in Seq(T) /\ Len(c) = Len(a) + Len(b) /\ Len(a) \in Nat /\ Len(b) \in Nat
    OBVIOUS
<1>2. /\ \A i \in 1 .. Len(a) : c[i] = a[i]
      /\ \A i \in 1 .. Len(b) : c[Len(a) + i] = b[i]
    OBVIOUS
<1>3. DOMAIN a = 1 .. Len(a) /\ DOMAIN b = 1 .. Len(b) /\ DOMAIN c = 1 .. Len(c)
    BY <1>1
<1> HIDE DEF c
<1>4. ASSUME NEW x \in ToSet(c) PROVE x \in ToSet(a) \/ x \in ToSet(b)
  <2>1. PICK i \in DOMAIN c : c[i] = x
      BY <1>4 DEF ToSet
  <2>2. i \in 1 .. Len(a) \/ (i - Len(a) \in 1 .. Len(b) /\ Len(a) + (i - Len(a)) = i)
      BY <1>1, <1>3
  <2> QED  BY <1>2, <1>3, <2>1, <2>2 DEF ToSet
<1>5. ASSUME NEW x \in ToSet(a) PROVE x \in ToSet(c)
  <2>1. PICK i \in DOMAIN a : a[i] = x
      BY <1>5 DEF ToSet
  <2>2. i \in DOMAIN c /\ c[i] = x
      BY <1>1, <1>2, <1>3, <2>1
  <2> QED  BY <2>2 DEF ToSet
<1>6. ASSUME NEW x \in ToSet(b) PROVE x \in ToSet(c)
  <2>1. PICK i \in DOMAIN b : b[i] = x
      BY <1>6 DEF ToSet
  <2>2. Len(a) + i \in DOMAIN c /\ c[Len(a) + i] = x
      BY <1>1, <1>2, <1>3, <2>1
  <2> QED  BY <2>2 DEF ToSet
<1> QED  BY <1>1, <1>4, <1>5, <1>6 DEF c

\* f has the first lists of ss in a row.
IsRow(f, ss, n) == f = [k \in 1 .. n |-> IF k = 1 THEN ss[k] ELSE f[k - 1] \o ss[k]]

\* There is such a function.
LEMMA RowsExist ==
    ASSUME NEW ss, NEW n \in Nat
    PROVE  \E f : IsRow(f, ss, n)
<1> DEFINE S == {k \in 0 .. n : \E f : IsRow(f, ss, k)}
<1>1. 0 \in S
  <2>1. IsRow([k \in 1 .. 0 |-> ss[1]], ss, 0)
      BY DEF IsRow
  <2> QED  BY <2>1
<1>2. ASSUME NEW k \in S, k < n PROVE k + 1 \in S
  <2>1. PICK f : IsRow(f, ss, k)
      BY <1>2
  <2> DEFINE g == [i \in 1 .. k + 1 |-> IF i = 1 THEN ss[i] ELSE f[i - 1] \o ss[i]]
  <2>2. g = [i \in 1 .. k + 1 |-> IF i = 1 THEN ss[i] ELSE f[i - 1] \o ss[i]]
      OBVIOUS
  <2> HIDE DEF g
  <2>3. \A i \in 1 .. k : f[i] = g[i]
    <3>1. \A i \in 1 .. k : i \in 1 .. k + 1
        OBVIOUS
    <3>2. \A i \in 1 .. k : f[i] = IF i = 1 THEN ss[i] ELSE f[i - 1] \o ss[i]
        BY <2>1, Zenon DEF IsRow
    <3>3. \A i \in 1 .. k + 1 : g[i] = IF i = 1 THEN ss[i] ELSE f[i - 1] \o ss[i]
        BY <2>2, Zenon
    <3> QED  BY <3>1, <3>2, <3>3, Zenon
  <2>4. \A i \in 2 .. k + 1 : f[i - 1] = g[i - 1]
    <3>1. \A i \in 2 .. k + 1 : i - 1 \in 1 .. k
        OBVIOUS
    <3> QED  BY <2>3, <3>1
  <2>5. \A i \in 1 .. k + 1 : (IF i = 1 THEN ss[i] ELSE f[i - 1] \o ss[i])
                                = IF i = 1 THEN ss[i] ELSE g[i - 1] \o ss[i]
    <3>1. \A i \in 1 .. k + 1 : i # 1 => i \in 2 .. k + 1
        OBVIOUS
    <3> QED  BY <2>4, <3>1
  <2>6. IsRow(g, ss, k + 1)
      BY <2>2, <2>5, Zenon DEF IsRow
  <2>7. k + 1 \in 0 .. n
      BY <1>2
  <2> QED  BY <2>6, <2>7
<1> HIDE DEF S
<1>3. n \in S
    BY <1>1, <1>2, AllPlaces
<1> QED  BY <1>3 DEF S

\* Lists in a row have the members of all of them.
LEMMA MembersOfAll ==
    ASSUME NEW T, NEW ss \in Seq(Seq(T))
    PROVE  /\ FlattenSeq(ss) \in Seq(T)
           /\ \A x : x \in ToSet(FlattenSeq(ss)) <=> \E i \in DOMAIN ss : x \in ToSet(ss[i])
<1> DEFINE n == Len(ss)
           f == CHOOSE f : f = [k \in 1 .. n |-> IF k = 1 THEN ss[k] ELSE f[k - 1] \o ss[k]]
<1>1. n \in Nat /\ DOMAIN ss = 1 .. n /\ \A k \in 1 .. n : ss[k] \in Seq(T)
    OBVIOUS
<1>2. CASE n = 0
  <2>1. FlattenSeq(ss) = ss
      BY <1>2 DEF FlattenSeq
  <2>2. DOMAIN ss = {} /\ ss = <<>>
      BY <1>1, <1>2
  <2> QED  BY <2>1, <2>2 DEF ToSet
<1>3. CASE n # 0
  <2>1. f = [k \in 1 .. n |-> IF k = 1 THEN ss[k] ELSE f[k - 1] \o ss[k]]
      BY <1>1, RowsExist DEF IsRow
  <2>2. FlattenSeq(ss) = f[n]
      BY <1>3 DEF FlattenSeq
  <2> HIDE DEF f, n
  <2> DEFINE S == {k \in 0 .. n : k # 0 =>
                     /\ f[k] \in Seq(T)
                     /\ \A x : x \in ToSet(f[k]) <=> \E i \in 1 .. k : x \in ToSet(ss[i])}
  <2>3. 0 \in S
      BY <1>1
  <2>4. ASSUME NEW k \in 0 .. n, k \in S, k < n PROVE k + 1 \in S
    <3>1. k + 1 \in 1 .. n /\ (k + 1) - 1 = k
        BY <1>1, <2>4
    <3>2. CASE k = 0
      <4>1. f[k + 1] = ss[1] /\ ss[1] \in Seq(T)
          BY <1>1, <2>1, <3>1, <3>2
      <4>2. \A i \in 1 .. k + 1 : i = 1
          BY <3>2
      <4> QED  BY <3>1, <3>2, <4>1, <4>2
    <3>3. CASE k # 0
      <4>1. k + 1 # 1
          BY <3>3, <2>4
      <4>2. f[k + 1] = f[k] \o ss[k + 1]
          BY <2>1, <3>1, <4>1
      <4>3. /\ f[k] \in Seq(T)
            /\ \A x : x \in ToSet(f[k]) <=> \E i \in 1 .. k : x \in ToSet(ss[i])
          BY <2>4, <3>3
      <4>4. ss[k + 1] \in Seq(T)
          BY <1>1, <3>1
      <4>5. /\ f[k + 1] \in Seq(T)
            /\ \A x : x \in ToSet(f[k + 1]) <=> x \in ToSet(f[k]) \/ x \in ToSet(ss[k + 1])
          BY <4>2, <4>3, <4>4, MembersOfBoth
      <4>6. \A i : i \in 1 .. k + 1 <=> i \in 1 .. k \/ i = k + 1
          BY <2>4
      <4>7. \A x : x \in ToSet(f[k + 1]) <=> \E i \in 1 .. k + 1 : x \in ToSet(ss[i])
          BY <4>3, <4>5, <4>6, Zenon
      <4> QED  BY <3>1, <4>5, <4>7
    <3> QED  BY <3>2, <3>3
  <2> HIDE DEF S
  <2>5. \A k \in 0 .. n : k \in S
      BY <1>1, <2>3, <2>4, AllPlaces
  <2>6. n \in 0 .. n
      BY <1>1
  <2> QED  BY <1>1, <1>3, <2>2, <2>5, <2>6 DEF S
<1> QED  BY <1>2, <1>3

-----------------------------------------------------------------------------
(* The route of a path.                                                    *)

\* The handlers that the plugins can give the route of a path.
RewriteHandler(ann) == [do |-> "rewrite", to |-> ann.rewriteTo]
StripHandler(ann) == [do |-> "strip", to |-> ann.stripPrefix]
PermanentHandler(ann) ==
    [do |-> "redirect", to |-> ann.permanent,
     code |-> IF ann.code = <<>> THEN 301 ELSE ann.code[1]]
TemporalHandler(ann) == [do |-> "redirect", to |-> ann.temporal, code |-> 302]
ProxyHandler(ann, path) ==
    [do |-> "proxy", to |-> path.backend,
     tls |-> IF ann.backendProtocol # "https" THEN "off"
             ELSE IF ann.insecureSkipVerify \in {"", "true"} THEN "unverified" ELSE "verified",
     trusted |-> ann.trustedProxies]

RouteHandlers(ann, path) ==
    {RewriteHandler(ann), StripHandler(ann), PermanentHandler(ann), TemporalHandler(ann),
     ProxyHandler(ann, path)}

\* What a plugin may add to a route.
Adds(plugin, hs, ann, path) ==
    /\ hs \in Seq(RouteHandlers(ann, path))
    /\ plugin \notin {"ingress.redirect", "ingress.rewrite", "ingress.reverseproxy"} => hs = <<>>
    /\ plugin = "ingress.redirect" => Len(hs) <= 1
    /\ plugin # "ingress.redirect" => \A i \in DOMAIN hs : hs[i].do # "redirect"
    /\ plugin = "ingress.reverseproxy" => hs = <<ProxyHandler(ann, path)>>

IsRoute(r) == /\ "result" \in DOMAIN r /\ "match" \in DOMAIN r /\ "handlers" \in DOMAIN r
              /\ r.result = "ok"

\* Handlers are told apart by what they do.
LEMMA HandlersDo ==
    ASSUME NEW ann, NEW path
    PROVE  /\ RewriteHandler(ann).do = "rewrite" /\ StripHandler(ann).do = "strip"
           /\ PermanentHandler(ann).do = "redirect" /\ TemporalHandler(ann).do = "redirect"
           /\ ProxyHandler(ann, path).do = "proxy" /\ ProxyHandler(ann, path).to = path.backend
BY DEF RewriteHandler, StripHandler, PermanentHandler, TemporalHandler, ProxyHandler

\* r2 is the route r with the handlers hs.
Extended(r2, r, hs) ==
    IsRoute(r2) /\ r2.match = r.match /\ r2.handlers = r.handlers \o hs

\* WithHandlers adds handlers and nothing else.
LEMMA WithHandlersIs ==
    ASSUME NEW r, IsRoute(r), NEW hs
    PROVE  Extended(WithHandlers(r, hs), r, hs)
BY DEF IsRoute, WithHandlers, Extended

\* A list of at most one handler.
LEMMA AtMostOne ==
    ASSUME NEW H, NEW h \in H
    PROVE  /\ <<>> \in Seq(H) /\ DOMAIN <<>> = {}
           /\ <<h>> \in Seq(H) /\ Len(<<h>>) = 1 /\ \A i \in DOMAIN <<h>> : <<h>>[i] = h
<1>1. <<>> \in Seq(H) /\ DOMAIN <<>> = {}
    OBVIOUS
<1>2. <<h>> \in Seq(H) /\ Len(<<h>>) = 1 /\ \A i \in DOMAIN <<h>> : <<h>>[i] = h
    OBVIOUS
<1> QED  BY <1>1, <1>2

\* What ingress.rewrite adds.
LEMMA RewriteAdds ==
    ASSUME NEW r, IsRoute(r), NEW ann, NEW path
    PROVE  \E hs : Extended(Rewrite(r, ann), r, hs) /\ Adds("ingress.rewrite", hs, ann, path)
<1> DEFINE H == RouteHandlers(ann, path)
           a == If(ann.rewriteTo # "", RewriteHandler(ann))
           b == If(ann.stripPrefix # "", StripHandler(ann))
<1>1. Rewrite(r, ann) = WithHandlers(r, a \o b)
    BY DEF Rewrite, RewriteHandler, StripHandler
<1>2. a \in Seq(H) /\ \A i \in DOMAIN a : a[i].do # "redirect"
  <2>1. a = <<>> \/ a = <<RewriteHandler(ann)>>
      BY Zenon DEF If
  <2>2. RewriteHandler(ann) \in H /\ RewriteHandler(ann).do # "redirect"
      BY HandlersDo DEF RouteHandlers
  <2> HIDE DEF a, H
  <2> QED  BY <2>1, <2>2, AtMostOne, Zenon
<1>3. b \in Seq(H) /\ \A i \in DOMAIN b : b[i].do # "redirect"
  <2>1. b = <<>> \/ b = <<StripHandler(ann)>>
      BY Zenon DEF If
  <2>2. StripHandler(ann) \in H /\ StripHandler(ann).do # "redirect"
      BY HandlersDo DEF RouteHandlers
  <2> HIDE DEF b, H
  <2> QED  BY <2>1, <2>2, AtMostOne, Zenon
<1> HIDE DEF a, b, H
<1>4. a \o b \in Seq(H) /\ \A x : x \in ToSet(a \o b) <=> x \in ToSet(a) \/ x \in ToSet(b)
    BY <1>2, <1>3, MembersOfBoth
<1> DEFINE c == a \o b
<1>5. \A i \in DOMAIN c : c[i].do # "redirect"
  <2>1. \A x \in ToSet(a) : x.do # "redirect"
      BY <1>2 DEF ToSet
  <2>2. \A x \in ToSet(b) : x.do # "redirect"
      BY <1>3 DEF ToSet
  <2> HIDE DEF c
  <2>3. \A i \in DOMAIN c : c[i] \in ToSet(c)
      BY DEF ToSet
  <2> QED  BY <1>4, <2>1, <2>2, <2>3 DEF c
<1>6. Adds("ingress.rewrite", c, ann, path)
  <2> HIDE DEF c
  <2> QED  BY <1>4, <1>5 DEF Adds, H, c
<1>7. Extended(Rewrite(r, ann), r, c)
  <2>1. Rewrite(r, ann) = WithHandlers(r, c)
      BY <1>1
  <2> HIDE DEF c
  <2> QED  BY <2>1, WithHandlersIs
<1> QED  BY <1>6, <1>7

\* What ingress.redirect adds, if it does not refuse.
LEMMA RedirectAdds ==
    ASSUME NEW ann, NEW path, NEW r, IsRoute(r), r.handlers \in Seq(RouteHandlers(ann, path)),
           Redirect(r, ann).result = "ok"
    PROVE  \E hs : Extended(Redirect(r, ann), r, hs) /\ Adds("ingress.redirect", hs, ann, path)
<1>1. CASE RedirectRefuses(ann)
  <2>1. Redirect(r, ann) = Refused
      BY <1>1, Zenon DEF Redirect, RedirectRefuses
  <2> QED  BY <2>1 DEF Refused
<1>2. \A h \in RouteHandlers(ann, path) : Adds("ingress.redirect", <<h>>, ann, path)
    BY AtMostOne DEF Adds
<1>3. PermanentHandler(ann) \in RouteHandlers(ann, path) /\ TemporalHandler(ann) \in RouteHandlers(ann, path)
    BY DEF RouteHandlers
<1>4. CASE ~RedirectRefuses(ann) /\ ann.permanent # ""
  <2>1. Redirect(r, ann) = WithHandlers(r, <<PermanentHandler(ann)>>)
      BY <1>4, Zenon DEF Redirect, RedirectRefuses, PermanentHandler
  <2> QED  BY <1>2, <1>3, <2>1, WithHandlersIs, Zenon
<1>5. CASE ~RedirectRefuses(ann) /\ ann.permanent = "" /\ ann.temporal # ""
  <2>1. Redirect(r, ann) = WithHandlers(r, <<TemporalHandler(ann)>>)
      BY <1>5, Zenon DEF Redirect, TemporalHandler
  <2> QED  BY <1>2, <1>3, <2>1, WithHandlersIs, Zenon
<1>6. CASE ~RedirectRefuses(ann) /\ ann.permanent = "" /\ ann.temporal = ""
  <2>1. Redirect(r, ann) = r
      BY <1>6, Zenon DEF Redirect
  <2>2. r.handlers = r.handlers \o <<>>
      OBVIOUS
  <2>3. Adds("ingress.redirect", <<>>, ann, path)
      BY DEF Adds
  <2>4. Extended(r, r, <<>>)
      BY <2>2 DEF Extended
  <2> QED  BY <2>1, <2>3, <2>4, Zenon
<1> QED  BY <1>1, <1>4, <1>5, <1>6, Zenon

\* What ingress.reverseproxy adds, if it neither refuses nor panics.
LEMMA ReverseProxyAdds ==
    ASSUME NEW ann, NEW path, NEW r, IsRoute(r), ReverseProxy(r, ann, path).result = "ok"
    PROVE  \E hs : Extended(ReverseProxy(r, ann, path), r, hs) /\ Adds("ingress.reverseproxy", hs, ann, path)
<1>1. CASE path.backend = Resource
  <2>1. ReverseProxy(r, ann, path) = Panicked
      BY <1>1, Zenon DEF ReverseProxy
  <2> QED  BY <2>1 DEF Panicked
<1>2. CASE path.backend # Resource /\ ann.trustedProxies = "invalid"
  <2>1. ReverseProxy(r, ann, path) = Refused
      BY <1>2, Zenon DEF ReverseProxy
  <2> QED  BY <2>1 DEF Refused
<1>3. CASE path.backend # Resource /\ ann.trustedProxies # "invalid"
  <2>1. ReverseProxy(r, ann, path) = WithHandlers(r, <<ProxyHandler(ann, path)>>)
      BY <1>3, Zenon DEF ReverseProxy, ProxyHandler
  <2>2. ProxyHandler(ann, path) \in RouteHandlers(ann, path)
      BY DEF RouteHandlers
  <2>3. ProxyHandler(ann, path).do # "redirect"
      BY HandlersDo
  <2>4. Adds("ingress.reverseproxy", <<ProxyHandler(ann, path)>>, ann, path)
      BY <2>2, <2>3, AtMostOne DEF Adds
  <2> QED  BY <2>1, <2>4, WithHandlersIs, Zenon
<1> QED  BY <1>1, <1>2, <1>3

\* The matcher that ingress.matcher adds.
Matched(plugin, r, ing, rule, path) ==
    IF plugin = "ingress.matcher" THEN Append(r.match, Matcher(ing, rule, path)) ELSE r.match

\* What a plugin makes of a route, if it returns one.
LEMMA HandlerAdds ==
    ASSUME NEW plugin, NEW ing, NEW rule, NEW path, NEW r, IsRoute(r),
           r.handlers \in Seq(RouteHandlers(ing.ann, path)),
           IngressHandler(plugin, r, ing, rule, path).result = "ok"
    PROVE  LET r2 == IngressHandler(plugin, r, ing, rule, path)
           IN  /\ IsRoute(r2) /\ r2.match = Matched(plugin, r, ing, rule, path)
               /\ \E hs : r2.handlers = r.handlers \o hs /\ Adds(plugin, hs, ing.ann, path)
<1> DEFINE r2 == IngressHandler(plugin, r, ing, rule, path)
<1>1. CASE plugin = "ingress.matcher"
  <2>1. r2 = [r EXCEPT !.match = Append(@, Matcher(ing, rule, path))]
      BY <1>1, Zenon DEF IngressHandler
  <2> HIDE DEF r2
  <2>2. IsRoute(r2) /\ r2.match = Append(r.match, Matcher(ing, rule, path)) /\ r2.handlers = r.handlers
      BY <2>1 DEF IsRoute
  <2>3. r.handlers \o <<>> = r.handlers
      OBVIOUS
  <2>4. Adds(plugin, <<>>, ing.ann, path)
      BY <1>1 DEF Adds
  <2> QED  BY <1>1, <2>2, <2>3, <2>4, Zenon DEF r2, Matched
<1>2. CASE plugin = "ingress.rewrite"
  <2>1. r2 = Rewrite(r, ing.ann)
      BY <1>2, Zenon DEF IngressHandler
  <2>2. Matched(plugin, r, ing, rule, path) = r.match
      BY <1>2, Zenon DEF Matched
  <2> HIDE DEF r2
  <2>3. \E hs : Extended(r2, r, hs) /\ Adds(plugin, hs, ing.ann, path)
      BY <1>2, <2>1, RewriteAdds, Zenon
  <2> QED  BY <2>2, <2>3, Zenon DEF r2, Extended
<1>3. CASE plugin = "ingress.redirect"
  <2>1. r2 = Redirect(r, ing.ann)
      BY <1>3, Zenon DEF IngressHandler
  <2>2. Matched(plugin, r, ing, rule, path) = r.match
      BY <1>3, Zenon DEF Matched
  <2>3. r2.result = "ok"
      OBVIOUS
  <2> HIDE DEF r2
  <2>4. \E hs : Extended(r2, r, hs) /\ Adds(plugin, hs, ing.ann, path)
      BY <1>3, <2>1, <2>3, RedirectAdds, Zenon
  <2> QED  BY <2>2, <2>4, Zenon DEF r2, Extended
<1>4. CASE plugin = "ingress.reverseproxy"
  <2>1. r2 = ReverseProxy(r, ing.ann, path)
      BY <1>4, Zenon DEF IngressHandler
  <2>2. Matched(plugin, r, ing, rule, path) = r.match
      BY <1>4, Zenon DEF Matched
  <2>3. r2.result = "ok"
      OBVIOUS
  <2> HIDE DEF r2
  <2>4. \E hs : Extended(r2, r, hs) /\ Adds(plugin, hs, ing.ann, path)
      BY <1>4, <2>1, <2>3, ReverseProxyAdds, Zenon
  <2> QED  BY <2>2, <2>4, Zenon DEF r2, Extended
<1>5. CASE plugin \notin {"ingress.matcher", "ingress.rewrite", "ingress.redirect", "ingress.reverseproxy"}
  <2>1. r2 = r
      BY <1>5, Zenon DEF IngressHandler
  <2>2. Matched(plugin, r, ing, rule, path) = r.match
      BY <1>5, Zenon DEF Matched
  <2>3. r.handlers \o <<>> = r.handlers
      OBVIOUS
  <2>4. Adds(plugin, <<>>, ing.ann, path)
      BY <1>5 DEF Adds
  <2> HIDE DEF r2
  <2> QED  BY <2>1, <2>2, <2>3, <2>4, Zenon DEF r2
<1> QED  BY <1>1, <1>2, <1>3, <1>4, <1>5, Zenon

\* The plugin has been called when the first k have been.
Called(P, k, plugin) == \E i \in 1 .. k : P[i] = plugin

\* What a route has after k plugins.
RouteAfter(r, P, k, ing, rule, path) ==
    r.result = "ok" =>
        /\ IsRoute(r)
        /\ Called(P, k, "ingress.matcher") => r.match = <<Matcher(ing, rule, path)>>
        /\ ~Called(P, k, "ingress.matcher") => r.match = <<>>
        /\ r.handlers \in Seq(RouteHandlers(ing.ann, path))
        /\ Called(P, k, "ingress.reverseproxy") => ProxyHandler(ing.ann, path) \in ToSet(r.handlers)

\* An iteration has every plugin once: the next one has not been called.
LEMMA CalledNext ==
    ASSUME NEW P, IsIteration(P), NEW k \in Nat, k + 1 \in DOMAIN P
    PROVE  /\ ~Called(P, k, P[k + 1])
           /\ \A p : Called(P, k + 1, p) <=> Called(P, k, p) \/ p = P[k + 1]
<1>1. DOMAIN P = 1 .. 11
    BY DEF IsIteration, Alphabet
<1>2. \A i \in 1 .. k : i \in DOMAIN P /\ i # k + 1
    BY <1>1
<1>3. \A i : i \in 1 .. k + 1 <=> i \in 1 .. k \/ i = k + 1
    OBVIOUS
<1>4. ~Called(P, k, P[k + 1])
    BY <1>2 DEF Called, IsIteration
<1>5. \A p : Called(P, k + 1, p) <=> Called(P, k, p) \/ p = P[k + 1]
    BY <1>3, Zenon DEF Called
<1> QED  BY <1>4, <1>5

\* One plugin more.
LEMMA RouteAfterNext ==
    ASSUME NEW P, IsIteration(P), NEW k \in Nat, k + 1 \in DOMAIN P,
           NEW ing, NEW rule, NEW path, NEW r, RouteAfter(r, P, k, ing, rule, path)
    PROVE  RouteAfter(NextRoute(P[k + 1], r, ing, rule, path), P, k + 1, ing, rule, path)
<1> DEFINE r2 == NextRoute(P[k + 1], r, ing, rule, path)
           m == Matcher(ing, rule, path)
           H == RouteHandlers(ing.ann, path)
<1>1. CASE r.result # "ok"
  <2>1. r2 = r
      BY <1>1 DEF NextRoute
  <2> QED  BY <1>1, <2>1 DEF RouteAfter
<1>2. CASE r.result = "ok" /\ r2.result # "ok"
    BY <1>2 DEF RouteAfter
<1>3. CASE r.result = "ok" /\ r2.result = "ok"
  <2>1. r2 = IngressHandler(P[k + 1], r, ing, rule, path)
      BY <1>3 DEF NextRoute
  <2>2. IsRoute(r) /\ r.handlers \in Seq(H)
      BY <1>3 DEF RouteAfter
  <2>3. /\ IsRoute(r2) /\ r2.match = Matched(P[k + 1], r, ing, rule, path)
        /\ \E hs : r2.handlers = r.handlers \o hs /\ Adds(P[k + 1], hs, ing.ann, path)
      BY <1>3, <2>1, <2>2, HandlerAdds
  <2> HIDE DEF r2, m
  <2>4. PICK hs : r2.handlers = r.handlers \o hs /\ Adds(P[k + 1], hs, ing.ann, path)
      BY <2>3
  <2>5. hs \in Seq(H)
      BY <2>4 DEF Adds
  <2>6. r2.handlers \in Seq(H) /\ \A x : x \in ToSet(r2.handlers) <=> x \in ToSet(r.handlers) \/ x \in ToSet(hs)
    <3> HIDE DEF H
    <3> QED  BY <2>2, <2>4, <2>5, MembersOfBoth
  <2>7. Called(P, k + 1, "ingress.reverseproxy") => ProxyHandler(ing.ann, path) \in ToSet(r2.handlers)
    <3>1. CASE P[k + 1] = "ingress.reverseproxy"
      <4>1. hs = <<ProxyHandler(ing.ann, path)>>
          BY <2>4, <3>1 DEF Adds
      <4> QED  BY <2>6, <4>1, MembersOfShortLists
    <3>2. CASE P[k + 1] # "ingress.reverseproxy"
        BY <1>3, <2>6, <3>2, CalledNext DEF RouteAfter
    <3> QED  BY <3>1, <3>2
  <2>8. CASE P[k + 1] = "ingress.matcher"
    <3>1. ~Called(P, k, "ingress.matcher") /\ Called(P, k + 1, "ingress.matcher")
        BY <2>8, CalledNext
    <3>2. r.match = <<>>
        BY <1>3, <3>1 DEF RouteAfter
    <3>3. r2.match = <<m>>
        BY <2>3, <2>8, <3>2 DEF Matched, m
    <3> QED  BY <2>3, <2>6, <2>7, <3>1, <3>3 DEF RouteAfter, m, r2, H
  <2>9. CASE P[k + 1] # "ingress.matcher"
    <3>1. Called(P, k + 1, "ingress.matcher") <=> Called(P, k, "ingress.matcher")
        BY <2>9, CalledNext
    <3>2. r2.match = r.match
        BY <2>3, <2>9 DEF Matched
    <3> QED  BY <1>3, <2>3, <2>6, <2>7, <3>1, <3>2 DEF RouteAfter, r2, H
  <2> QED  BY <2>8, <2>9
<1> QED  BY <1>1, <1>2, <1>3

\* The plugins of an iteration as a list.
IsPluginList(P) == IsIteration(P) /\ P \in Seq(Names)

\* There are eleven of them, and all are called in the end.
LEMMA AllAreCalled ==
    ASSUME NEW P, IsPluginList(P)
    PROVE  /\ DOMAIN P = 1 .. 11 /\ Len(P) = 11
           /\ \A p \in Names : Called(P, 11, p)
<1>1. DOMAIN P = 1 .. 11
    BY DEF IsPluginList, IsIteration, Alphabet
<1>2. P \in Seq(Names)
    BY DEF IsPluginList
<1>3. Len(P) \in Nat /\ DOMAIN P = 1 .. Len(P)
    BY <1>2
<1>4. Len(P) = 11
  <2> DEFINE n == Len(P)
  <2> HIDE DEF n
  <2>1. n \in Nat /\ \A x : x \in 1 .. n <=> x \in 1 .. 11
      BY <1>1, <1>3, Zenon DEF n
  <2>2. 11 \in 1 .. n
      BY <2>1
  <2>3. n \in 1 .. 11
      BY <2>1, <2>2
  <2>4. n = 11
      BY <2>1, <2>2, <2>3
  <2> QED  BY <2>4, Zenon DEF n
<1>5. \A p \in Names : \E i \in DOMAIN P : P[i] = p
  <2>1. ToSet(P) = Names
      BY DEF IsPluginList, IsIteration, Names
  <2> QED  BY <2>1 DEF ToSet
<1> QED  BY <1>1, <1>4, <1>5 DEF Called

\* The names of the plugins.
LEMMA NamesAre ==
    Names = {"configmap", "healthz", "ingress", "ingress.matcher", "ingress.redirect",
             "ingress.reverseproxy", "ingress.rewrite", "ingress_sort", "metrics",
             "secrets_store", "tls"}
<1>1. DOMAIN Alphabet = 1 .. 11
    BY DEF Alphabet
<1>2. Names = {Alphabet[i] : i \in 1 .. 11}
    BY <1>1 DEF Names, ToSet
<1>3. 1 .. 11 = {1, 2, 3, 4, 5, 6, 7, 8, 9, 10, 11}
    OBVIOUS
<1>4. Names = {Alphabet[1], Alphabet[2], Alphabet[3], Alphabet[4], Alphabet[5], Alphabet[6],
               Alphabet[7], Alphabet[8], Alphabet[9], Alphabet[10], Alphabet[11]}
    BY <1>2, <1>3
<1> QED  BY <1>4 DEF Alphabet

\* In the default order a redirect goes before the rewrites and both before the proxy.
HandlersOrdered(P) ==
    \A i, j \in DOMAIN P :
       \/ P[i] = "ingress.redirect" /\ P[j] \in {"ingress.rewrite", "ingress.reverseproxy"}
       \/ P[i] = "ingress.rewrite" /\ P[j] = "ingress.reverseproxy"
       => i < j

\* What the handlers of a route are after k plugins in the default order.
OrderedAfter(r, P, k) ==
    r.result = "ok" =>
        /\ ~Called(P, k, "ingress.redirect") => r.handlers = <<>>
        /\ \A i \in DOMAIN r.handlers : r.handlers[i].do = "redirect" => i = 1
        /\ Called(P, k, "ingress.reverseproxy") =>
              r.handlers # <<>> /\ r.handlers[Len(r.handlers)].do = "proxy"

\* One plugin more, in the default order.
LEMMA OrderedAfterNext ==
    ASSUME NEW P, IsPluginList(P), HandlersOrdered(P), NEW k \in Nat, k + 1 \in DOMAIN P,
           NEW ing, NEW rule, NEW path, NEW r, RouteAfter(r, P, k, ing, rule, path),
           OrderedAfter(r, P, k)
    PROVE  OrderedAfter(NextRoute(P[k + 1], r, ing, rule, path), P, k + 1)
<1> DEFINE r2 == NextRoute(P[k + 1], r, ing, rule, path)
           H == RouteHandlers(ing.ann, path)
<1>a. IsIteration(P)
    BY DEF IsPluginList
<1>1. CASE r.result # "ok"
  <2>1. r2 = r
      BY <1>1 DEF NextRoute
  <2> QED  BY <1>1, <2>1 DEF OrderedAfter
<1>2. CASE r.result = "ok" /\ r2.result # "ok"
    BY <1>2 DEF OrderedAfter
<1>3. CASE r.result = "ok" /\ r2.result = "ok"
  <2>1. r2 = IngressHandler(P[k + 1], r, ing, rule, path)
      BY <1>3 DEF NextRoute
  <2>2. IsRoute(r) /\ r.handlers \in Seq(H)
      BY <1>3 DEF RouteAfter
  <2>3. \E hs : r2.handlers = r.handlers \o hs /\ Adds(P[k + 1], hs, ing.ann, path)
      BY <1>3, <2>1, <2>2, HandlerAdds
  <2> HIDE DEF r2
  <2>4. PICK hs : r2.handlers = r.handlers \o hs /\ Adds(P[k + 1], hs, ing.ann, path)
      BY <2>3
  <2>5. hs \in Seq(H)
      BY <2>4 DEF Adds
  <2> HIDE DEF H
  <2> DEFINE a == r.handlers
             c == a \o hs
  <2>6. r2.handlers = c
      BY <2>4
  <2>7. /\ a \in Seq(H) /\ hs \in Seq(H) /\ c \in Seq(H)
        /\ Len(a) \in Nat /\ Len(hs) \in Nat /\ Len(c) = Len(a) + Len(hs)
        /\ DOMAIN a = 1 .. Len(a) /\ DOMAIN hs = 1 .. Len(hs) /\ DOMAIN c = 1 .. Len(c)
        /\ \A i \in 1 .. Len(a) : c[i] = a[i]
        /\ \A i \in 1 .. Len(hs) : c[Len(a) + i] = hs[i]
      BY <2>2, <2>5
  <2>8. hs = <<>> => c = a
      BY <2>2
  <2>9. /\ ~Called(P, k, "ingress.redirect") => a = <<>>
        /\ \A i \in DOMAIN a : a[i].do = "redirect" => i = 1
        /\ Called(P, k, "ingress.reverseproxy") => a # <<>> /\ a[Len(a)].do = "proxy"
      BY <1>3 DEF OrderedAfter
  <2> HIDE DEF a, c
  <2>10. ~Called(P, k + 1, "ingress.redirect") => c = <<>>
    <3> SUFFICES ASSUME ~Called(P, k + 1, "ingress.redirect") PROVE c = <<>>
        OBVIOUS
    <3>1. ~Called(P, k, "ingress.redirect") /\ P[k + 1] # "ingress.redirect"
        BY <1>a, CalledNext
    <3>2. P[k + 1] \notin {"ingress.rewrite", "ingress.reverseproxy"}
      <4> SUFFICES ASSUME P[k + 1] \in {"ingress.rewrite", "ingress.reverseproxy"} PROVE FALSE
          OBVIOUS
      <4>1. Called(P, 11, "ingress.redirect")
          BY AllAreCalled, NamesAre
      <4>2. PICK i \in 1 .. 11 : P[i] = "ingress.redirect"
          BY <4>1 DEF Called
      <4>3. i \in DOMAIN P
          BY <4>2, AllAreCalled
      <4>4. i < k + 1
          BY <4>2, <4>3 DEF HandlersOrdered
      <4>5. i \in 1 .. k + 1
          BY <4>4
      <4> QED  BY <4>2, <4>5 DEF Called
    <3>3. hs = <<>>
        BY <2>4, <3>1, <3>2 DEF Adds
    <3> QED  BY <2>8, <2>9, <3>1, <3>3
  <2>11. \A i \in DOMAIN c : c[i].do = "redirect" => i = 1
    <3>1. CASE P[k + 1] = "ingress.redirect"
      <4>1. ~Called(P, k, "ingress.redirect")
          BY <1>a, <3>1, CalledNext
      <4>2. Len(a) = 0
          BY <2>9, <4>1
      <4>3. Len(hs) <= 1
          BY <2>4, <3>1 DEF Adds
      <4> QED  BY <2>7, <4>2, <4>3
    <3>2. CASE P[k + 1] # "ingress.redirect"
      <4>1. \A i \in DOMAIN hs : hs[i].do # "redirect"
          BY <2>4, <3>2 DEF Adds
      <4>2. ASSUME NEW i \in DOMAIN c, c[i].do = "redirect" PROVE i = 1
        <5>1. i \in 1 .. Len(a) \/ (i - Len(a) \in 1 .. Len(hs) /\ Len(a) + (i - Len(a)) = i)
            BY <2>7
        <5>2. CASE i \in 1 .. Len(a)
            BY <2>7, <2>9, <4>2, <5>2
        <5>3. CASE i - Len(a) \in 1 .. Len(hs) /\ Len(a) + (i - Len(a)) = i
          <6>1. c[i] = hs[i - Len(a)]
              BY <2>7, <5>3
          <6> QED  BY <2>7, <4>1, <4>2, <5>3, <6>1
        <5> QED  BY <5>1, <5>2, <5>3
      <4> QED  BY <4>2
    <3> QED  BY <3>1, <3>2
  <2>12. Called(P, k + 1, "ingress.reverseproxy") => c # <<>> /\ c[Len(c)].do = "proxy"
    <3> SUFFICES ASSUME Called(P, k + 1, "ingress.reverseproxy")
                 PROVE  c # <<>> /\ c[Len(c)].do = "proxy"
        OBVIOUS
    <3>1. CASE P[k + 1] = "ingress.reverseproxy"
      <4>1. hs = <<ProxyHandler(ing.ann, path)>>
          BY <2>4, <3>1 DEF Adds
      <4>2. Len(hs) = 1 /\ hs[1] = ProxyHandler(ing.ann, path)
          BY <4>1
      <4>3. Len(c) = Len(a) + 1 /\ c[Len(c)] = hs[1]
          BY <2>7, <4>2
      <4>4. c # <<>>
          BY <2>7, <4>3
      <4> QED  BY <4>2, <4>3, <4>4, HandlersDo
    <3>2. CASE P[k + 1] # "ingress.reverseproxy"
      <4>1. Called(P, k, "ingress.reverseproxy")
          BY <1>a, <3>2, CalledNext
      <4>2. P[k + 1] \notin {"ingress.redirect", "ingress.rewrite"}
        <5> SUFFICES ASSUME P[k + 1] \in {"ingress.redirect", "ingress.rewrite"} PROVE FALSE
            OBVIOUS
        <5>1. PICK i \in 1 .. k : P[i] = "ingress.reverseproxy"
            BY <4>1 DEF Called
        <5>2. i \in DOMAIN P
            BY <5>1, AllAreCalled
        <5>3. k + 1 < i
            BY <5>1, <5>2 DEF HandlersOrdered
        <5> QED  BY <5>1, <5>3
      <4>3. hs = <<>>
          BY <2>4, <3>2, <4>2 DEF Adds
      <4> QED  BY <2>8, <2>9, <4>1, <4>3
    <3> QED  BY <3>1, <3>2
  <2> QED  BY <2>6, <2>10, <2>11, <2>12 DEF OrderedAfter, r2
<1> QED  BY <1>1, <1>2, <1>3

\* What the plugins make of a path, if they make a route of it: a matcher for the host
\* and the path, and a proxy to the backend.
LEMMA RouteHas ==
    ASSUME NEW P, IsPluginList(P), NEW ing, NEW rule, NEW path
    PROVE  LET r == RouteOf(P, ing, rule, path)
           IN  r.result = "ok" =>
                 /\ r.match = <<Matcher(ing, rule, path)>>
                 /\ ProxyHandler(ing.ann, path) \in ToSet(r.handlers)
                 /\ HandlersOrdered(P) =>
                      /\ r.handlers # <<>> /\ r.handlers[Len(r.handlers)].do = "proxy"
                      /\ \A i \in DOMAIN r.handlers : r.handlers[i].do = "redirect" => i = 1
<1>1. DOMAIN P = 1 .. 11 /\ Len(P) = 11 /\ 11 \in Nat /\ IsIteration(P)
    BY AllAreCalled DEF IsPluginList
<1>n. Len(P) \in Nat
    BY <1>1
<1>f. PICK f : /\ f[0] = NewRoute
               /\ \A k \in 1 .. Len(P) : f[k] = NextRoute(P[k], f[k - 1], ing, rule, path)
               /\ RouteOf(P, ing, rule, path) = f[Len(P)]
    BY <1>n, RouteOfIs
<1>2. /\ f[0] = NewRoute
      /\ \A k \in 1 .. 11 : f[k] = NextRoute(P[k], f[k - 1], ing, rule, path)
      /\ RouteOf(P, ing, rule, path) = f[11]
    BY <1>1, <1>f, Zenon
<1> DEFINE S == {k \in 0 .. 11 : /\ RouteAfter(f[k], P, k, ing, rule, path)
                                 /\ HandlersOrdered(P) => OrderedAfter(f[k], P, k)}
<1>3. 0 \in S
  <2>1. \A p : ~Called(P, 0, p)
      BY DEF Called
  <2>2. /\ IsRoute(NewRoute) /\ NewRoute.match = <<>> /\ NewRoute.handlers = <<>>
        /\ <<>> \in Seq(RouteHandlers(ing.ann, path)) /\ DOMAIN <<>> = {}
      BY DEF NewRoute, IsRoute
  <2>3. RouteAfter(f[0], P, 0, ing, rule, path)
      BY <1>2, <2>1, <2>2 DEF RouteAfter
  <2>4. OrderedAfter(f[0], P, 0)
      BY <1>2, <2>1, <2>2 DEF OrderedAfter
  <2> QED  BY <2>3, <2>4
<1>4. ASSUME NEW k \in 0 .. 11, k \in S, k < 11 PROVE k + 1 \in S
  <2>1. k \in Nat /\ k + 1 \in 1 .. 11 /\ (k + 1) - 1 = k
      BY <1>4
  <2>2. f[k + 1] = NextRoute(P[k + 1], f[k], ing, rule, path)
      BY <1>2, <2>1
  <2>3. RouteAfter(f[k + 1], P, k + 1, ing, rule, path)
      BY <1>1, <1>4, <2>1, <2>2, RouteAfterNext
  <2>4. HandlersOrdered(P) => OrderedAfter(f[k + 1], P, k + 1)
      BY <1>1, <1>4, <2>1, <2>2, OrderedAfterNext
  <2> QED  BY <2>1, <2>3, <2>4
<1> HIDE DEF S
<1>5. \A k \in 0 .. 11 : k \in S
    BY <1>3, <1>4, AllPlaces
<1>6. 11 \in S
    BY <1>5
<1>7. \A p \in {"ingress.matcher", "ingress.redirect", "ingress.reverseproxy"} : Called(P, 11, p)
    BY AllAreCalled, NamesAre
<1> QED  BY <1>2, <1>6, <1>7 DEF S, RouteAfter, OrderedAfter

-----------------------------------------------------------------------------
(* The routes of all ingresses.                                            *)

StoredIngresses == {Ingress(u, body) : u \in Uids, body \in Bodies}

\* An ingress of the store has rules.
LEMMA IngressHasRules ==
    ASSUME NEW ing \in StoredIngresses
    PROVE  ing.rules \in Seq(IngressRules)
BY ConverterAssumption DEF StoredIngresses, Ingress

\* What the plugins can make of a path of any ingress.
AnyRoutes(P) ==
    {RouteOf(P, ing, rule, path) : ing \in StoredIngresses, rule \in IngressRules, path \in RulePaths}
    \cup {Panicked}

\* x is what becomes of a path of the rule.
FromRule(x, P, ing, rule) ==
    IF ~rule.http THEN x = Panicked
    ELSE \E j \in DOMAIN rule.paths : x = RouteOf(P, ing, rule, rule.paths[j])

\* The routes of one ingress are those of its rules.
LEMMA RoutesOfIngress ==
    ASSUME NEW P, NEW ing \in StoredIngresses
    PROVE  /\ RoutesOf(P, ing) \in Seq(AnyRoutes(P))
           /\ \A x : x \in ToSet(RoutesOf(P, ing)) <=>
                        \E i \in DOMAIN ing.rules : FromRule(x, P, ing, ing.rules[i])
<1> DEFINE T == AnyRoutes(P)
           rs == ing.rules
           of(i) == IF ~rs[i].http THEN <<Panicked>>
                    ELSE [j \in DOMAIN rs[i].paths |-> RouteOf(P, ing, rs[i], rs[i].paths[j])]
           ss == [i \in DOMAIN rs |-> of(i)]
<1>1. RoutesOf(P, ing) = FlattenSeq(ss)
    BY DEF RoutesOf
<1>2. rs \in Seq(IngressRules)
    BY IngressHasRules
<1>3. ASSUME NEW i \in DOMAIN rs
      PROVE  /\ of(i) \in Seq(T)
             /\ \A x : x \in ToSet(of(i)) <=> FromRule(x, P, ing, rs[i])
  <2>1. rs[i] \in IngressRules
      BY <1>2
  <2>2. CASE ~rs[i].http
    <3>1. of(i) = <<Panicked>>
        BY <2>2
    <3>2. Panicked \in T
        BY DEF AnyRoutes
    <3> HIDE DEF T, of
    <3>3. of(i) \in Seq(T) /\ ToSet(of(i)) = {Panicked}
      <4>1. <<Panicked>> \in Seq(T)
          BY <3>2, AtMostOne
      <4>2. ToSet(<<Panicked>>) = {Panicked}
          BY MembersOfShortLists, Zenon
      <4> QED  BY <3>1, <4>1, <4>2, Zenon
    <3>4. \A x : FromRule(x, P, ing, rs[i]) <=> x = Panicked
        BY <2>2, Zenon DEF FromRule
    <3> QED  BY <3>3, <3>4, Zenon
  <2>3. CASE rs[i].http
    <3> DEFINE ps == rs[i].paths
               c == [j \in DOMAIN ps |-> RouteOf(P, ing, rs[i], ps[j])]
    <3>1. of(i) = c
        BY <2>3
    <3>2. ps \in Seq(RulePaths)
        BY <2>1 DEF IngressRules
    <3>3. \A j \in DOMAIN ps : RouteOf(P, ing, rs[i], ps[j]) \in T
      <4>1. \A j \in DOMAIN ps : ps[j] \in RulePaths
          BY <3>2
      <4> HIDE DEF ps, rs
      <4> QED  BY <2>1, <4>1 DEF AnyRoutes, T
    <3> HIDE DEF ps, T, rs, of
    <3>4. Len(ps) \in Nat /\ DOMAIN ps = 1 .. Len(ps)
        BY <3>2
    <3>5. c \in Seq(T)
        BY <3>3, <3>4
    <3>6. \A x : x \in ToSet(c) <=> \E j \in DOMAIN ps : x = RouteOf(P, ing, rs[i], ps[j])
      <4>1. DOMAIN c = DOMAIN ps /\ \A j \in DOMAIN ps : c[j] = RouteOf(P, ing, rs[i], ps[j])
          OBVIOUS
      <4> HIDE DEF c
      <4> QED  BY <4>1 DEF ToSet
    <3>7. \A x : FromRule(x, P, ing, rs[i]) <=> \E j \in DOMAIN ps : x = RouteOf(P, ing, rs[i], ps[j])
        BY <2>3, Zenon DEF FromRule, ps
    <3> HIDE DEF c
    <3> QED  BY <3>1, <3>5, <3>6, <3>7, Zenon
  <2> QED  BY <2>2, <2>3
<1> HIDE DEF T, of
<1>4. ss \in Seq(Seq(T))
  <2>1. Len(rs) \in Nat /\ DOMAIN rs = 1 .. Len(rs)
      BY <1>2
  <2> HIDE DEF rs
  <2> QED  BY <1>3, <2>1
<1>5. DOMAIN ss = DOMAIN rs /\ \A i \in DOMAIN rs : ss[i] = of(i)
    OBVIOUS
<1> HIDE DEF ss
<1>6. /\ FlattenSeq(ss) \in Seq(T)
      /\ \A x : x \in ToSet(FlattenSeq(ss)) <=> \E i \in DOMAIN ss : x \in ToSet(ss[i])
    BY <1>4, MembersOfAll
<1>7. \A x : (\E i \in DOMAIN ss : x \in ToSet(ss[i])) <=> \E i \in DOMAIN rs : FromRule(x, P, ing, rs[i])
  <2> HIDE DEF rs
  <2> QED  BY <1>3, <1>5, Zenon
<1> QED  BY <1>1, <1>6, <1>7, Zenon DEF T

\* What IngressPlugin makes of a list of ingresses.
AllRoutes(P, ings) == FlattenSeq([i \in DOMAIN ings |-> RoutesOf(P, ings[i])])

\* The routes of all ingresses are those of the rules of all of them.
LEMMA RoutesOfIngresses ==
    ASSUME NEW P, NEW ings \in Seq(StoredIngresses)
    PROVE  /\ AllRoutes(P, ings) \in Seq(AnyRoutes(P))
           /\ \A x : x \in ToSet(AllRoutes(P, ings)) <=>
                        \E n \in DOMAIN ings : \E i \in DOMAIN ings[n].rules :
                            FromRule(x, P, ings[n], ings[n].rules[i])
<1> DEFINE T == AnyRoutes(P)
           ss == [n \in DOMAIN ings |-> RoutesOf(P, ings[n])]
<1>1. Len(ings) \in Nat /\ DOMAIN ings = 1 .. Len(ings) /\ \A n \in DOMAIN ings : ings[n] \in StoredIngresses
    OBVIOUS
<1>2. \A n \in DOMAIN ings : /\ RoutesOf(P, ings[n]) \in Seq(T)
                             /\ \A x : x \in ToSet(RoutesOf(P, ings[n])) <=>
                                   \E i \in DOMAIN ings[n].rules : FromRule(x, P, ings[n], ings[n].rules[i])
    BY <1>1, RoutesOfIngress
<1> HIDE DEF T
<1>3. ss \in Seq(Seq(T))
    BY <1>1, <1>2
<1>4. DOMAIN ss = DOMAIN ings /\ \A n \in DOMAIN ings : ss[n] = RoutesOf(P, ings[n])
    OBVIOUS
<1>5. AllRoutes(P, ings) = FlattenSeq(ss)
    BY DEF AllRoutes
<1> HIDE DEF ss
<1>6. /\ FlattenSeq(ss) \in Seq(T)
      /\ \A x : x \in ToSet(FlattenSeq(ss)) <=> \E n \in DOMAIN ss : x \in ToSet(ss[n])
    BY <1>3, MembersOfAll
<1> QED  BY <1>2, <1>4, <1>5, <1>6, Zenon DEF T

\* The rules of a list of ingresses.
RulesOf(ings) ==
    UNION {UNION {{<<ing, ing.rules[i], ing.rules[i].paths[j]>> :
                      j \in DOMAIN ing.rules[i].paths} :
                  i \in DOMAIN ing.rules} :
           ing \in ToSet(ings)}

\* A rule is an ingress, one of its rules and one of the paths of that.
LEMMA RulesOfList ==
    ASSUME NEW ings \in Seq(StoredIngresses)
    PROVE  /\ \A t \in RulesOf(ings) :
                \E n \in DOMAIN ings : \E i \in DOMAIN ings[n].rules :
                \E j \in DOMAIN ings[n].rules[i].paths :
                    t = <<ings[n], ings[n].rules[i], ings[n].rules[i].paths[j]>>
           /\ \A n \in DOMAIN ings : \A i \in DOMAIN ings[n].rules :
              \A j \in DOMAIN ings[n].rules[i].paths :
                 <<ings[n], ings[n].rules[i], ings[n].rules[i].paths[j]>> \in RulesOf(ings)
           /\ \A t \in RulesOf(ings) :
                 /\ t[1] \in StoredIngresses /\ t[2] \in IngressRules /\ t[3] \in RulePaths
                 /\ t[2] \in ToSet(t[1].rules) /\ t[3] \in ToSet(t[2].paths)
<1>1. \A ing : ing \in ToSet(ings) <=> \E n \in DOMAIN ings : ings[n] = ing
    BY DEF ToSet
<1>2. ASSUME NEW t \in RulesOf(ings)
      PROVE  \E n \in DOMAIN ings : \E i \in DOMAIN ings[n].rules :
             \E j \in DOMAIN ings[n].rules[i].paths :
                 t = <<ings[n], ings[n].rules[i], ings[n].rules[i].paths[j]>>
  <2>1. PICK ing \in ToSet(ings) :
            t \in UNION {{<<ing, ing.rules[i], ing.rules[i].paths[j]>> :
                             j \in DOMAIN ing.rules[i].paths} : i \in DOMAIN ing.rules}
      BY <1>2, Zenon DEF RulesOf
  <2>2. PICK i \in DOMAIN ing.rules :
            t \in {<<ing, ing.rules[i], ing.rules[i].paths[j]>> : j \in DOMAIN ing.rules[i].paths}
      BY <2>1, Zenon
  <2>3. PICK j \in DOMAIN ing.rules[i].paths : t = <<ing, ing.rules[i], ing.rules[i].paths[j]>>
      BY <2>2, Zenon
  <2> QED  BY <1>1, <2>2, <2>3, Zenon
<1>3. ASSUME NEW n \in DOMAIN ings, NEW i \in DOMAIN ings[n].rules,
             NEW j \in DOMAIN ings[n].rules[i].paths
      PROVE  <<ings[n], ings[n].rules[i], ings[n].rules[i].paths[j]>> \in RulesOf(ings)
  <2> DEFINE ing == ings[n]
             in(k) == {<<ing, ing.rules[k], ing.rules[k].paths[l]>> : l \in DOMAIN ing.rules[k].paths}
             all(x) == UNION {{<<x, x.rules[k], x.rules[k].paths[l]>> :
                                 l \in DOMAIN x.rules[k].paths} : k \in DOMAIN x.rules}
  <2>1. <<ing, ing.rules[i], ing.rules[i].paths[j]>> \in in(i)
      BY Zenon
  <2>2. <<ing, ing.rules[i], ing.rules[i].paths[j]>> \in all(ing)
      BY <2>1, Zenon
  <2>3. ing \in ToSet(ings)
      BY <1>1
  <2>4. RulesOf(ings) = UNION {all(x) : x \in ToSet(ings)}
      BY DEF RulesOf
  <2> HIDE DEF all, in, ing
  <2> QED  BY <2>2, <2>3, <2>4, Zenon DEF ing
<1>4. ASSUME NEW t \in RulesOf(ings)
      PROVE  /\ t[1] \in StoredIngresses /\ t[2] \in IngressRules /\ t[3] \in RulePaths
             /\ t[2] \in ToSet(t[1].rules) /\ t[3] \in ToSet(t[2].paths)
  <2>a. PICK n \in DOMAIN ings : \E i \in DOMAIN ings[n].rules :
            \E j \in DOMAIN ings[n].rules[i].paths : t = <<ings[n], ings[n].rules[i], ings[n].rules[i].paths[j]>>
      BY <1>2, Zenon
  <2>b. PICK i \in DOMAIN ings[n].rules :
            \E j \in DOMAIN ings[n].rules[i].paths : t = <<ings[n], ings[n].rules[i], ings[n].rules[i].paths[j]>>
      BY <2>a, Zenon
  <2>1. PICK j \in DOMAIN ings[n].rules[i].paths : t = <<ings[n], ings[n].rules[i], ings[n].rules[i].paths[j]>>
      BY <2>b, Zenon
  <2> DEFINE ing == ings[n]
             rule == ing.rules[i]
             path == rule.paths[j]
  <2>2. t[1] = ing /\ t[2] = rule /\ t[3] = path
    <3> HIDE DEF path, rule, ing
    <3> QED  BY <2>1 DEF path, rule, ing
  <2>3. ing \in StoredIngresses
      OBVIOUS
  <2> HIDE DEF ing
  <2>4. ing.rules \in Seq(IngressRules) /\ i \in DOMAIN ing.rules
      BY <2>3, IngressHasRules, <2>1 DEF ing
  <2>5. rule \in IngressRules /\ rule \in ToSet(ing.rules) /\ j \in DOMAIN rule.paths
      BY <2>4, <2>1 DEF ToSet, ing
  <2> HIDE DEF rule
  <2>6. rule.paths \in Seq(RulePaths)
      BY <2>5 DEF IngressRules
  <2>7. path \in RulePaths /\ path \in ToSet(rule.paths)
      BY <2>5, <2>6 DEF ToSet
  <2> HIDE DEF path
  <2> QED  BY <2>2, <2>3, <2>5, <2>7
<1> QED  BY <1>2, <1>3, <1>4

\* The routes that the plugins make for the ingresses.
GoodRoutes(P, ings) == {r \in ToSet(AllRoutes(P, ings)) : r.result = "ok"}

\* Every route is that of a path of a rule, and if nothing fails every path has its route.
LEMMA RoutesOfRules ==
    ASSUME NEW P, NEW ings \in Seq(StoredIngresses)
    PROVE  /\ \A x \in GoodRoutes(P, ings) : \E t \in RulesOf(ings) : x = RouteOf(P, t[1], t[2], t[3])
           /\ (\A x \in ToSet(AllRoutes(P, ings)) : x.result = "ok") =>
                 \A t \in RulesOf(ings) : RouteOf(P, t[1], t[2], t[3]) \in ToSet(AllRoutes(P, ings))
<1>1. \A x : x \in ToSet(AllRoutes(P, ings)) <=>
                \E n \in DOMAIN ings : \E i \in DOMAIN ings[n].rules :
                    FromRule(x, P, ings[n], ings[n].rules[i])
    BY RoutesOfIngresses
<1>2. \A a, b, c : <<a, b, c>>[1] = a /\ <<a, b, c>>[2] = b /\ <<a, b, c>>[3] = c
    OBVIOUS
<1>3. ASSUME NEW x \in GoodRoutes(P, ings)
      PROVE  \E t \in RulesOf(ings) : x = RouteOf(P, t[1], t[2], t[3])
  <2>1. x \in ToSet(AllRoutes(P, ings)) /\ x.result = "ok"
      BY <1>3 DEF GoodRoutes
  <2>2. PICK n \in DOMAIN ings : \E i \in DOMAIN ings[n].rules : FromRule(x, P, ings[n], ings[n].rules[i])
      BY <1>1, <2>1, Zenon
  <2>3. PICK i \in DOMAIN ings[n].rules : FromRule(x, P, ings[n], ings[n].rules[i])
      BY <2>2, Zenon
  <2> DEFINE rule == ings[n].rules[i]
  <2>4. FromRule(x, P, ings[n], rule)
      BY <2>3
  <2>5. PICK j \in DOMAIN rule.paths : x = RouteOf(P, ings[n], rule, rule.paths[j])
    <3>1. x # Panicked
        BY <2>1 DEF Panicked
    <3> HIDE DEF rule
    <3> QED  BY <2>4, <3>1 DEF FromRule
  <2>6. <<ings[n], rule, rule.paths[j]>> \in RulesOf(ings)
      BY RulesOfList, Zenon
  <2> QED  BY <1>2, <2>5, <2>6, Zenon
<1>4. ASSUME \A x \in ToSet(AllRoutes(P, ings)) : x.result = "ok", NEW t \in RulesOf(ings)
      PROVE  RouteOf(P, t[1], t[2], t[3]) \in ToSet(AllRoutes(P, ings))
  <2>1. PICK n \in DOMAIN ings : \E i \in DOMAIN ings[n].rules :
            \E j \in DOMAIN ings[n].rules[i].paths : t = <<ings[n], ings[n].rules[i], ings[n].rules[i].paths[j]>>
      BY RulesOfList, Zenon
  <2>2. PICK i \in DOMAIN ings[n].rules :
            \E j \in DOMAIN ings[n].rules[i].paths : t = <<ings[n], ings[n].rules[i], ings[n].rules[i].paths[j]>>
      BY <2>1, Zenon
  <2>3. PICK j \in DOMAIN ings[n].rules[i].paths : t = <<ings[n], ings[n].rules[i], ings[n].rules[i].paths[j]>>
      BY <2>2, Zenon
  <2> DEFINE rule == ings[n].rules[i]
             x == RouteOf(P, ings[n], rule, rule.paths[j])
  <2>4. rule.http
    <3> SUFFICES ASSUME ~rule.http PROVE FALSE
        OBVIOUS
    <3>1. FromRule(Panicked, P, ings[n], rule)
        BY Zenon DEF FromRule
    <3>2. Panicked \in ToSet(AllRoutes(P, ings))
        BY <1>1, <3>1, Zenon
    <3> QED  BY <1>4, <3>2 DEF Panicked
  <2>5. FromRule(x, P, ings[n], rule)
      BY <2>4, Zenon DEF FromRule
  <2>6. x \in ToSet(AllRoutes(P, ings))
    <3> HIDE DEF x
    <3> QED  BY <1>1, <2>5, Zenon
  <2> QED  BY <1>2, <2>3, <2>6, Zenon
<1> QED  BY <1>3, <1>4, Zenon

-----------------------------------------------------------------------------
(* The first pattern of a route, which sortRoutes compares.                *)

\* A text has a length, and only the empty one has length 0.
LEMMA TextsHaveLength ==
    ASSUME NEW p \in Texts
    PROVE  /\ ElemsLength(p.elems) \in Nat /\ Length(p) \in Nat
           /\ Length(p) = 0 <=> p = NoPath
           /\ Length(p) >= ElemsLength(p.elems)
           /\ ~p.star => Length(p) <= ElemsLength(p.elems) + 1
<1> DEFINE e == p.elems
           n == Len(e)
<1>1. e \in Seq(DOMAIN Width) /\ p.slash \in BOOLEAN /\ p.star \in BOOLEAN /\ n \in Nat
    BY DEF Texts
<1>2. PICK f \in [0 .. n -> Nat] :
              /\ f[0] = 0
              /\ \A k \in 1 .. n : /\ Width[e[k]] \in Nat \ {0}
                                   /\ f[k] = f[k - 1] + 1 + Width[e[k]]
              /\ ElemsLength(e) = f[n]
    BY <1>1, ElemsLengthIs
<1>3. e = <<>> <=> n = 0
    BY <1>1
<1> HIDE DEF e, n
<1>4. f[n] \in Nat
    BY <1>1, <1>2
<1>5. n # 0 => f[n] # 0
  <2> SUFFICES ASSUME n # 0 PROVE f[n] # 0
      OBVIOUS
  <2>1. n \in 1 .. n /\ n - 1 \in 0 .. n
      BY <1>1
  <2>2. f[n] = f[n - 1] + 1 + Width[e[n]] /\ f[n - 1] \in Nat /\ Width[e[n]] \in Nat
      BY <1>2, <2>1
  <2> QED  BY <2>2
<1>6. n = 0 => f[n] = 0
    BY <1>2
<1>7. p = NoPath <=> e = <<>> /\ ~p.slash /\ ~p.star
    BY <1>1 DEF NoPath, Texts, e
<1>8. Length(p) = f[n] + (IF p.slash THEN 1 ELSE 0) + (IF p.star THEN 2 ELSE 0)
    BY <1>2 DEF Length, e
<1>9. ElemsLength(p.elems) = f[n]
    BY <1>2 DEF e
<1> QED  BY <1>1, <1>3, <1>4, <1>5, <1>6, <1>7, <1>8, <1>9

\* The first pattern of a path.
FirstText(path, type) ==
    IF MatchPath(path, type) = <<>> THEN NoPath ELSE MatchPath(path, type)[1]

\* What the first pattern is: the path itself or, for a Prefix, the path without its slash,
\* and the wildcard only for the root.
LEMMA FirstTextIs ==
    ASSUME NEW p \in Texts, NEW type
    PROVE  /\ p = NoPath => FirstText(p, type) = NoPath
           /\ p # NoPath /\ type # "Prefix" => FirstText(p, type) = p
           /\ p # NoPath /\ type = "Prefix" /\ TrimSlash(p) = NoPath => FirstText(p, type) = Below(p)
           /\ p # NoPath /\ type = "Prefix" /\ TrimSlash(p) # NoPath => FirstText(p, type) = TrimSlash(p)
           /\ FirstText(p, type) \in Texts
<1> DEFINE ps == MatchPath(p, type)
<1>0. Below(p) \in Texts /\ TrimSlash(p) \in Texts /\ NoPath \in Texts
  <2>1. Below(p) \in Texts
      BY DEF Below, Texts
  <2>2. TrimSlash(p) \in Texts
      BY DEF TrimSlash, Texts
  <2>3. NoPath \in Texts
    <3>1. <<>> \in Seq(DOMAIN Width)
        OBVIOUS
    <3> QED  BY <3>1 DEF Texts, NoPath
  <2> QED  BY <2>1, <2>2, <2>3
<1>1. CASE p = NoPath
  <2>1. ps = <<>>
      BY <1>1, Zenon DEF MatchPath
  <2> QED  BY <1>0, <1>1, <2>1, Zenon DEF FirstText
<1>2. CASE p # NoPath /\ type # "Prefix"
  <2>1. ps = <<p>>
      BY <1>2, Zenon DEF MatchPath
  <2>2. <<p>> # <<>> /\ <<p>>[1] = p
      BY MembersOfShortLists
  <2> QED  BY <1>2, <2>1, <2>2, Zenon DEF FirstText
<1>3. CASE p # NoPath /\ type = "Prefix" /\ TrimSlash(p) = NoPath
  <2>1. ps = <<Below(p)>>
      BY <1>3, Zenon DEF MatchPath
  <2>2. <<Below(p)>> # <<>> /\ <<Below(p)>>[1] = Below(p)
      BY MembersOfShortLists
  <2> QED  BY <1>0, <1>3, <2>1, <2>2, Zenon DEF FirstText
<1>4. CASE p # NoPath /\ type = "Prefix" /\ TrimSlash(p) # NoPath
  <2>1. ps = <<TrimSlash(p), Below(p)>>
      BY <1>4, Zenon DEF MatchPath
  <2>2. <<TrimSlash(p), Below(p)>> # <<>> /\ <<TrimSlash(p), Below(p)>>[1] = TrimSlash(p)
      BY MembersOfShortLists
  <2> QED  BY <1>0, <1>4, <2>1, <2>2, Zenon DEF FirstText
<1> QED  BY <1>1, <1>2, <1>3, <1>4, Zenon

\* FirstPath finds it.
LEMMA FirstPathIs ==
    ASSUME NEW r, NEW ing, NEW rule, NEW path, r.match = <<Matcher(ing, rule, path)>>
    PROVE  FirstPath(r) = FirstText(path.path, path.type)
<1>1. r.match[1] = Matcher(ing, rule, path)
    OBVIOUS
<1>2. Matcher(ing, rule, path).paths = MatchPath(path.path, path.type)
    BY DEF Matcher
<1> QED  BY <1>1, <1>2 DEF FirstPath, FirstText

\* What a route of the configuration has.
LEMMA GoodRouteHas ==
    ASSUME NEW P, IsPluginList(P), NEW ings \in Seq(StoredIngresses), NEW r \in GoodRoutes(P, ings)
    PROVE  \E t \in RulesOf(ings) :
              /\ r = RouteOf(P, t[1], t[2], t[3])
              /\ r.match = <<Matcher(t[1], t[2], t[3])>>
              /\ ProxyHandler(t[1].ann, t[3]) \in ToSet(r.handlers)
              /\ HandlersOrdered(P) =>
                   /\ r.handlers # <<>> /\ r.handlers[Len(r.handlers)].do = "proxy"
                   /\ \A i \in DOMAIN r.handlers : r.handlers[i].do = "redirect" => i = 1
              /\ FirstPath(r) = FirstText(t[3].path, t[3].type)
              /\ t[3].path \in Texts /\ t[3].type \in STRING
<1>1. PICK t \in RulesOf(ings) : r = RouteOf(P, t[1], t[2], t[3])
    BY RoutesOfRules
<1>2. r.result = "ok"
    BY DEF GoodRoutes
<1>3. /\ r.match = <<Matcher(t[1], t[2], t[3])>>
      /\ ProxyHandler(t[1].ann, t[3]) \in ToSet(r.handlers)
      /\ HandlersOrdered(P) =>
           /\ r.handlers # <<>> /\ r.handlers[Len(r.handlers)].do = "proxy"
           /\ \A i \in DOMAIN r.handlers : r.handlers[i].do = "redirect" => i = 1
    BY <1>1, <1>2, RouteHas
<1>4. FirstPath(r) = FirstText(t[3].path, t[3].type)
    BY <1>3, FirstPathIs
<1>5. t[3] \in RulePaths
    BY RulesOfList
<1>6. t[3].path \in Texts /\ t[3].type \in STRING
    BY <1>5 DEF RulePaths
<1> QED  BY <1>1, <1>3, <1>4, <1>6

\* A list of such routes can be sorted.
LEMMA GoodRoutesAreRouteList ==
    ASSUME NEW P, IsPluginList(P), NEW ings \in Seq(StoredIngresses),
           NEW routes \in Seq(GoodRoutes(P, ings))
    PROVE  RouteList(routes, Len(routes))
<1>1. Len(routes) \in Nat /\ DOMAIN routes = 1 .. Len(routes)
    OBVIOUS
<1>2. ASSUME NEW i \in 1 .. Len(routes)
      PROVE  /\ FirstPath(routes[i]).star \in BOOLEAN
             /\ Length(FirstPath(routes[i])) \in Nat
             /\ Length(FirstPath(routes[i])) = 0 <=> FirstPath(routes[i]) = NoPath
  <2>1. routes[i] \in GoodRoutes(P, ings)
      OBVIOUS
  <2>2. FirstPath(routes[i]) \in Texts
      BY <2>1, GoodRouteHas, FirstTextIs
  <2>3. FirstPath(routes[i]).star \in BOOLEAN
      BY <2>2 DEF Texts
  <2> QED  BY <2>2, <2>3, TextsHaveLength
<1> QED  BY <1>1, <1>2 DEF RouteList

-----------------------------------------------------------------------------
(* The configuration after each global plugin.                             *)

IsConfig(cfg) == DOMAIN cfg = {"result", "debug", "automation", "onDemand", "proxyProtocol",
                               "storage", "skip", "routes", "metricsRoutes"}

\* Each route may be tried before those that follow it.
Sorted(routes) == \A i, j \in DOMAIN routes : i < j => GoesBefore(routes[i], routes[j])

\* Every path has its route.
Complete(routes, P, ings) ==
    \A t \in RulesOf(ings) : RouteOf(P, t[1], t[2], t[3]) \in ToSet(routes)

\* The hosts that the ingresses bring certificates for.
TLSHosts(ings) == UNION {ToSet(ings[i].tls) : i \in DOMAIN ings}

\* What a plugin makes of a configuration with good routes.
Configured(plugin, c2, cfg, P, opts, ings) ==
    /\ IsConfig(c2) /\ c2.routes \in Seq(GoodRoutes(P, ings))
    /\ c2.result = "ok" =>
          /\ plugin = "ingress" => Complete(c2.routes, P, ings)
          /\ plugin # "ingress" => \A r : r \in ToSet(c2.routes) <=> r \in ToSet(cfg.routes)
          /\ plugin = "ingress_sort" /\ opts.smartSort => Sorted(c2.routes)
          /\ plugin \notin {"ingress", "ingress_sort"} => c2.routes = cfg.routes
          /\ plugin = "tls" => c2.skip = TLSHosts(ings)
          /\ plugin # "tls" => c2.skip = cfg.skip

\* The plugin ingress makes a route for every path, or fails.
LEMMA IngressConfigures ==
    ASSUME NEW P, IsPluginList(P), NEW opts, NEW ings \in Seq(StoredIngresses), NEW cfg,
           IsConfig(cfg), cfg.result = "ok", cfg.routes \in Seq(GoodRoutes(P, ings))
    PROVE  Configured("ingress", IngressPlugin(P, cfg, ings), cfg, P, opts, ings)
<1> DEFINE routes == AllRoutes(P, ings)
           bad == {i \in DOMAIN routes : routes[i].result # "ok"}
           least == CHOOSE i \in bad : \A j \in bad : i <= j
           c2 == IngressPlugin(P, cfg, ings)
<1>1. c2 = IF bad = {} THEN [cfg EXCEPT !.routes = routes]
           ELSE [cfg EXCEPT !.result = routes[least].result]
    BY DEF IngressPlugin, AllRoutes
<1>2. routes \in Seq(AnyRoutes(P))
    BY RoutesOfIngresses
<1> HIDE DEF routes, c2
<1>3. Len(routes) \in Nat /\ DOMAIN routes = 1 .. Len(routes)
    BY <1>2
<1>4. CASE bad = {}
  <2>1. \A i \in DOMAIN routes : routes[i].result = "ok" /\ routes[i] \in ToSet(routes)
      BY <1>4 DEF ToSet
  <2>2. routes \in Seq(GoodRoutes(P, ings))
    <3>1. \A i \in DOMAIN routes : routes[i] \in GoodRoutes(P, ings)
        BY <2>1 DEF GoodRoutes, routes
    <3> QED  BY <1>2, <1>3, <3>1
  <2>3. \A x \in ToSet(routes) : x.result = "ok"
      BY <2>1 DEF ToSet
  <2>4. Complete(routes, P, ings)
      BY <2>3, RoutesOfRules DEF Complete, routes
  <2> HIDE DEF bad
  <2>5. c2 = [cfg EXCEPT !.routes = routes]
      BY <1>1, <1>4
  <2>6. IsConfig(c2) /\ c2.routes = routes /\ c2.skip = cfg.skip
      BY <2>5 DEF IsConfig
  <2> QED  BY <2>2, <2>4, <2>6 DEF Configured, c2
<1>5. CASE bad # {}
  <2>1. bad \in SUBSET Nat
      BY <1>3
  <2>2. \E i \in bad : \A j \in bad : i <= j
    <3> HIDE DEF bad
    <3> QED  BY <1>5, <2>1, LeastNumber
  <2>3. least \in bad
    <3> HIDE DEF bad
    <3> QED  BY <2>2
  <2>4. routes[least].result # "ok"
    <3> HIDE DEF least
    <3> QED  BY <2>3
  <2> HIDE DEF bad, least
  <2>5. c2 = [cfg EXCEPT !.result = routes[least].result]
      BY <1>1, <1>5
  <2>6. IsConfig(c2) /\ c2.result # "ok" /\ c2.routes = cfg.routes
      BY <2>4, <2>5 DEF IsConfig
  <2> QED  BY <2>6 DEF Configured, c2
<1> QED  BY <1>4, <1>5

\* The plugin ingress_sort sorts the routes if it is asked to.
LEMMA SortConfigures ==
    ASSUME NEW P, IsPluginList(P), NEW opts, NEW ings \in Seq(StoredIngresses), NEW cfg,
           IsConfig(cfg), cfg.result = "ok", cfg.routes \in Seq(GoodRoutes(P, ings))
    PROVE  Configured("ingress_sort", IngressSort(opts, cfg), cfg, P, opts, ings)
<1> DEFINE c2 == IngressSort(opts, cfg)
<1>1. CASE opts = NoOptions
  <2>1. c2 = [cfg EXCEPT !.result = "panic"]
      BY <1>1, Zenon DEF IngressSort
  <2> HIDE DEF c2
  <2>2. IsConfig(c2) /\ c2.result # "ok" /\ c2.routes = cfg.routes
      BY <2>1 DEF IsConfig
  <2> QED  BY <2>2 DEF Configured, c2
<1>2. CASE opts # NoOptions /\ ~opts.smartSort
  <2>1. c2 = cfg
      BY <1>2, Zenon DEF IngressSort
  <2> HIDE DEF c2
  <2> QED  BY <1>2, <2>1 DEF Configured, c2
<1>3. CASE opts # NoOptions /\ opts.smartSort
  <2> DEFINE a == cfg.routes
             b == StableSort(a, lessRoutes)
             n == Len(a)
             G == GoodRoutes(P, ings)
  <2>1. c2 = [cfg EXCEPT !.routes = b]
      BY <1>3, Zenon DEF IngressSort
  <2>2. RouteList(a, n)
      BY GoodRoutesAreRouteList
  <2>3. PICK f \in Bijection(1 .. n, 1 .. n) :
              /\ b = [k \in 1 .. n |-> a[f[k]]]
              /\ \A i, j \in 1 .. n : i < j => GoesBefore(a[f[i]], a[f[j]])
      BY <2>2, RoutesAreSorted
  <2>4. a \in Seq(G) /\ n \in Nat /\ DOMAIN a = 1 .. n /\ \A i \in 1 .. n : a[i] \in G
      OBVIOUS
  <2> HIDE DEF a, b, n, G, c2
  <2>5. /\ f \in [1 .. n -> 1 .. n]
        /\ \A i \in 1 .. n : \E k \in 1 .. n : f[k] = i
      BY Zenon DEF Bijection, Injection, Surjection
  <2>6. b \in Seq(G) /\ DOMAIN b = 1 .. n /\ \A k \in 1 .. n : b[k] = a[f[k]]
      BY <2>3, <2>4, <2>5
  <2>7. Sorted(b)
      BY <2>3, <2>6 DEF Sorted
  <2>8. ASSUME NEW r PROVE r \in ToSet(b) <=> r \in ToSet(a)
    <3>1. ASSUME r \in ToSet(b) PROVE r \in ToSet(a)
      <4>1. PICK k \in 1 .. n : b[k] = r
          BY <2>6, <3>1 DEF ToSet
      <4> QED  BY <2>4, <2>5, <2>6, <4>1 DEF ToSet
    <3>2. ASSUME r \in ToSet(a) PROVE r \in ToSet(b)
      <4>1. PICK i \in 1 .. n : a[i] = r
          BY <2>4, <3>2 DEF ToSet
      <4>2. PICK k \in 1 .. n : f[k] = i
          BY <2>5
      <4>3. b[k] = r
          BY <2>6, <4>1, <4>2
      <4> QED  BY <2>6, <4>3 DEF ToSet
    <3> QED  BY <3>1, <3>2
  <2>9. IsConfig(c2) /\ c2.routes = b /\ c2.skip = cfg.skip
      BY <2>1 DEF IsConfig
  <2> QED  BY <2>6, <2>7, <2>8, <2>9 DEF Configured, c2, a, G
<1> QED  BY <1>1, <1>2, <1>3

\* Every other plugin leaves the routes alone.
LEMMA OthersConfigure ==
    ASSUME NEW plugin, plugin \notin {"ingress", "ingress_sort"},
           NEW P, NEW opts, NEW ings, NEW cfg,
           IsConfig(cfg), cfg.result = "ok", cfg.routes \in Seq(GoodRoutes(P, ings))
    PROVE  Configured(plugin, GlobalHandler(plugin, P, opts, cfg, ings), cfg, P, opts, ings)
<1> DEFINE c2 == GlobalHandler(plugin, P, opts, cfg, ings)
<1> SUFFICES /\ IsConfig(c2) /\ c2.routes = cfg.routes
             /\ plugin = "tls" => c2.skip = TLSHosts(ings)
             /\ plugin # "tls" => c2.skip = cfg.skip
  <2> HIDE DEF c2
  <2> QED  BY DEF Configured, c2
<1>1. CASE plugin = "configmap"
  <2>1. c2 = ConfigMap(opts, cfg)
      BY <1>1, Zenon DEF GlobalHandler
  <2> HIDE DEF c2
  <2>2. CASE opts = NoOptions
    <3>1. c2 = [cfg EXCEPT !.result = "panic"]
        BY <2>1, <2>2 DEF ConfigMap
    <3> QED  BY <1>1, <3>1 DEF IsConfig
  <2>3. CASE opts # NoOptions
    <3>1. c2 = [cfg EXCEPT !.debug = opts.debug,
                     !.automation = IF opts.acme THEN "acme" ELSE @,
                     !.onDemand = opts.acme /\ opts.onDemandTLS,
                     !.proxyProtocol = opts.proxyProtocol]
        BY <2>1, <2>3, Zenon DEF ConfigMap
    <3> QED  BY <1>1, <3>1 DEF IsConfig
  <2> QED  BY <2>2, <2>3
<1>2. CASE plugin = "tls"
  <2>1. c2 = [cfg EXCEPT !.skip = TLSHosts(ings)]
      BY <1>2, Zenon DEF GlobalHandler, TLS, TLSHosts
  <2> HIDE DEF c2
  <2> QED  BY <1>2, <2>1 DEF IsConfig
<1>3. CASE plugin = "metrics"
  <2>1. c2 = Metrics(opts, cfg)
      BY <1>3, Zenon DEF GlobalHandler
  <2>2. \/ c2 = [cfg EXCEPT !.result = "panic"]
        \/ c2 = [cfg EXCEPT !.metricsRoutes = Append(@, "metrics")]
        \/ c2 = cfg
      BY <2>1, Zenon DEF Metrics
  <2> HIDE DEF c2
  <2> QED  BY <1>3, <2>2 DEF IsConfig
<1>4. CASE plugin = "healthz"
  <2>1. c2 = [cfg EXCEPT !.metricsRoutes = Append(@, "healthz")]
      BY <1>4, Zenon DEF GlobalHandler
  <2> HIDE DEF c2
  <2> QED  BY <1>4, <2>1 DEF IsConfig
<1>5. CASE plugin = "secrets_store"
  <2>1. c2 = [cfg EXCEPT !.storage = TRUE]
      BY <1>5, Zenon DEF GlobalHandler
  <2> HIDE DEF c2
  <2> QED  BY <1>5, <2>1 DEF IsConfig
<1>6. CASE plugin \notin {"configmap", "tls", "metrics", "healthz", "secrets_store"}
  <2>1. c2 = cfg
      BY <1>6, Zenon DEF GlobalHandler
  <2> HIDE DEF c2
  <2> QED  BY <1>6, <2>1
<1> QED  BY <1>1, <1>2, <1>3, <1>4, <1>5, <1>6

\* Every plugin keeps a configuration a configuration with good routes.
LEMMA HandlerConfigures ==
    ASSUME NEW plugin, NEW P, IsPluginList(P), NEW opts, NEW ings \in Seq(StoredIngresses),
           NEW cfg, IsConfig(cfg), cfg.result = "ok", cfg.routes \in Seq(GoodRoutes(P, ings))
    PROVE  Configured(plugin, GlobalHandler(plugin, P, opts, cfg, ings), cfg, P, opts, ings)
<1>1. CASE plugin = "ingress"
  <2>1. GlobalHandler(plugin, P, opts, cfg, ings) = IngressPlugin(P, cfg, ings)
      BY <1>1, Zenon DEF GlobalHandler
  <2> QED  BY <1>1, <2>1, IngressConfigures
<1>2. CASE plugin = "ingress_sort"
  <2>1. GlobalHandler(plugin, P, opts, cfg, ings) = IngressSort(opts, cfg)
      BY <1>2, Zenon DEF GlobalHandler
  <2> QED  BY <1>2, <2>1, SortConfigures
<1>3. CASE plugin \notin {"ingress", "ingress_sort"}
    BY <1>3, OthersConfigure
<1> QED  BY <1>1, <1>2, <1>3

\* In the default order the routes are made before they are sorted.
SortAfterIngress(P) ==
    \A i, j \in DOMAIN P : P[i] = "ingress" /\ P[j] = "ingress_sort" => i < j

\* What the configuration is after k plugins.
ConfigAfter(cfg, P, k, opts, ings) ==
    /\ IsConfig(cfg) /\ cfg.routes \in Seq(GoodRoutes(P, ings))
    /\ cfg.result = "ok" =>
          /\ Called(P, k, "ingress") => Complete(cfg.routes, P, ings)
          /\ SortAfterIngress(P) /\ opts.smartSort /\ Called(P, k, "ingress_sort") => Sorted(cfg.routes)
          /\ Called(P, k, "tls") => cfg.skip = TLSHosts(ings)

\* One plugin more.
LEMMA ConfigAfterNext ==
    ASSUME NEW P, IsPluginList(P), NEW k \in Nat, k + 1 \in DOMAIN P,
           NEW opts, NEW ings \in Seq(StoredIngresses), NEW cfg, ConfigAfter(cfg, P, k, opts, ings)
    PROVE  ConfigAfter(NextConfig(P[k + 1], P, opts, cfg, ings), P, k + 1, opts, ings)
<1> DEFINE c2 == NextConfig(P[k + 1], P, opts, cfg, ings)
<1>0. IsIteration(P) /\ IsConfig(cfg) /\ cfg.routes \in Seq(GoodRoutes(P, ings))
    BY DEF IsPluginList, ConfigAfter
<1>1. CASE cfg.result # "ok"
  <2>1. c2 = cfg
      BY <1>1 DEF NextConfig
  <2> HIDE DEF c2
  <2> QED  BY <1>0, <1>1, <2>1 DEF ConfigAfter, c2
<1>2. CASE cfg.result = "ok"
  <2>1. c2 = GlobalHandler(P[k + 1], P, opts, cfg, ings)
      BY <1>2 DEF NextConfig
  <2> HIDE DEF c2
  <2>2. Configured(P[k + 1], c2, cfg, P, opts, ings)
      BY <1>0, <1>2, <2>1, HandlerConfigures
  <2>3. IsConfig(c2) /\ c2.routes \in Seq(GoodRoutes(P, ings))
      BY <2>2 DEF Configured
  <2>4. /\ ~Called(P, k, P[k + 1])
        /\ \A p : Called(P, k + 1, p) <=> Called(P, k, p) \/ p = P[k + 1]
      BY <1>0, CalledNext
  <2>5. ASSUME c2.result = "ok", Called(P, k + 1, "ingress") PROVE Complete(c2.routes, P, ings)
    <3>1. CASE P[k + 1] = "ingress"
        BY <2>2, <2>5, <3>1 DEF Configured
    <3>2. CASE P[k + 1] # "ingress"
      <4>1. Complete(cfg.routes, P, ings)
          BY <1>2, <2>4, <2>5, <3>2 DEF ConfigAfter
      <4>2. \A r : r \in ToSet(c2.routes) <=> r \in ToSet(cfg.routes)
          BY <2>2, <2>5, <3>2 DEF Configured
      <4> QED  BY <4>1, <4>2 DEF Complete
    <3> QED  BY <3>1, <3>2
  <2>6. ASSUME c2.result = "ok", SortAfterIngress(P), opts.smartSort, Called(P, k + 1, "ingress_sort")
        PROVE  Sorted(c2.routes)
    <3>1. CASE P[k + 1] = "ingress_sort"
        BY <2>2, <2>6, <3>1 DEF Configured
    <3>2. CASE P[k + 1] # "ingress_sort"
      <4>1. Called(P, k, "ingress_sort")
          BY <2>4, <2>6, <3>2
      <4>2. P[k + 1] # "ingress"
        <5> SUFFICES ASSUME P[k + 1] = "ingress" PROVE FALSE
            OBVIOUS
        <5>1. PICK j \in 1 .. k : P[j] = "ingress_sort"
            BY <4>1 DEF Called
        <5>2. j \in DOMAIN P
            BY <5>1, AllAreCalled
        <5>3. k + 1 < j
            BY <2>6, <5>1, <5>2 DEF SortAfterIngress
        <5> QED  BY <5>1, <5>3
      <4>3. Sorted(cfg.routes)
          BY <1>2, <2>6, <4>1 DEF ConfigAfter
      <4>4. c2.routes = cfg.routes
          BY <2>2, <2>6, <3>2, <4>2 DEF Configured
      <4> QED  BY <4>3, <4>4
    <3> QED  BY <3>1, <3>2
  <2>7. ASSUME c2.result = "ok", Called(P, k + 1, "tls") PROVE c2.skip = TLSHosts(ings)
    <3>1. CASE P[k + 1] = "tls"
        BY <2>2, <2>7, <3>1 DEF Configured
    <3>2. CASE P[k + 1] # "tls"
        BY <1>2, <2>2, <2>4, <2>7, <3>2 DEF Configured, ConfigAfter
    <3> QED  BY <3>1, <3>2
  <2> QED  BY <2>3, <2>5, <2>6, <2>7 DEF ConfigAfter, c2
<1> QED  BY <1>1, <1>2

\* What the configuration is in the end.
LEMMA ConfigHas ==
    ASSUME NEW P, IsPluginList(P), NEW opts, NEW ings \in Seq(StoredIngresses)
    PROVE  LET cfg == RunPlugins(P, opts, ings)
           IN  /\ cfg.routes \in Seq(GoodRoutes(P, ings))
               /\ cfg.result = "ok" =>
                     /\ Complete(cfg.routes, P, ings)
                     /\ cfg.skip = TLSHosts(ings)
                     /\ SortAfterIngress(P) /\ opts.smartSort => Sorted(cfg.routes)
<1>1. DOMAIN P = 1 .. 11 /\ Len(P) = 11
    BY AllAreCalled
<1>3. PICK f : IsRun(f, P, opts, ings, 11) /\ RunPlugins(P, opts, ings) = f[11]
  <2>1. ASSUME NEW n \in Nat, Len(P) = n
        PROVE  \E f : IsRun(f, P, opts, ings, n) /\ RunPlugins(P, opts, ings) = f[n]
      BY <2>1, RunPluginsIs
  <2> QED  BY <1>1, <2>1
<1>4. /\ f[0] = NewConfig
      /\ \A k \in 1 .. 11 : f[k] = NextConfig(P[k], P, opts, f[k - 1], ings)
      /\ RunPlugins(P, opts, ings) = f[11]
    BY <1>3 DEF IsRun
<1> DEFINE S == {k \in 0 .. 11 : ConfigAfter(f[k], P, k, opts, ings)}
<1>5. 0 \in S
  <2>1. \A p : ~Called(P, 0, p)
      BY DEF Called
  <2>2. IsConfig(NewConfig) /\ NewConfig.routes = <<>>
      BY DEF NewConfig, IsConfig
  <2>3. <<>> \in Seq(GoodRoutes(P, ings))
      OBVIOUS
  <2>4. ConfigAfter(f[0], P, 0, opts, ings)
      BY <1>4, <2>1, <2>2, <2>3 DEF ConfigAfter
  <2> QED  BY <2>4
<1>6. ASSUME NEW k \in 0 .. 11, k \in S, k < 11 PROVE k + 1 \in S
  <2>1. k \in Nat /\ k + 1 \in 1 .. 11 /\ (k + 1) - 1 = k
      BY <1>6
  <2>2. f[k + 1] = NextConfig(P[k + 1], P, opts, f[k], ings)
      BY <1>4, <2>1
  <2>3. ConfigAfter(f[k + 1], P, k + 1, opts, ings)
      BY <1>1, <1>6, <2>1, <2>2, ConfigAfterNext
  <2> QED  BY <2>1, <2>3
<1> HIDE DEF S
<1>7. \A k \in 0 .. 11 : k \in S
    BY <1>5, <1>6, AllPlaces
<1>8. 11 \in S
    BY <1>7
<1>9. \A p \in {"ingress", "ingress_sort", "tls"} : Called(P, 11, p)
    BY AllAreCalled, NamesAre
<1> QED  BY <1>4, <1>8, <1>9 DEF S, ConfigAfter
-----------------------------------------------------------------------------
(* The properties of the configuration.                                    *)

\* The sorted plugins are a list.
LEMMA SortedIsList ==
    ASSUME NEW o, DOMAIN o \subseteq Nat, NEW it, IsIteration(it)
    PROVE  IsPluginList(Plugins(it, o))
<1> DEFINE P == Plugins(it, o)
<1>1. IsIteration(P)
    BY PluginsAreSorted
<1>2. DOMAIN P = 1 .. 11
    BY <1>1 DEF IsIteration, Alphabet
<1>3. \A k \in 1 .. 11 : P[k] \in Names
  <2>1. ToSet(P) = Names
      BY <1>1 DEF IsIteration, Names
  <2> HIDE DEF P
  <2> QED  BY <1>2, <2>1 DEF ToSet
<1>4. P = [k \in DOMAIN Alphabet |-> P[k]]
  <2> DEFINE e(k) == (CHOOSE p \in Placed(o) : p[1] = k)[2]
  <2>1. P = [k \in DOMAIN Alphabet |-> e(k)]
      BY PlacesOfPlugins
  <2> HIDE DEF P, e
  <2> QED  BY <2>1
<1>5. P = [k \in 1 .. 11 |-> P[k]]
  <2>1. DOMAIN Alphabet = 1 .. 11
      BY DEF Alphabet
  <2> HIDE DEF P
  <2> QED  BY <1>4, <2>1
<1> HIDE DEF P
<1>6. P \in [1 .. 11 -> Names]
    BY <1>3, <1>5
<1>7. P \in Seq(Names)
  <2>1. \A n \in Nat : \A s \in [1 .. n -> Names] : s \in Seq(Names)
      OBVIOUS
  <2>2. 11 \in Nat
      OBVIOUS
  <2> QED  BY <1>6, <2>1, <2>2, Zenon
<1> QED  BY <1>1, <1>7 DEF IsPluginList, P

\* The plugins in the default order.
LEMMA DefaultIsOrdered ==
    ASSUME NEW it, IsIteration(it)
    PROVE  HandlersOrdered(Plugins(it, DefaultOrder)) /\ SortAfterIngress(Plugins(it, DefaultOrder))
<1> DEFINE P == Plugins(it, DefaultOrder)
<1>1. \A i, j \in DOMAIN P :
                  \/ P[i] = "ingress" /\ P[j] = "ingress_sort"
                  \/ P[i] = "ingress.redirect" /\ P[j] \in {"ingress.rewrite", "ingress.reverseproxy"}
                  \/ P[i] \in {"ingress.rewrite", "ingress.matcher"} /\ P[j] = "ingress.reverseproxy"
                  => i < j
    BY DefaultOrderOfPlugins, DefaultNamesNone
<1> HIDE DEF P
<1> QED  BY <1>1 DEF HandlersOrdered, SortAfterIngress, P

\* The configuration is that of the store, which has ingresses of the cluster.
Inv ==
    /\ store \in Seq(StoredIngresses)
    /\ Converted

\* Adding an ingress leaves a list of ingresses.
LEMMA AddIngressType ==
    ASSUME NEW I, NEW ings \in Seq(I), NEW ing \in I
    PROVE  AddIngress(ings, ing) \in Seq(I)
BY DEF AddIngress

\* So does taking one out.
LEMMA PluckIngressType ==
    ASSUME NEW I, NEW ings \in Seq(I), NEW ing
    PROVE  PluckIngress(ings, ing) \in Seq(I)
<1> DEFINE M == Matches(ings, ing)
           first == CHOOSE i \in M : \A j \in M : i <= j
           c == [i \in 1 .. Len(ings) - 1 |-> IF i = first THEN ings[Len(ings)] ELSE ings[i]]
<1>1. CASE M = {}
    BY <1>1 DEF PluckIngress
<1>2. CASE M # {}
  <2>1. PluckIngress(ings, ing) = c
      BY <1>2 DEF PluckIngress
  <2>2. Len(ings) \in Nat /\ Len(ings) # 0 /\ \A i \in 1 .. Len(ings) : ings[i] \in I
      BY <1>2 DEF Matches
  <2>3. Len(ings) - 1 \in Nat /\ Len(ings) \in 1 .. Len(ings) /\ \A i \in 1 .. Len(ings) - 1 : i \in 1 .. Len(ings)
      BY <2>2
  <2> HIDE DEF first
  <2>4. c \in [1 .. Len(ings) - 1 -> I]
      BY <2>2, <2>3
  <2>5. c \in Seq(I)
    <3> HIDE DEF c
    <3> QED  BY <2>3, <2>4
  <2> QED  BY <2>1, <2>5
<1> QED  BY <1>1, <1>2

\* Every step keeps Inv.
LEMMA StepKeepsInv == Inv /\ [Next]_vars => Inv'
<1> SUFFICES ASSUME Inv, [Next]_vars PROVE store' \in Seq(StoredIngresses)
    BY StepConverts DEF Inv
<1>0. store \in Seq(StoredIngresses)
    BY DEF Inv
<1>1. ASSUME NEW u \in Uids, NEW body \in Bodies, SetIngress(u, body)
      PROVE  store' \in Seq(StoredIngresses)
  <2>1. Ingress(u, body) \in StoredIngresses
      BY DEF StoredIngresses
  <2> QED  BY <1>0, <1>1, <2>1, AddIngressType DEF SetIngress
<1>2. ASSUME NEW ing \in ToSet(store), DeleteIngress(ing) PROVE store' \in Seq(StoredIngresses)
    BY <1>0, <1>2, PluckIngressType DEF DeleteIngress
<1>3. CASE UNCHANGED vars
    BY <1>0, <1>3 DEF vars
<1> QED  BY <1>1, <1>2, <1>3 DEF Next

\* It holds from the start.
LEMMA InvHolds == Spec => []Inv
<1>1. Init => Inv
  <2>1. <<>> \in Seq(StoredIngresses)
      OBVIOUS
  <2> QED  BY <2>1 DEF Init, Inv, Converted
<1> QED  BY <1>1, StepKeepsInv, PTL DEF Spec

\* The configuration of a state: that of a list of plugins, run on the store.
LEMMA ConfigIs ==
    ASSUME Inv
    PROVE  /\ Rules = RulesOf(store)
           /\ \E P : /\ IsPluginList(P)
                     /\ order = DefaultOrder => HandlersOrdered(P) /\ SortAfterIngress(P)
                     /\ config.routes \in Seq(GoodRoutes(P, store))
                     /\ config.result = "ok" =>
                           /\ Complete(config.routes, P, store)
                           /\ config.skip = TLSHosts(store)
                           /\ SortAfterIngress(P) /\ options.smartSort => Sorted(config.routes)
<1>1. Rules = RulesOf(store)
    BY DEF Rules, RulesOf
<1>2. PICK it \in Iterations : config = ConvertToCaddyConfig(it, store)
    BY DEF Inv, Converted
<1>3. IsIteration(it) /\ DOMAIN order \subseteq Nat
    BY ConverterAssumption DEF Inv, Converted
<1> DEFINE P == Plugins(it, order)
<1>4. IsPluginList(P)
    BY <1>3, SortedIsList
<1>5. order = DefaultOrder => HandlersOrdered(P) /\ SortAfterIngress(P)
    BY <1>3, DefaultIsOrdered
<1>6. config = RunPlugins(P, options, store)
    BY <1>2 DEF ConvertToCaddyConfig
<1>7. store \in Seq(StoredIngresses)
    BY DEF Inv
<1> HIDE DEF P
<1>8. /\ config.routes \in Seq(GoodRoutes(P, store))
      /\ config.result = "ok" =>
            /\ Complete(config.routes, P, store)
            /\ config.skip = TLSHosts(store)
            /\ SortAfterIngress(P) /\ options.smartSort => Sorted(config.routes)
    BY <1>4, <1>6, <1>7, ConfigHas
<1> QED  BY <1>1, <1>4, <1>5, <1>8

\* A list has only members of its set.
LEMMA MembersAreOf ==
    ASSUME NEW T, NEW s \in Seq(T)
    PROVE  \A x \in ToSet(s) : x \in T
BY DEF ToSet

\* Every path has its route and every route its path, if the conversion succeeds.
LEMMA RoutesServeRules ==
    ASSUME Inv, config.result = "ok"
    PROVE  /\ \A t \in Rules : \E r \in ToSet(config.routes) : Serves(r, t)
           /\ \A r \in ToSet(config.routes) : \E t \in Rules : Serves(r, t)
<1>1. PICK P : /\ IsPluginList(P)
               /\ config.routes \in Seq(GoodRoutes(P, store))
               /\ Complete(config.routes, P, store)
    BY ConfigIs
<1>2. Rules = RulesOf(store) /\ store \in Seq(StoredIngresses)
    BY ConfigIs DEF Inv
<1>3. \A r \in ToSet(config.routes) : r \in GoodRoutes(P, store)
    BY <1>1, MembersAreOf
<1>4. ASSUME NEW r, NEW t, r.match = <<Matcher(t[1], t[2], t[3])>>,
             ProxyHandler(t[1].ann, t[3]) \in ToSet(r.handlers)
      PROVE  Serves(r, t)
    BY <1>4, HandlersDo DEF Serves
<1>5. ASSUME NEW t \in Rules PROVE \E r \in ToSet(config.routes) : Serves(r, t)
  <2> DEFINE r == RouteOf(P, t[1], t[2], t[3])
  <2>1. r \in ToSet(config.routes)
      BY <1>1, <1>2 DEF Complete
  <2>2. r.result = "ok"
    <3> HIDE DEF r
    <3> QED  BY <1>3, <2>1 DEF GoodRoutes
  <2>3. r.match = <<Matcher(t[1], t[2], t[3])>> /\ ProxyHandler(t[1].ann, t[3]) \in ToSet(r.handlers)
      BY <1>1, <2>2, RouteHas
  <2> HIDE DEF r
  <2> QED  BY <1>4, <2>1, <2>3
<1>6. ASSUME NEW r \in ToSet(config.routes) PROVE \E t \in Rules : Serves(r, t)
  <2>1. PICK t \in RulesOf(store) : /\ r.match = <<Matcher(t[1], t[2], t[3])>>
                                    /\ ProxyHandler(t[1].ann, t[3]) \in ToSet(r.handlers)
      BY <1>1, <1>2, <1>3, GoodRouteHas
  <2> QED  BY <1>2, <1>4, <2>1
<1> QED  BY <1>5, <1>6

\* No ingress is left out of a configuration, whatever the ingresses say, however the map
\* of plugins is iterated and whatever -plugins-order says: either a plugin fails, and
\* nothing is loaded, or the routes are exactly those of the paths of all ingresses.
THEOREM ConversionIsAllOrNothing == Spec => []AllOrNothing
<1>1. Inv => AllOrNothing
  <2> SUFFICES ASSUME Inv, config.result = "ok"
               PROVE  /\ \A t \in Rules : \E r \in ToSet(config.routes) : Serves(r, t)
                      /\ \A r \in ToSet(config.routes) : \E t \in Rules : Serves(r, t)
                      /\ \A ing \in ToSet(store) : ToSet(ing.tls) \subseteq config.skip
      BY Zenon DEF AllOrNothing
  <2>1. config.skip = TLSHosts(store)
      BY ConfigIs
  <2>2. \A ing \in ToSet(store) : ToSet(ing.tls) \subseteq TLSHosts(store)
    <3> SUFFICES ASSUME NEW ing \in ToSet(store) PROVE ToSet(ing.tls) \subseteq TLSHosts(store)
        OBVIOUS
    <3>1. PICK n \in DOMAIN store : store[n] = ing
        BY DEF ToSet
    <3> QED  BY <3>1, Zenon DEF TLSHosts
  <2> QED  BY <2>1, <2>2, RoutesServeRules
<1> QED  BY <1>1, InvHolds, PTL

\* With the default order of plugins every route of every configuration ends in its proxy
\* and redirects, if it does, before anything else: also the routes of a configuration of
\* which a later plugin has failed.
THEOREM ProxyIsLast == Spec => []ProxyLast
<1>1. Inv => ProxyLast
  <2> SUFFICES ASSUME Inv, order = DefaultOrder, NEW r \in ToSet(config.routes)
               PROVE  /\ r.handlers # <<>> /\ r.handlers[Len(r.handlers)].do = "proxy"
                      /\ \A i \in DOMAIN r.handlers : r.handlers[i].do = "redirect" => i = 1
      BY Zenon DEF ProxyLast
  <2>1. PICK P : /\ IsPluginList(P) /\ HandlersOrdered(P)
                 /\ config.routes \in Seq(GoodRoutes(P, store))
      BY ConfigIs
  <2>2. r \in GoodRoutes(P, store) /\ store \in Seq(StoredIngresses)
      BY <2>1, MembersAreOf DEF Inv
  <2> QED  BY <2>1, <2>2, GoodRouteHas
<1> QED  BY <1>1, InvHolds, PTL

\* No path of an ingress ends in a wildcard.
PlainPaths ==
    \A body \in Bodies : \A rule \in ToSet(body.rules) : \A path \in ToSet(rule.paths) : ~path.path.star

\* A rule of the store has such a path.
LEMMA RulesArePlain ==
    ASSUME PlainPaths, Inv, NEW t \in Rules
    PROVE  t[3] \in RulePaths /\ ~t[3].path.star
<1>1. store \in Seq(StoredIngresses) /\ t \in RulesOf(store)
    BY ConfigIs DEF Inv
<1>2. /\ t[1] \in StoredIngresses /\ t[3] \in RulePaths
      /\ t[2] \in ToSet(t[1].rules) /\ t[3] \in ToSet(t[2].paths)
    BY <1>1, RulesOfList
<1>3. PICK u \in Uids, body \in Bodies : t[1] = Ingress(u, body)
    BY <1>2 DEF StoredIngresses
<1>4. t[1].rules = body.rules
    BY <1>3 DEF Ingress
<1> QED  BY <1>2, <1>4 DEF PlainPaths

\* What it means that a rule covers a request, the case of letters ignored.
LEMMA PathsIgnoringCase ==
    ASSUME NEW path \in RulePaths, NEW q \in Requests
    PROVE  MatchesIgnoringCase(path, q) <=>
             IF path.type = "Prefix" THEN IsPrefix(LowerCase(path.path.elems), LowerCase(q.elems))
             ELSE /\ LowerCase(path.path.elems) = LowerCase(q.elems)
                  /\ path.path.slash = q.slash
<1> DEFINE low == [path EXCEPT !.path.elems = LowerCase(@)]
           low2 == [elems |-> LowerCase(q.elems), slash |-> q.slash]
<1>1. /\ low.type = path.type /\ low.path.elems = LowerCase(path.path.elems)
      /\ low.path.slash = path.path.slash
    BY DEF RulePaths, Texts
<1>2. low2.elems = LowerCase(q.elems) /\ low2.slash = q.slash
    OBVIOUS
<1>3. MatchesIgnoringCase(path, q) <=> KubernetesMatches(low, low2)
    BY DEF MatchesIgnoringCase
<1> HIDE DEF low, low2
<1> QED  BY <1>1, <1>2, <1>3 DEF KubernetesMatches

\* The patterns of a rule's path accept the requests that the path covers.
LEMMA PatternsOfRule ==
    ASSUME NEW path \in RulePaths, ~path.path.star, NEW q \in Requests
    PROVE  LET ps == MatchPath(path.path, path.type)
           IN  (ps = <<>> \/ \E p \in ToSet(ps) : PatternMatches(p, q))
                 <=> (path.path = NoPath \/ MatchesIgnoringCase(path, q))
<1> DEFINE e == path.path.elems
           s == path.path.slash
           text == [elems |-> e, slash |-> s, star |-> FALSE]
           asked == [elems |-> q.elems, slash |-> q.slash]
           ps == MatchPath(path.path, path.type)
<1>1. path.path \in Texts /\ path.type \in STRING
    BY DEF RulePaths
<1>2. e \in Seq(DOMAIN Width) /\ s \in BOOLEAN /\ path.path = text
    BY <1>1 DEF Texts
<1>3. q.elems \in Seq(DOMAIN Width) /\ q.slash \in BOOLEAN /\ (q.elems # <<>> \/ q.slash)
    BY ConverterAssumption
<1>4. \A p : PatternMatches(p, q) <=> PatternMatches(p, asked)
    BY DEF PatternMatches
<1>5. MatchesIgnoringCase(path, q) <=> MatchesIgnoringCase([path |-> text, type |-> path.type], asked)
  <2>1. MatchesIgnoringCase(path, q) <=>
          IF path.type = "Prefix" THEN IsPrefix(LowerCase(e), LowerCase(q.elems))
          ELSE LowerCase(e) = LowerCase(q.elems) /\ s = q.slash
      BY PathsIgnoringCase
  <2>2. MatchesIgnoringCase([path |-> text, type |-> path.type], asked) <=>
          IF path.type = "Prefix" THEN IsPrefix(LowerCase(e), LowerCase(q.elems))
          ELSE LowerCase(e) = LowerCase(q.elems) /\ s = q.slash
      BY DEF MatchesIgnoringCase, KubernetesMatches
  <2> QED  BY <2>1, <2>2
<1>6. LET pt == MatchPath(text, path.type)
      IN  (pt = <<>> \/ \E p \in ToSet(pt) : PatternMatches(p, asked))
            <=> (text = NoPath \/ MatchesIgnoringCase([path |-> text, type |-> path.type], asked))
    BY <1>1, <1>2, <1>3, PatternsCoverPaths
<1>7. MatchPath(text, path.type) = ps
    BY <1>2
<1> HIDE DEF text, asked, ps
<1> QED  BY <1>2, <1>4, <1>5, <1>6, <1>7, Zenon DEF ps

\* What the rule of Kubernetes says of a request, the case of letters ignored.
Covers(t, q) ==
    /\ t[1].ann.disableSSLRedirect = "true" \/ q.https
    /\ t[2].host \in {"", q.host}
    /\ t[3].path = NoPath \/ MatchesIgnoringCase(t[3], q)

\* The matcher of a rule accepts the requests that the rule covers.
LEMMA MatcherAccepts ==
    ASSUME NEW t, t[3] \in RulePaths, ~t[3].path.star, NEW q \in Requests
    PROVE  Accepts(Matcher(t[1], t[2], t[3]), q) <=> Covers(t, q)
<1> DEFINE m == Matcher(t[1], t[2], t[3])
           ps == MatchPath(t[3].path, t[3].type)
<1>1. m.https = (t[1].ann.disableSSLRedirect # "true") /\ m.host = t[2].host /\ m.paths = ps
    BY DEF Matcher
<1>2. (ps = <<>> \/ \E p \in ToSet(ps) : PatternMatches(p, q))
                 <=> (t[3].path = NoPath \/ MatchesIgnoringCase(t[3], q))
    BY PatternsOfRule
<1>3. (m.https => q.https) <=> (t[1].ann.disableSSLRedirect = "true" \/ q.https)
    BY <1>1
<1> HIDE DEF m, ps
<1> QED  BY <1>1, <1>2, <1>3, Zenon DEF Accepts, Covers, m

\* The requests a route accepts are those that the rule it serves covers.
LEMMA ServingAccepts ==
    ASSUME NEW r, NEW t, Serves(r, t), t[3] \in RulePaths, ~t[3].path.star, NEW q \in Requests
    PROVE  RouteAccepts(r, q) <=> Covers(t, q)
<1>1. ToSet(r.match) = {Matcher(t[1], t[2], t[3])}
    BY MembersOfShortLists DEF Serves
<1> QED  BY <1>1, MatcherAccepts, Zenon DEF RouteAccepts

\* A request is accepted by a route exactly when a rule of an ingress covers it, by the
\* rules of Kubernetes but for the case of letters, whatever the paths, types and hosts; a
\* path that ends in a wildcard, which Kubernetes does not know, is left to Caddy.
THEOREM RoutesCoverRules ==
    ASSUME PlainPaths
    PROVE  Spec => []CoversRules
<1>1. Inv => CoversRules
  <2> SUFFICES ASSUME Inv, config.result = "ok", NEW q \in Requests
               PROVE  Candidates(q) # {} <=> \E t \in Rules : Covers(t, q)
      BY Zenon DEF CoversRules, Covers
  <2>1. /\ \A t \in Rules : \E r \in ToSet(config.routes) : Serves(r, t)
        /\ \A r \in ToSet(config.routes) : \E t \in Rules : Serves(r, t)
      BY RoutesServeRules
  <2>2. \A t \in Rules : \A r : Serves(r, t) => (RouteAccepts(r, q) <=> Covers(t, q))
      BY RulesArePlain, ServingAccepts
  <2>3. Candidates(q) # {} <=> \E r \in ToSet(config.routes) : RouteAccepts(r, q)
      BY DEF Candidates, ToSet
  <2> QED  BY <2>1, <2>2, <2>3, Zenon
<1> QED  BY <1>1, InvHolds, PTL

\* Of two beginnings of a list the shorter one is a beginning of the longer.
LEMMA PrefixesNest ==
    ASSUME NEW E, NEW a \in Seq(E), NEW b \in Seq(E), NEW c \in Seq(E),
           IsPrefix(a, c), IsPrefix(b, c), Len(a) < Len(b)
    PROVE  IsPrefix(a, b)
<1> DEFINE m == Len(a)
           n == Len(b)
<1>1. m \in Nat /\ n \in Nat /\ m < n /\ n <= Len(c) /\ m <= Len(c) /\ Len(c) \in Nat
    BY DEF IsPrefix
<1>2. SubSeq(a, 1, m) = SubSeq(c, 1, m) /\ SubSeq(b, 1, n) = SubSeq(c, 1, n)
    BY DEF IsPrefix
<1>3. \A k \in 1 .. m : SubSeq(b, 1, m)[k] = b[k] /\ SubSeq(c, 1, m)[k] = c[k]
    BY <1>1
<1>4. \A k \in 1 .. n : SubSeq(b, 1, n)[k] = b[k] /\ SubSeq(c, 1, n)[k] = c[k]
    BY <1>1
<1>5. \A k \in 1 .. m : SubSeq(b, 1, m)[k] = SubSeq(c, 1, m)[k]
  <2>1. \A k \in 1 .. m : k \in 1 .. n
      BY <1>1
  <2> HIDE DEF m, n
  <2> QED  BY <1>2, <1>3, <1>4, <2>1
<1>6. SubSeq(b, 1, m) = SubSeq(c, 1, m)
  <2>1. /\ SubSeq(b, 1, m) \in Seq(E) /\ Len(SubSeq(b, 1, m)) = m
        /\ SubSeq(c, 1, m) \in Seq(E) /\ Len(SubSeq(c, 1, m)) = m
      BY <1>1
  <2> HIDE DEF m
  <2> QED  BY <1>5, <2>1
<1> QED  BY <1>1, <1>2, <1>6 DEF IsPrefix

\* How deep a route is that accepts a request.
LEMMA DepthOfRoute ==
    ASSUME NEW path \in RulePaths, ~path.path.star, NEW q \in Requests,
           path.path = NoPath \/ MatchesIgnoringCase(path, q),
           NEW r, FirstPath(r) = FirstText(path.path, path.type)
    PROVE  LET p == FirstPath(r)
           IN  /\ p \in Texts /\ Depth(r) \in Int /\ Class(r) \in 0 .. 2
               /\ Class(r) = 2 => Depth(r) = -1
               /\ Class(r) = 1 => Depth(r) = 0
               /\ Class(r) = 0 => /\ Depth(r) = Len(p.elems) /\ Len(p.elems) \in Nat
                                  /\ IsPrefix(LowerCase(p.elems), LowerCase(q.elems)) /\ ~p.star
<1> DEFINE p == FirstPath(r)
           text == path.path
           type == path.type
<1>1. text \in Texts
    BY DEF RulePaths
<1>2. /\ text.elems \in Seq(DOMAIN Width) /\ Len(text.elems) \in Nat
      /\ text.slash \in BOOLEAN /\ text.star = FALSE
    BY <1>1 DEF Texts
<1>3. /\ q.elems \in Seq(DOMAIN Width)
      /\ LowerCase(q.elems) \in Seq(DOMAIN Width) /\ LowerCase(text.elems) \in Seq(DOMAIN Width)
    BY <1>2, LowerCaseIs, ConverterAssumption
<1>4. p = FirstText(text, type) /\ p \in Texts
    BY <1>1, FirstTextIs
<1>5. CASE text = NoPath
  <2>1. p = NoPath
      BY <1>1, <1>4, <1>5, FirstTextIs
  <2>2. Class(r) = 2 /\ Depth(r) = -1
      BY <2>1 DEF Class, Depth
  <2> QED  BY <1>4, <2>2
<1>6. CASE text # NoPath /\ type # "Prefix"
  <2>1. p = text
      BY <1>1, <1>4, <1>6, FirstTextIs
  <2>2. LowerCase(text.elems) = LowerCase(q.elems)
      BY <1>6, PathsIgnoringCase
  <2>3. IsPrefix(LowerCase(text.elems), LowerCase(q.elems))
      BY <1>2, <1>3, <2>2, PrefixOfSameLength
  <2>4. Class(r) = 0 /\ Depth(r) = Len(text.elems)
      BY <1>2, <1>6, <2>1 DEF Class, Depth
  <2> HIDE DEF p, text
  <2> QED  BY <1>2, <1>4, <2>1, <2>3, <2>4 DEF p
<1>7. CASE text # NoPath /\ type = "Prefix" /\ TrimSlash(text) = NoPath
  <2>1. p = Below(text)
      BY <1>1, <1>4, <1>7, FirstTextIs
  <2>2. text.elems = <<>>
      BY <1>1, <1>7 DEF TrimSlash, NoPath, Texts
  <2>3. Below(text).elems = <<>> /\ Below(text).star
      BY <1>1, <2>2 DEF Below, Texts
  <2>4. ~NoPath.star
      BY DEF NoPath
  <2> HIDE DEF p, text
  <2>5. p # NoPath /\ p.star /\ Len(p.elems) = 0
      BY <2>1, <2>3, <2>4
  <2>6. Class(r) = 1 /\ Depth(r) = 0
      BY <2>5 DEF Class, Depth, p
  <2> QED  BY <1>4, <2>6 DEF p
<1>8. CASE text # NoPath /\ type = "Prefix" /\ TrimSlash(text) # NoPath
  <2>1. p = TrimSlash(text)
      BY <1>1, <1>4, <1>8, FirstTextIs
  <2>2. TrimSlash(text).elems = text.elems /\ ~TrimSlash(text).star
      BY <1>1, <1>2 DEF TrimSlash, Texts
  <2>3. IsPrefix(LowerCase(text.elems), LowerCase(q.elems))
      BY <1>8, PathsIgnoringCase
  <2> HIDE DEF p, text
  <2>4. Class(r) = 0 /\ Depth(r) = Len(text.elems)
      BY <1>8, <2>1, <2>2 DEF Class, Depth, p
  <2> QED  BY <1>2, <1>4, <2>1, <2>2, <2>3, <2>4 DEF p
<1> QED  BY <1>5, <1>6, <1>7, <1>8

\* Of two routes that accept a request the one that goes before the other is not less deep:
\* two paths of one class are, in lower case, beginnings of the request's, and an element more makes
\* a path longer than a slash does.
LEMMA FirstIsDeepest ==
    ASSUME NEW q \in Requests,
           NEW path \in RulePaths, ~path.path.star, path.path = NoPath \/ MatchesIgnoringCase(path, q),
           NEW r, FirstPath(r) = FirstText(path.path, path.type),
           NEW other \in RulePaths, ~other.path.star, other.path = NoPath \/ MatchesIgnoringCase(other, q),
           NEW s, FirstPath(s) = FirstText(other.path, other.type),
           GoesBefore(r, s)
    PROVE  Depth(s) <= Depth(r)
<1> DEFINE p == FirstPath(r)
           o == FirstPath(s)
<1>1. /\ p \in Texts /\ Depth(r) \in Int /\ Class(r) \in 0 .. 2
      /\ Class(r) = 2 => Depth(r) = -1
      /\ Class(r) = 1 => Depth(r) = 0
      /\ Class(r) = 0 => /\ Depth(r) = Len(p.elems) /\ Len(p.elems) \in Nat
                         /\ IsPrefix(LowerCase(p.elems), LowerCase(q.elems)) /\ ~p.star
    BY DepthOfRoute
<1>2. /\ o \in Texts /\ Depth(s) \in Int /\ Class(s) \in 0 .. 2
      /\ Class(s) = 2 => Depth(s) = -1
      /\ Class(s) = 1 => Depth(s) = 0
      /\ Class(s) = 0 => /\ Depth(s) = Len(o.elems) /\ Len(o.elems) \in Nat
                         /\ IsPrefix(LowerCase(o.elems), LowerCase(q.elems)) /\ ~o.star
    BY DepthOfRoute
<1>3. /\ Class(r) <= Class(s)
      /\ Class(r) = Class(s) => Length(o) <= Length(p)
    BY DEF GoesBefore
<1> HIDE DEF p, o
<1>4. CASE Class(r) = 0 /\ Class(s) = 0
  <2> SUFFICES ASSUME Len(p.elems) < Len(o.elems) PROVE FALSE
      BY <1>1, <1>2, <1>4
  <2>1. /\ p.elems \in Seq(DOMAIN Width) /\ o.elems \in Seq(DOMAIN Width)
        /\ q.elems \in Seq(DOMAIN Width)
      BY <1>1, <1>2, ConverterAssumption DEF Texts
  <2>2. IsPrefix(LowerCase(p.elems), LowerCase(o.elems))
    <3>1. /\ LowerCase(p.elems) \in Seq(DOMAIN Width) /\ Len(LowerCase(p.elems)) = Len(p.elems)
          /\ LowerCase(o.elems) \in Seq(DOMAIN Width) /\ Len(LowerCase(o.elems)) = Len(o.elems)
          /\ LowerCase(q.elems) \in Seq(DOMAIN Width)
        BY <2>1, LowerCaseIs
    <3> QED  BY <1>1, <1>2, <1>4, <3>1, PrefixesNest
  <2>3. ElemsLength(p.elems) + 2 <= ElemsLength(o.elems)
      BY <2>1, <2>2, LongerThanPrefix
  <2>4. /\ ElemsLength(p.elems) \in Nat /\ Length(p) \in Nat
        /\ Length(p) <= ElemsLength(p.elems) + 1
      BY <1>1, <1>4, TextsHaveLength
  <2>5. /\ ElemsLength(o.elems) \in Nat /\ Length(o) \in Nat
        /\ Length(o) >= ElemsLength(o.elems)
      BY <1>2, TextsHaveLength
  <2>6. Length(o) <= Length(p)
      BY <1>3, <1>4
  <2> QED  BY <2>3, <2>4, <2>5, <2>6
<1>5. CASE ~(Class(r) = 0 /\ Class(s) = 0)
    BY <1>1, <1>2, <1>3, <1>5
<1> QED  BY <1>4, <1>5

\* With experimentalSmartSort and the default order of plugins a request is answered by the
\* longest path that matches it, whatever the paths and in whatever order the events of the
\* cluster have left the store.
THEOREM LongestPathAnswers ==
    ASSUME PlainPaths
    PROVE  Spec => []LongestPathWins
<1>1. Inv => LongestPathWins
  <2> SUFFICES ASSUME Inv, config.result = "ok", options.smartSort, order = DefaultOrder,
                      NEW q \in Requests, NEW i \in Candidates(q)
               PROVE  Depth(config.routes[i]) <= Depth(config.routes[Answering(q)])
      BY Zenon DEF LongestPathWins
  <2> DEFINE a == Answering(q)
             routes == config.routes
  <2>1. PICK P : /\ IsPluginList(P)
                 /\ routes \in Seq(GoodRoutes(P, store))
                 /\ Sorted(routes)
      BY ConfigIs
  <2>2. store \in Seq(StoredIngresses) /\ Rules = RulesOf(store)
      BY ConfigIs DEF Inv
  <2>3. DOMAIN routes \subseteq Nat /\ Candidates(q) \in SUBSET Nat
      BY <2>1 DEF Candidates
  <2>4. a \in Candidates(q) /\ \A j \in Candidates(q) : a <= j
    <3>1. \E k \in Candidates(q) : \A j \in Candidates(q) : k <= j
        BY <2>3, LeastNumber
    <3> QED  BY <3>1 DEF Answering
  <2> HIDE DEF a
  <2>5. ASSUME NEW j \in Candidates(q)
        PROVE  /\ j \in DOMAIN routes
               /\ \E path \in RulePaths :
                     /\ ~path.path.star
                     /\ path.path = NoPath \/ MatchesIgnoringCase(path, q)
                     /\ FirstPath(routes[j]) = FirstText(path.path, path.type)
    <3>1. j \in DOMAIN routes /\ RouteAccepts(routes[j], q)
        BY <2>5 DEF Candidates
    <3>2. routes[j] \in ToSet(routes)
        BY <3>1 DEF ToSet
    <3>3. PICK t \in Rules : Serves(routes[j], t)
        BY <3>2, RoutesServeRules
    <3>4. t[3] \in RulePaths /\ ~t[3].path.star
        BY RulesArePlain
    <3>5. Covers(t, q)
        BY <3>1, <3>3, <3>4, ServingAccepts
    <3>6. FirstPath(routes[j]) = FirstText(t[3].path, t[3].type)
        BY <3>3, FirstPathIs DEF Serves
    <3> QED  BY <3>1, <3>4, <3>5, <3>6 DEF Covers
  <2> HIDE DEF routes
  <2>6. PICK path \in RulePaths : /\ ~path.path.star
                                  /\ path.path = NoPath \/ MatchesIgnoringCase(path, q)
                                  /\ FirstPath(routes[a]) = FirstText(path.path, path.type)
      BY <2>4, <2>5
  <2>7. PICK other \in RulePaths : /\ ~other.path.star
                                   /\ other.path = NoPath \/ MatchesIgnoringCase(other, q)
                                   /\ FirstPath(routes[i]) = FirstText(other.path, other.type)
      BY <2>5
  <2>8. CASE a = i
    <3>1. Depth(routes[i]) \in Int
        BY <2>7, DepthOfRoute
    <3> QED  BY <2>8, <3>1 DEF a, routes
  <2>9. CASE a # i
    <3>1. a < i /\ a \in DOMAIN routes /\ i \in DOMAIN routes
        BY <2>3, <2>4, <2>5, <2>9
    <3>2. GoesBefore(routes[a], routes[i])
        BY <2>1, <3>1 DEF Sorted
    <3>3. Depth(routes[i]) <= Depth(routes[a])
        BY <2>6, <2>7, <3>2, FirstIsDeepest
    <3> QED  BY <3>3 DEF a, routes
  <2> QED  BY <2>8, <2>9
<1> QED  BY <1>1, InvHolds, PTL
=============================================================================
