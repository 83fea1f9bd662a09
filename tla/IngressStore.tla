---------------------------- MODULE IngressStore ----------------------------
(***************************************************************************)
(* pkg/store/store.go: the list of ingresses the Caddy configuration is    *)
(* generated from.  An ingress is any record with a field uid; the list    *)
(* is a sequence, because the order of the Caddy routes follows it.        *)
(***************************************************************************)
EXTENDS Naturals, Sequences

\* The positions of the ingresses that have the UID of ing.
Matches(ings, ing) == {i \in DOMAIN ings : ings[i].uid = ing.uid}

\* Faulty variant of AddIngress: the isUniq check is forgotten.
AddIngress_always_appends(ings, ing) == Append(ings, ing)

\* Every element with the UID of ing is replaced in place; if there is none,
\* ing goes to the end.
AddIngress(ings, ing) ==
    IF Matches(ings, ing) # {}
    THEN [i \in DOMAIN ings |-> IF i \in Matches(ings, ing) THEN ing ELSE ings[i]]
    ELSE Append(ings, ing)

\* Faulty variant of PluckIngress: the slice is cut without the swap.
PluckIngress_no_swap(ings, ing) ==
    IF Matches(ings, ing) = {} THEN ings ELSE [i \in 1 .. Len(ings) - 1 |-> ings[i]]

\* The first element with the UID of ing is swapped with the last one and the
\* list is cut by one; a UID that is not there leaves the list alone.
PluckIngress(ings, ing) ==
    LET first == CHOOSE i \in Matches(ings, ing) :
                     \A j \in Matches(ings, ing) : i <= j
    IN  IF Matches(ings, ing) = {}
        THEN ings
        ELSE [i \in 1 .. Len(ings) - 1 |->
                 IF i = first THEN ings[Len(ings)] ELSE ings[i]]

\* No two elements have the same UID.
UniqueUids(ings) == \A i, j \in DOMAIN ings : ings[i].uid = ings[j].uid => i = j
=============================================================================
