---------------------------- MODULE PluginOrder ----------------------------
(***************************************************************************)
(* pkg/converter/converter.go: the registered plugins and the order in     *)
(* which they run.  plugins is a Go map, which is iterated in any order.   *)
(***************************************************************************)
EXTENDS Integers, FiniteSets, SequencesExt

\* The names of the plugins of this program, in the order of "<" on strings.
Alphabet == <<"configmap", "healthz", "ingress", "ingress.matcher", "ingress.redirect",
              "ingress.reverseproxy", "ingress.rewrite", "ingress_sort", "metrics",
              "secrets_store", "tls">>

\* -plugins-order without a value: strings.Split gives one empty name.
DefaultOrder == <<"">>

Rank(name) == CHOOSE i \in DOMAIN Alphabet : Alphabet[i] = name

\* What each IngressPlugin() says of itself.
Priority(name) ==
    CASE name \in {"ingress.redirect", "ingress.rewrite"} -> 10
      [] name = "ingress_sort"                            -> -2
      [] name = "ingress.reverseproxy"                    -> -10
      [] name = "healthz"                                 -> -20
      [] OTHER                                            -> 0

\* Position of the plugin in the order of the command line, from 0, or -1.
getOrderIndex(order, name) ==
    LET found == {i \in DOMAIN order : order[i] = name}
    IN  IF found = {} THEN -1
        ELSE (CHOOSE i \in found : \A j \in found : i <= j) - 1

\* sort.SliceStable: of two elements the earlier goes first, unless the later is less.
StableSort(s, less(_, _)) ==
    LET first(i, j) == IF i < j THEN ~less(s[j], s[i]) ELSE less(s[i], s[j])
        placed == {<<Cardinality({j \in DOMAIN s : first(j, i)}) + 1, s[i]>> : i \in DOMAIN s}
    IN  [k \in DOMAIN s |-> (CHOOSE p \in placed : p[1] = k)[2]]

\* Faulty variant of lessPlugins: plugins of equal priority keep their places.
lessPlugins_without_names(order, p, q) ==
    IF getOrderIndex(order, p) # getOrderIndex(order, q)
    THEN getOrderIndex(order, p) > getOrderIndex(order, q)
    ELSE Priority(p) > Priority(q)

\* Faulty variant of lessPlugins: lower priorities go first.
lessPlugins_ascending(order, p, q) ==
    IF getOrderIndex(order, p) # getOrderIndex(order, q)
    THEN getOrderIndex(order, p) > getOrderIndex(order, q)
    ELSE IF Priority(p) # Priority(q) THEN Priority(p) < Priority(q)
    ELSE Rank(p) < Rank(q)

\* The order of sortPlugins.
lessPlugins(order, p, q) ==
    IF getOrderIndex(order, p) # getOrderIndex(order, q)
    THEN getOrderIndex(order, p) > getOrderIndex(order, q)
    ELSE IF Priority(p) # Priority(q) THEN Priority(p) > Priority(q)
    ELSE Rank(p) < Rank(q)

sortPlugins(names, order) == StableSort(names, LAMBDA p, q : lessPlugins(order, p, q))

\* The map has every plugin once, and is iterated in some order.
IsIteration(it) ==
    /\ DOMAIN it = DOMAIN Alphabet
    /\ ToSet(it) = ToSet(Alphabet)
    /\ \A i, j \in DOMAIN it : it[i] = it[j] => i = j

\* Plugins: the map is copied to a list, in the order iteration, and sorted.
Plugins(iteration, order) == sortPlugins(iteration, order)
=============================================================================
