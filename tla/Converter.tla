----------------------------- MODULE Converter -----------------------------
(***************************************************************************)
(* From the store to the configuration of Caddy (internal/caddy/convert.go *)
(* and the plugins of internal/caddy/global and internal/caddy/ingress),   *)
(* and what the routes of that configuration do with a request.            *)
(*                                                                         *)
(* A path is the sequence of its elements and says whether it ends in "/"; *)
(* a pattern may end in "/*" instead.  The length of an element is given   *)
(* by Width, its text in lower case by Lower; it has no wildcard, bracket, *)
(* brace or percent sign, which mean something to Caddy, and is no "..".   *)
(* Annotations are the fields of a record, "" when absent.                 *)
(***************************************************************************)
EXTENDS Integers, FiniteSets, SequencesExt, IngressStore, PluginOrder

CONSTANTS
    Uids,        \* ingresses
    Bodies,      \* what an ingress can say: [ann, rules, tls], tls being hosts
    OptionSets,  \* what the ConfigMap can say
    Orders,      \* values of -plugins-order
    Iterations,  \* orders in which the map of plugins may be iterated
    Width,       \* element of a path -> length of its text
    Lower,       \* element of a path -> strings.ToLower of it
    Requests     \* [https, host, elems, slash]

Texts == [elems : Seq(DOMAIN Width), slash : BOOLEAN, star : BOOLEAN]
RulePaths == [path : Texts, type : STRING, backend : STRING]
IngressRules == [host : STRING, http : BOOLEAN, paths : Seq(RulePaths)]

ASSUME ConverterAssumption ==
    /\ \A e \in DOMAIN Width : Width[e] \in Nat \ {0}
    /\ Lower \in [DOMAIN Width -> DOMAIN Width]
    /\ \A e \in DOMAIN Width : Width[Lower[e]] = Width[e]
    /\ \A o \in Orders : o \in Seq(STRING)
    /\ \A it \in Iterations : IsIteration(it)
    /\ \A body \in Bodies : body.rules \in Seq(IngressRules)
    /\ \A q \in Requests : /\ q.elems \in Seq(DOMAIN Width) /\ q.slash \in BOOLEAN
                           /\ q.elems # <<>> \/ q.slash

VARIABLES
    store,      \* the ingresses of resourceStore
    options,    \* resourceStore.ConfigMap
    order,      \* resourceStore.Options.PluginsOrder
    config      \* what ConvertToCaddyConfig made of the store

vars == <<store, options, order, config>>
-----------------------------------------------------------------------------
(* Paths and patterns.                                                     *)

NoPath == [elems |-> <<>>, slash |-> FALSE, star |-> FALSE]   \* ""
Root == [elems |-> <<>>, slash |-> TRUE, star |-> FALSE]      \* "/"

\* strings.TrimSuffix(path, "/")
TrimSlash(p) == [p EXCEPT !.slash = FALSE]

\* path + "/*"
Below(p) == [p EXCEPT !.slash = FALSE, !.star = TRUE]

\* The length of the elements, each after a slash.
ElemsLength(elems) ==
    LET upTo[k \in 0 .. Len(elems)] == IF k = 0 THEN 0 ELSE upTo[k - 1] + 1 + Width[elems[k]]
    IN  upTo[Len(elems)]

\* len(path)
Length(p) == ElemsLength(p.elems) + (IF p.slash THEN 1 ELSE 0) + (IF p.star THEN 2 ELSE 0)

LowerCase(elems) == [k \in DOMAIN elems |-> Lower[elems[k]]]

\* Caddy's MatchPath for one pattern (external): the same text or, with "/*", any text that
\* goes on after the slash.  Pattern and path are both compared in lower case.
PatternMatches(p, q) ==
    LET pattern == LowerCase(p.elems)
        asked   == LowerCase(q.elems)
    IN  IF p.star THEN /\ IsPrefix(pattern, asked)
                       /\ Len(asked) > Len(pattern) \/ q.slash
                  ELSE pattern = asked /\ p.slash = q.slash
-----------------------------------------------------------------------------
(* The ingress plugins: each takes a route and returns it with a matcher   *)
(* or handlers added, or refuses the ingress.                              *)

\* An error of a plugin, and a nil pointer it dereferences, end the conversion.
Refused == [result |-> "error"]
Panicked == [result |-> "panic"]

NewRoute == [result |-> "ok", match |-> <<>>, handlers |-> <<>>]

\* Faulty variant of MatchPath: a prefix stands for what is below it only.
MatchPath_without_itself(path, type) ==
    CASE path = NoPath                            -> <<>>
      [] path # NoPath /\ type = "Prefix"         -> <<Below(path)>>
      [] path # NoPath /\ type # "Prefix"         -> <<path>>

\* The patterns of the path matcher; none for an empty path.
MatchPath(path, type) ==
    CASE path = NoPath                            -> <<>>
      [] path # NoPath /\ type # "Prefix"         -> <<path>>
      [] path # NoPath /\ type = "Prefix" /\ TrimSlash(path) = NoPath -> <<Below(path)>>
      [] path # NoPath /\ type = "Prefix" /\ TrimSlash(path) # NoPath
            -> <<TrimSlash(path), Below(path)>>

\* ingress.matcher
Matcher(ing, rule, path) ==
    [https |-> ing.ann.disableSSLRedirect # "true",
     host  |-> rule.host,
     paths |-> MatchPath(path.path, path.type)]

WithHandlers(route, hs) == [route EXCEPT !.handlers = @ \o hs]

If(c, handler) == IF c THEN <<handler>> ELSE <<>>

\* ingress.rewrite
Rewrite(route, ann) ==
    WithHandlers(route,
        If(ann.rewriteTo # "", [do |-> "rewrite", to |-> ann.rewriteTo])
        \o If(ann.stripPrefix # "", [do |-> "strip", to |-> ann.stripPrefix]))

\* ingress.redirect.  The code is <<>> or <<n>>; n = -1 is no number.
RedirectRefuses(ann) ==
    \/ ann.permanent # "" /\ ann.temporal # ""
    \/ /\ ann.permanent # ""
       /\ \E n \in ToSet(ann.code) : n < 300 \/ (n > 399 /\ n # 401)

Redirect(route, ann) ==
    CASE RedirectRefuses(ann) -> Refused
      [] ~RedirectRefuses(ann) /\ ann.permanent # "" ->
            WithHandlers(route, <<[do |-> "redirect", to |-> ann.permanent,
                                   code |-> IF ann.code = <<>> THEN 301 ELSE ann.code[1]]>>)
      [] ~RedirectRefuses(ann) /\ ann.temporal # "" ->
            WithHandlers(route, <<[do |-> "redirect", to |-> ann.temporal, code |-> 302]>>)
      [] ann.permanent = "" /\ ann.temporal = "" -> route

\* A backend that is another resource than a service: Backend.Service is nil.
Resource == "resource"

\* ingress.reverseproxy.  trustedProxies is "", "valid" or "invalid".
ReverseProxy(route, ann, path) ==
    CASE path.backend = Resource -> Panicked
      [] path.backend # Resource /\ ann.trustedProxies = "invalid" -> Refused
      [] OTHER ->
            WithHandlers(route,
                <<[do |-> "proxy", to |-> path.backend,
                   tls |-> IF ann.backendProtocol # "https" THEN "off"
                           ELSE IF ann.insecureSkipVerify \in {"", "true"}
                                THEN "unverified" ELSE "verified",
                   trusted |-> ann.trustedProxies]>>)

IngressHandler(plugin, route, ing, rule, path) ==
    CASE plugin = "ingress.matcher"
            -> [route EXCEPT !.match = Append(@, Matcher(ing, rule, path))]
      [] plugin = "ingress.rewrite"      -> Rewrite(route, ing.ann)
      [] plugin = "ingress.redirect"     -> Redirect(route, ing.ann)
      [] plugin = "ingress.reverseproxy" -> ReverseProxy(route, ing.ann, path)
      [] OTHER                           -> route
-----------------------------------------------------------------------------
(* The global plugins: each takes the configuration and returns it with    *)
(* its part added.                                                         *)

NoOptions == [nil |-> TRUE]

NewConfig == [result |-> "ok", debug |-> FALSE, automation |-> "default", onDemand |-> FALSE,
              proxyProtocol |-> FALSE, storage |-> FALSE, skip |-> {}, routes |-> <<>>,
              metricsRoutes |-> <<>>]

\* ConfigMapPlugin: the automation policy, and on-demand TLS with it, is only
\* there when a CA or an email is given.
ConfigMap(opts, cfg) ==
    IF opts = NoOptions THEN [cfg EXCEPT !.result = "panic"]
    ELSE [cfg EXCEPT !.debug = opts.debug,
                     !.automation = IF opts.acme THEN "acme" ELSE @,
                     !.onDemand = opts.acme /\ opts.onDemandTLS,
                     !.proxyProtocol = opts.proxyProtocol]

\* The plugins handle a path in turn; the first that does not return a route
\* is the last that is called.
RouteOf(plugins, ing, rule, path) ==
    LET upTo[k \in 0 .. Len(plugins)] ==
            IF k = 0 THEN NewRoute
            ELSE LET r == upTo[k - 1]
                 IN  IF r.result # "ok" THEN r
                     ELSE IngressHandler(plugins[k], r, ing, rule, path)
    IN  upTo[Len(plugins)]

\* The routes of one ingress, in the order of its rules and paths.  A rule
\* without http has no paths to iterate over.
RoutesOf(plugins, ing) ==
    FlattenSeq([i \in DOMAIN ing.rules |->
        IF ~ing.rules[i].http THEN <<Panicked>>
        ELSE [j \in DOMAIN ing.rules[i].paths |->
                 RouteOf(plugins, ing, ing.rules[i], ing.rules[i].paths[j])]])

\* Faulty variant of IngressPlugin: what is refused is left out.
IngressPlugin_skips_refused(plugins, cfg, ings) ==
    LET routes == FlattenSeq([i \in DOMAIN ings |-> RoutesOf(plugins, ings[i])])
    IN  [cfg EXCEPT !.routes = SelectSeq(routes, LAMBDA r : r.result = "ok")]

\* The routes of all ingresses, unless one of them is refused or panics.
IngressPlugin(plugins, cfg, ings) ==
    LET routes == FlattenSeq([i \in DOMAIN ings |-> RoutesOf(plugins, ings[i])])
        bad    == {i \in DOMAIN routes : routes[i].result # "ok"}
    IN  IF bad = {} THEN [cfg EXCEPT !.routes = routes]
        ELSE [cfg EXCEPT !.result = routes[CHOOSE i \in bad : \A j \in bad : i <= j].result]

\* getFirstItemFromJSON of the path matcher of the first matcher set; the
\* empty string if there is none.
FirstPath(route) ==
    IF route.match[1].paths = <<>> THEN NoPath ELSE route.match[1].paths[1]

\* Faulty variant of lessRoutes: shorter paths first.
lessRoutes_shorter_first(r, s) ==
    LET i == FirstPath(r)
        j == FirstPath(s)
    IN  CASE i.star = j.star -> Length(j) > Length(i)
          [] i.star # j.star /\ NoPath \in {i, j} -> j = NoPath
          [] OTHER -> j.star

\* The order of sortRoutes.
lessRoutes(r, s) ==
    LET i == FirstPath(r)
        j == FirstPath(s)
    IN  CASE i.star = j.star -> Length(j) < Length(i)
          [] i.star # j.star /\ NoPath \in {i, j} -> j = NoPath
          [] OTHER -> j.star

IngressSort(opts, cfg) ==
    CASE opts = NoOptions -> [cfg EXCEPT !.result = "panic"]
      [] opts # NoOptions /\ opts.smartSort
            -> [cfg EXCEPT !.routes = StableSort(@, lessRoutes)]
      [] OTHER -> cfg

\* The hosts Caddy gets no certificates for, because the ingresses bring theirs.
TLS(cfg, ings) == [cfg EXCEPT !.skip = UNION {ToSet(ings[i].tls) : i \in DOMAIN ings}]

Metrics(opts, cfg) ==
    CASE opts = NoOptions -> [cfg EXCEPT !.result = "panic"]
      [] opts # NoOptions /\ opts.metrics
            -> [cfg EXCEPT !.metricsRoutes = Append(@, "metrics")]
      [] OTHER -> cfg

GlobalHandler(plugin, plugins, opts, cfg, ings) ==
    CASE plugin = "configmap"     -> ConfigMap(opts, cfg)
      [] plugin = "ingress"       -> IngressPlugin(plugins, cfg, ings)
      [] plugin = "ingress_sort"  -> IngressSort(opts, cfg)
      [] plugin = "tls"           -> TLS(cfg, ings)
      [] plugin = "metrics"       -> Metrics(opts, cfg)
      [] plugin = "healthz"       -> [cfg EXCEPT !.metricsRoutes = Append(@, "healthz")]
      [] plugin = "secrets_store" -> [cfg EXCEPT !.storage = TRUE]
      [] OTHER                    -> cfg

\* The global plugins in turn, until one fails.
RunPlugins(plugins, opts, ings) ==
    LET upTo[k \in 0 .. Len(plugins)] ==
            IF k = 0 THEN NewConfig
            ELSE LET cfg == upTo[k - 1]
                 IN  IF cfg.result # "ok" THEN cfg
                     ELSE GlobalHandler(plugins[k], plugins, opts, cfg, ings)
    IN  upTo[Len(plugins)]

\* iteration is the order in which the map of plugins is iterated.
ConvertToCaddyConfig(iteration, ings) == RunPlugins(Plugins(iteration, order), options, ings)
-----------------------------------------------------------------------------
(* The store changes and is converted again.                               *)

Init ==
    /\ store = <<>>
    /\ options \in OptionSets
    /\ order \in Orders
    /\ \E it \in Iterations : config = ConvertToCaddyConfig(it, store)

Ingress(u, body) == [uid |-> u, ann |-> body.ann, rules |-> body.rules, tls |-> body.tls]

SetIngress(u, body) ==
    /\ store' = AddIngress(store, Ingress(u, body))
    /\ \E it \in Iterations : config' = ConvertToCaddyConfig(it, store')
    /\ UNCHANGED <<options, order>>

DeleteIngress(ing) ==
    /\ store' = PluckIngress(store, ing)
    /\ \E it \in Iterations : config' = ConvertToCaddyConfig(it, store')
    /\ UNCHANGED <<options, order>>

Next ==
    \/ \E u \in Uids, body \in Bodies : SetIngress(u, body)
    \/ \E ing \in ToSet(store) : DeleteIngress(ing)

Spec == Init /\ [][Next]_vars
-----------------------------------------------------------------------------
(* Properties.                                                             *)

\* Does the matcher set accept the request?  (Caddy, external.)
Accepts(m, q) ==
    /\ m.https => q.https
    /\ m.host \in {"", q.host}
    /\ m.paths = <<>> \/ \E p \in ToSet(m.paths) : PatternMatches(p, q)

RouteAccepts(r, q) == \E m \in ToSet(r.match) : Accepts(m, q)

Candidates(q) == {i \in DOMAIN config.routes : RouteAccepts(config.routes[i], q)}

\* Caddy tries the routes in turn; the first that accepts the request and ends
\* in an answer decides.
Answering(q) == CHOOSE i \in Candidates(q) : \A j \in Candidates(q) : i <= j

\* The path of a rule, compared as Kubernetes does: a Prefix by elements, an
\* Exact one as it is.
KubernetesMatches(path, q) ==
    CASE path.type = "Prefix" -> IsPrefix(path.path.elems, q.elems)
      [] path.type # "Prefix" -> path.path.elems = q.elems /\ path.path.slash = q.slash

\* The same with the case of the letters ignored, as Caddy does and Kubernetes does not.
MatchesIgnoringCase(path, q) ==
    KubernetesMatches([path EXCEPT !.path.elems = LowerCase(@)],
                      [elems |-> LowerCase(q.elems), slash |-> q.slash])

\* The rules of the store, one entry per path.
Rules ==
    UNION {UNION {{<<ing, ing.rules[i], ing.rules[i].paths[j]>> :
                      j \in DOMAIN ing.rules[i].paths} :
                  i \in DOMAIN ing.rules} :
           ing \in ToSet(store)}

\* A request is accepted by some route exactly when some rule of some ingress of the store
\* covers it, by Kubernetes' rules for host, path and path type but for the case of the
\* letters of the path.  So whatever Kubernetes' rules cover is accepted; what is accepted
\* beyond them differs from a rule's path in the case of letters only.
CoversRules ==
    config.result = "ok" =>
        \A q \in Requests :
            Candidates(q) # {} <=>
                \E t \in Rules : /\ t[1].ann.disableSSLRedirect = "true" \/ q.https
                                 /\ t[2].host \in {"", q.host}
                                 /\ t[3].path = NoPath \/ MatchesIgnoringCase(t[3], q)

\* How specific a route is for the requests it accepts.
Depth(r) == IF FirstPath(r) = NoPath THEN -1 ELSE Len(FirstPath(r).elems)

\* With experimentalSmartSort and the default order of plugins a request goes to the
\* longest path that matches it, in whatever order the events of the cluster have left
\* the store.
LongestPathWins ==
    config.result = "ok" /\ options.smartSort /\ order = DefaultOrder =>
        \A q \in Requests : \A i \in Candidates(q) :
            Depth(config.routes[i]) <= Depth(config.routes[Answering(q)])

\* The route made for a rule's path.
Serves(r, t) ==
    /\ r.match = <<Matcher(t[1], t[2], t[3])>>
    /\ \E h \in ToSet(r.handlers) : h.do = "proxy" /\ h.to = t[3].backend

\* Either the conversion fails or every path of every ingress has its route, with the
\* host, path and backend it asked for, and there is no other route: no ingress is left
\* out, or takes over a part of another, however the plugins are ordered.
AllOrNothing ==
    config.result = "ok" =>
        /\ \A t \in Rules : \E r \in ToSet(config.routes) : Serves(r, t)
        /\ \A r \in ToSet(config.routes) : \E t \in Rules : Serves(r, t)
        /\ \A ing \in ToSet(store) : ToSet(ing.tls) \subseteq config.skip

\* With the default order of plugins a redirect answers before anything is proxied,
\* and the proxy is the last handler of every route, after the rewrites.
ProxyLast ==
    order = DefaultOrder =>
        \A r \in ToSet(config.routes) :
            /\ r.handlers # <<>> /\ r.handlers[Len(r.handlers)].do = "proxy"
            /\ \A i \in DOMAIN r.handlers : r.handlers[i].do = "redirect" => i = 1

\* The same store always gives the same configuration, however the map of plugins
\* is iterated; otherwise reloadCaddy would find a change, and reload, at any time.
Deterministic ==
    config.result = "ok" => config = ConvertToCaddyConfig(Alphabet, store)
=============================================================================
