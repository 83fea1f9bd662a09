---------------------------- MODULE MCConverter ----------------------------
(* Instances of Converter for model checking.                              *)
EXTENDS Converter

TwoUids == {"u1", "u2"}

\* Two iterations that differ in the order of any two plugins.
TwoIterations == {Alphabet, Reverse(Alphabet)}

Widths == [a |-> 1, A |-> 1, b |-> 3]
Lowers == [a |-> "a", A |-> "a", b |-> "b"]

Text(elems, slash) == [elems |-> elems, slash |-> slash, star |-> FALSE]
Path(text, type) == [path |-> text, type |-> type, backend |-> "service"]
NoAnn == [disableSSLRedirect |-> "", rewriteTo |-> "", stripPrefix |-> "", permanent |-> "",
          temporal |-> "", code |-> <<>>, trustedProxies |-> "", backendProtocol |-> "",
          insecureSkipVerify |-> ""]
Plain == [NoAnn EXCEPT !.disableSSLRedirect = "true"]
Rule(host, paths) == [host |-> host, http |-> TRUE, paths |-> paths]
Body(ann, rules) == [ann |-> ann, rules |-> rules, tls |-> <<>>]

\* Paths that lie under each other, of each type, with and without a host.
PathBodies ==
    {Body(Plain, <<Rule("", <<p>>)>>) :
        p \in {Path(Root, "Prefix"), Path(Text(<<"a">>, FALSE), "Prefix"),
               Path(Text(<<"a", "b">>, TRUE), "Prefix"), Path(Text(<<"a">>, TRUE), "Exact"),
               Path(Text(<<"A", "b">>, FALSE), "ImplementationSpecific")}}
    \cup {Body(NoAnn, <<Rule("h", <<Path(Text(<<"b">>, FALSE), "Prefix"),
                                    Path(Text(<<"a">>, FALSE), "Exact")>>),
                        Rule("", <<Path(NoPath, "ImplementationSpecific")>>)>>)}

PathRequests ==
    [https : BOOLEAN, host : {"h", "other"},
     elems : {<<>>, <<"a">>, <<"A">>, <<"b">>, <<"a", "A">>, <<"a", "b">>, <<"a", "b", "a">>},
     slash : BOOLEAN] \ [https : BOOLEAN, host : {"h", "other"}, elems : {<<>>}, slash : {FALSE}]

Options(smartSort) ==
    [debug |-> FALSE, acme |-> FALSE, onDemandTLS |-> FALSE, proxyProtocol |-> FALSE,
     smartSort |-> smartSort, metrics |-> FALSE]

\* Annotated ingresses, some of which no plugin can handle.
OneRule(backend) == <<Rule("", <<[Path(Root, "Prefix") EXCEPT !.backend = backend]>>)>>
AnnotatedBodies ==
    {[Body([NoAnn EXCEPT !.rewriteTo = "/x", !.stripPrefix = "/y", !.trustedProxies = "valid"],
           OneRule("service")) EXCEPT !.tls = <<"h", "h">>],
     Body([NoAnn EXCEPT !.permanent = "url", !.rewriteTo = "/x", !.backendProtocol = "https"],
          OneRule("service")),
     Body([NoAnn EXCEPT !.permanent = "url", !.code = <<401>>, !.backendProtocol = "https",
                        !.insecureSkipVerify = "false"], OneRule("other")),
     Body([NoAnn EXCEPT !.permanent = "url", !.code = <<502>>], OneRule("service")),
     Body([NoAnn EXCEPT !.permanent = "url", !.temporal = "url"], OneRule("service")),
     Body([NoAnn EXCEPT !.temporal = "url", !.code = <<502>>], OneRule("service")),
     Body([NoAnn EXCEPT !.trustedProxies = "invalid"], OneRule("service")),
     Body(NoAnn, OneRule(Resource)),
     Body(NoAnn, <<[host |-> "h", http |-> FALSE, paths |-> <<>>]>>)}

AllBodies == PathBodies \cup AnnotatedBodies

AnyOptions ==
    {NoOptions, Options(FALSE),
     [debug |-> TRUE, acme |-> TRUE, onDemandTLS |-> TRUE, proxyProtocol |-> TRUE,
      smartSort |-> TRUE, metrics |-> TRUE]}

SomeOrders ==
    {DefaultOrder, <<"ingress.reverseproxy">>, <<"healthz", "ingress_sort", "unknown">>}
=============================================================================
