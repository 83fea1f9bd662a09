---------------------------- MODULE MCStatusSync ----------------------------
(* Small instances of StatusSync.                                          *)
EXTENDS StatusSync

Svc(t, sel, a, ip) == [type |-> t, selector |-> sel, addr |-> a, isIP |-> ip]

Pod == {<<1, 1>>}

\* A load balancer that selects the pods, before and after it has an address,
\* and a NodePort and a cluster service next to it.
Balancer(a) == Svc("LoadBalancer", Pod, a, TRUE)

Lists == {<<Balancer(0), Svc("NodePort", Pod, 5, TRUE)>>,
          <<Balancer(9), Svc("ExternalName", Pod, 3, FALSE), Svc("ClusterIP", {<<1, 2>>}, 4, TRUE)>>}

OneBalancer == {<<Balancer(9)>>}
=============================================================================
