---------------------------- MODULE MCController ----------------------------
(* Small instances of Controller.                                          *)
EXTENDS Controller

Body(a, c, t) == [ann |-> a, cls |-> c, content |-> t]

\* An ingress of ours by its annotation, which the conversion refuses, and one whose
\* annotation overrides our class.
MixedBodies == {Body("caddy", "other", "conflict"), Body("other", "caddy", "r1")}

\* Ingresses that are all ours and convert.
OurBodies == {Body("", "caddy", "r1"), Body("caddy", "", "r2")}

\* No class at all: ours unless -class-name-required.
NoClassBodies == {Body("", "", "r1")}

Symmetry == Permutations(IngressNames)
=============================================================================
