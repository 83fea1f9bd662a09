--------------------------- MODULE MCCertFolder ---------------------------
(* Small instances of CertFolder.                                          *)
EXTENDS CertFolder

Says(ns, host, names) == [ns |-> ns, host |-> host, secrets |-> names]

\* An ingress names a secret, or none.
OneSpecs == {Says("a", "h1", <<"s1">>), Says("a", "h1", <<>>)}
=============================================================================
