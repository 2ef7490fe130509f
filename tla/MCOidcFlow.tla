----------------------------- MODULE MCOidcFlow -----------------------------
(* OidcFlow for TLC: what is drawn at random is interchangeable.           *)
EXTENDS OidcFlow, TLC

Interchangeable ==
  Permutations(Server) \cup Permutations(Flow) \cup Permutations(Callback)
    \cup Permutations(Browser)

\* Ann has an email address, and nobody else.
EmailOf == [u \in User |-> IF u = "ann" THEN "ann@" ELSE NoEmail]
=============================================================================
