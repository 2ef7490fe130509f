----------------------------- MODULE MCSessions -----------------------------
(* Sessions for TLC: processes and tokens are interchangeable.             *)
EXTENDS Sessions, TLC

Interchangeable == Permutations(Server) \cup Permutations(Token)
=============================================================================
