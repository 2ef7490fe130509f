--------------------------- MODULE MCLoginThrottle ---------------------------
(* LoginThrottle for TLC: attempts and addresses are interchangeable.      *)
EXTENDS LoginThrottle, TLC

Interchangeable == Permutations(Attempt) \cup Permutations(Address)
=============================================================================
