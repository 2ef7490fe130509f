----------------------------- MODULE SessionLife -----------------------------
(***************************************************************************)
(* What a session is to its holder: it does not exist, it lives, and when  *)
(* it has ended, by a logout, by age or with the secret it was made under, *)
(* it has ended for good.                                                  *)
(***************************************************************************)
CONSTANT Token

VARIABLE life  \* of the session that each token stands for

Init == life = [t \in Token |-> "unused"]

\* A login answered too late may hand out a session that is over.
Issue(t) ==
  /\ life[t] = "unused"
  /\ \E l \in {"live", "ended"} : life' = [life EXCEPT ![t] = l]

\* Sessions end one at a time or together.
End(S) ==
  /\ \A t \in S : life[t] = "live"
  /\ life' = [t \in Token |-> IF t \in S THEN "ended" ELSE life[t]]

Next == (\E t \in Token : Issue(t)) \/ (\E S \in SUBSET Token : End(S))

Spec == Init /\ [][Next]_life
=============================================================================
