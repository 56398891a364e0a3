-------------------------- MODULE MCSessionService --------------------------
(* SessionService on a small instance, under one of two workloads chosen at  *)
(* the start: simultaneous logins and nothing else, or one call at a time    *)
(* beside refreshes, logouts, failures and expiry.                           *)
EXTENDS SessionService, TLC

VARIABLE workload

MCInit == ServiceInit /\ workload \in {"logins", "mixed"}
MCNext ==
    /\ \/ workload = "logins" /\ LoginsNext
       \/ workload = "mixed" /\ ServiceNext /\ Cardinality(Busy') <= 1
    /\ UNCHANGED workload
MCSpec == MCInit /\ [][MCNext]_<<serviceVars, workload>>

\* When simultaneous logins have all enforced the cap, the account is within it,
\* whatever the interleaving of their listings and evictions.
LoginsSettle == workload = "logins" => CapSettles

Symmetry == Permutations(Hash) \cup Permutations(Family) \cup Permutations(Call)
=============================================================================
