------------------------------ MODULE MCRefresh ------------------------------
(* Refresh on a small instance; everything but the values of a record is     *)
(* interchangeable.  A third request presents the token the other two did,   *)
(* once one of them is over and while nobody has swept the account: the      *)
(* rotation, the grace answer and the reuse of one token are three requests. *)
EXTENDS Refresh, TLC

Begun == {r \in Req : tok[r] # NoHash}
SameToken == \A q, r \in Begun : tok[q] = tok[r]
Unswept == \A s \in Subject : sweeps[s] = 0
ThirdTime == SameToken /\ Unswept /\ Cardinality(InFlight) <= 2

MCSpec == RefreshInit /\ [][RefreshNext /\ (Cardinality(Begun') <= 2 \/ ThirdTime')]_refreshVars

Symmetry == Permutations(Hash) \cup Permutations(Family) \cup Permutations(Req)

\* Of a request that is over, only the token and the session it minted have a
\* reader, and of an epoch only that it has passed a stamp: states that differ
\* elsewhere have the same future and one of them is explored.
Stale(r) == pc[r] = "verify" /\ stamp[r] < epoch[Holder(r)]
Carried(r) == IF r \in InFlight THEN <<pc[r], seed[r], probe[r], owner[r], Stale(r)>> ELSE <<>>
View == <<vars, owed, sweeps, age, history, tok, minted, [r \in Req |-> Carried(r)]>>
=============================================================================
