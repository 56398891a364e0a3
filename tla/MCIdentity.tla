----------------------------- MODULE MCIdentity -----------------------------
(* Two accounts and two addresses, two calls at a time; one account may be    *)
(* suspended, and one may have its password replaced.                        *)
EXTENDS Identity, FiniteSets, TLC

Suspended == {a \in Account : Exists(a) /\ ~account[a].active}
Replaced == {a \in Account : account[a].pw = "new"}
MCSpec == Init /\ [][Next /\ Cardinality(Suspended') <= 1 /\ Cardinality(Replaced') <= 1]_vars

Symmetry == Permutations(Account) \cup Permutations(Address) \cup Permutations(Call)

\* No guard asks how a state was used up: states that differ only there have
\* the same future and one of them is explored.
View == <<account, store, used, proven, pc, job>>
=============================================================================
