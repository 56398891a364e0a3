-------------------------------- MODULE MCMfa --------------------------------
(* Mfa on a small instance.                                                  *)
EXTENDS Mfa, TLC

MCStart == {<<"dashboard", "retired">>, <<"platform", "current">>, <<"platform", "off">>}

\* What a request read is of no use to it once its transition was decided, what it
\* decided once it was written, and of a temp token only whether its stamp is the
\* epoch's: states that differ elsewhere have the same future and one of them is
\* explored.
Carried(r) ==
    CASE pc[r] \in {"release", "issue", "revoke", "bump"} -> <<>>
      [] pc[r] = "write" -> <<plan[r], r \in overran>>
      [] op[r] = "challenge" ->
            <<view[r].secret, view[r].key, IF pc[r] = "code" THEN view[r].codes ELSE {}, r \in overran>>
      [] OTHER -> <<data[r], r \in overran>>
View ==
    <<plane, mfa, setup, temp, {t \in temp : VerifyTemp(t)}, tu, rcu, lock, epoch, pc, op, cred, code,
      outlives, past, signedIn, [r \in Req |-> Carried(r)]>>

Symmetry ==
    Permutations(Req) \cup Permutations(Secret) \cup Permutations(Batch) \cup Permutations(Temp)
=============================================================================
