---------------------------- MODULE MCCredentials ----------------------------
(* Credentials on a small instance.  One-time codes are sent where the       *)
(* deployment's method is the code.                                          *)
EXTENDS Credentials, TLC

MCSpec == Init /\ [][Next /\ (method = "token" => ~code')]_vars

Symmetry == Permutations(Password) \cup Permutations(Req) \cup Permutations(Proof)

\* No guard reads the sessions or the epoch, so states that differ only there
\* have the same future and one of them is explored.
View == <<method, account, tokens, codes, pc, pw, read, proof, seen, detached>>
=============================================================================
