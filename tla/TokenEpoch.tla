----------------------------- MODULE TokenEpoch -----------------------------
(***************************************************************************)
(* Revocation of stateless access tokens: the per-account epoch counter    *)
(* (ep:/pep:), the jti blacklist (rv:) and the check verify_access makes   *)
(* on every request.  Sources: token_manager.rs (issue_tokens,             *)
(* rotated_claims, verify_access, revoke_access) and the epoch and         *)
(* blacklist commands of the Redis session store.                          *)
(*                                                                         *)
(* Residual lifetimes count down with Tick; 0 is "no such key" or "token   *)
(* expired".  Signing follows the epoch reply with no await in between, so *)
(* a reply is used in the time unit it was read in (Tick waits for it);    *)
(* other commands may still come between the read and the signature.       *)
(***************************************************************************)
EXTENDS Naturals

CONSTANTS
    Subject,     \* accounts
    Jti,         \* access-token ids; one is used once
    AccessTtl,   \* jwt.access_expires_in
    EpochTtl,    \* TOKEN_EPOCH_RETENTION_SECS
    MaxEpoch,    \* bound on the counter
    NoRead       \* no epoch read is in flight

\* Startup validation, rule 4b: the boundary itself is legal.
ASSUME LifetimeAssumption ==
    /\ AccessTtl \in Nat
    /\ EpochTtl \in Nat \ {0}
    /\ AccessTtl <= EpochTtl
    /\ MaxEpoch \in Nat
    /\ NoRead \notin Nat

VARIABLES
    ep,       \* value of ep:s; 0 while the key does not exist
    epTtl,    \* residual lifetime of ep:s
    read,     \* the epoch an issuance has read and not yet signed
    sub,      \* the account a token id was issued for
    stamp,    \* the epoch claim of a signed token
    life,     \* residual lifetime of a signed token; 0 before and after
    rv,       \* residual lifetime of rv:jti
    lapsed    \* history: tokens whose account's ep: key expired since the read

vars == <<ep, epTtl, read, sub, stamp, life, rv, lapsed>>

TypeOK ==
    /\ ep \in [Subject -> 0..MaxEpoch]
    /\ epTtl \in [Subject -> 0..EpochTtl]
    /\ read \in [Jti -> Nat \cup {NoRead}]
    /\ sub \in [Jti -> Subject]
    /\ stamp \in [Jti -> Nat \cup {NoRead}]
    /\ life \in [Jti -> 0..AccessTtl]
    /\ rv \in [Jti -> 0..AccessTtl]
    /\ lapsed \in SUBSET Jti

\* Which account an id will serve is settled when the id is generated.
Init ==
    /\ ep = [s \in Subject |-> 0]
    /\ epTtl = [s \in Subject |-> 0]
    /\ read = [j \in Jti |-> NoRead]
    /\ sub \in [Jti -> Subject]
    /\ stamp = [j \in Jti |-> NoRead]
    /\ life = [j \in Jti |-> 0]
    /\ rv = [j \in Jti |-> 0]
    /\ lapsed = {}

\* current_epoch_inner: an absent key reads 0.
CurrentEpoch(s) == ep[s]

\* verify_access: signature and expiry, then the blacklist, then the epoch.
Accepted(j) == life[j] > 0 /\ rv[j] = 0 /\ ~(stamp[j] < CurrentEpoch(sub[j]))
Signed(j) == stamp[j] # NoRead

\* issue_tokens and reissue_tokens read the epoch ...
ReadEpoch(j) ==
    /\ read[j] = NoRead
    /\ ~Signed(j)
    /\ read' = [read EXCEPT ![j] = CurrentEpoch(sub[j])]
    /\ UNCHANGED <<ep, epTtl, sub, stamp, life, rv, lapsed>>

\* ... and sign claims stamped with it, valid from now for AccessTtl.
Sign(j) ==
    /\ read[j] # NoRead
    /\ read' = [read EXCEPT ![j] = NoRead]
    /\ stamp' = [stamp EXCEPT ![j] = read[j]]
    /\ life' = [life EXCEPT ![j] = AccessTtl]
    /\ UNCHANGED <<ep, epTtl, sub, rv, lapsed>>

\* Mutant: EXPIRE only when INCR creates the key.
BumpEpochArmOnce(s) ==
    /\ ep[s] < MaxEpoch
    /\ ep' = [ep EXCEPT ![s] = @ + 1]
    /\ epTtl' = [epTtl EXCEPT ![s] = IF @ = 0 THEN EpochTtl ELSE @]
    /\ UNCHANGED <<read, sub, stamp, life, rv, lapsed>>

\* bump_epoch_inner: INCR and EXPIRE in one MULTI/EXEC.
BumpEpoch(s) ==
    /\ ep[s] < MaxEpoch
    /\ ep' = [ep EXCEPT ![s] = @ + 1]
    /\ epTtl' = [epTtl EXCEPT ![s] = EpochTtl]
    /\ UNCHANGED <<read, sub, stamp, life, rv, lapsed>>

\* logout blacklists the jti for the token's residual lifetime; a lapsed token
\* has none left and writes nothing (blacklist_access_inner).
ResidualLessOne(j) == IF life[j] > 0 THEN life[j] - 1 ELSE 0   \* mutant
Residual(j) == life[j]
RevokeAccess(j) ==
    /\ Signed(j)
    /\ rv' = IF Residual(j) = 0 THEN rv ELSE [rv EXCEPT ![j] = Residual(j)]
    /\ UNCHANGED <<ep, epTtl, read, sub, stamp, life, lapsed>>

Dec(t) == IF t > 0 THEN t - 1 ELSE 0
Lapses(s) == epTtl[s] = 1

Tick ==
    /\ \A j \in Jti : read[j] = NoRead
    /\ epTtl' = [s \in Subject |-> Dec(epTtl[s])]
    /\ ep' = [s \in Subject |-> IF epTtl[s] > 1 THEN ep[s] ELSE 0]
    /\ life' = [j \in Jti |-> Dec(life[j])]
    /\ rv' = [j \in Jti |-> Dec(rv[j])]
    /\ lapsed' = lapsed \cup {j \in Jti : Signed(j) /\ Lapses(sub[j])}
    /\ UNCHANGED <<read, sub, stamp>>

Next ==
    \/ \E j \in Jti : ReadEpoch(j) \/ Sign(j) \/ RevokeAccess(j)
    \/ \E s \in Subject : BumpEpoch(s)
    \/ Tick

Spec == Init /\ [][Next]_vars

-----------------------------------------------------------------------------
\* A signed token that verify_access refuses (blacklisted, below the epoch, or
\* expired) is never accepted again: rv: lives as long as the token, and a bump
\* re-arms ep: for at least an access lifetime, so neither record of the
\* revocation expires before the token does.
RefusedStaysRefused ==
    [][\A j \in Jti : (Signed(j) /\ ~Accepted(j)) => ~Accepted(j)']_vars

\* A bump refuses every token of the account signed before it, unless ep: expired
\* since the token was signed (bump_epoch_inner, verify_access).
BumpRefusesEarlier ==
    [][\A s \in Subject, j \in Jti :
          (BumpEpoch(s) /\ sub[j] = s /\ Signed(j) /\ j \notin lapsed) => ~Accepted(j)']_vars

=============================================================================
