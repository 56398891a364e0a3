---------------------------- MODULE KeyRotation ----------------------------
(***************************************************************************)
(* Rotating secrets under a running fleet: jwt.secret with                 *)
(* previous_secrets, identifier_key, and mfa.encryption_key with           *)
(* previous_encryption_keys.  Engines (config/validate.rs, the builder's   *)
(* wiring, token_manager's verify_rotating, the MFA service's ciphers)     *)
(* share one Redis and one repository and are restarted one at a time into *)
(* the configuration the operator wants next.                              *)
(*                                                                         *)
(* One account.  A derived key is named by the secret it derives from.     *)
(* The epoch's own lifetime is TokenEpoch's, and the races of MFA          *)
(* transitions under one configuration are Mfa's.                          *)
(***************************************************************************)
EXTENDS Naturals

CONSTANTS
    Engine,       \* processes
    Secret,       \* values of jwt.secret and identifier_key
    First,        \* the secret the deployment starts with
    Access,       \* access tokens outstanding at once
    MaxBumps,     \* bound on the token epoch
    MaxCipher     \* bound on mfa.encryption_key, numbered in order of use

ASSUME RotationAssumption ==
    /\ First \in Secret
    /\ MaxBumps \in Nat
    /\ MaxCipher \in Nat \ {0}

VARIABLES
    routine,      \* whether the operator pins identifier_key before rotating
    target,       \* the configuration being rolled out
    conf,         \* the one an engine runs with
    dropped,      \* history: secrets the operator removed from the list
    ep,           \* ep: of the account, under each of its names
    out,          \* unexpired access tokens
    signed,       \* the secret and the epoch an access token was signed with
    refused,      \* history: tokens a bump has refused
    digest,       \* the name a recovery-code digest was stored under
    cipher,       \* the key the stored TOTP secret is encrypted under
    opened        \* the key under which an engine's challenge opened it, or 0

operator == <<routine, target, dropped>>
tokens == <<out, signed, refused>>
factor == <<digest, cipher>>
rotationVars == <<operator, conf, ep, tokens, factor, opened>>

Plain == [secret |-> First, previous |-> {}, identifier |-> {}, key |-> 1, retired |-> {}]

RotationInit ==
    /\ routine \in BOOLEAN
    /\ target = Plain
    /\ conf = [e \in Engine |-> Plain]
    /\ dropped = {}
    /\ ep = [s \in Secret |-> 0]
    /\ out = {}
    /\ signed = [j \in Access |-> [secret |-> First, epoch |-> 0]]
    /\ refused = {}
    /\ digest = First
    /\ cipher = 1
    /\ opened = [e \in Engine |-> 0]

-----------------------------------------------------------------------------
(* What an engine makes of its configuration.                              *)

\* Mutant of the next: identifiers always derive from the signing secret.
NameSigning(c) == c.secret
\* ResolvedConfig::new: hmac_key, from identifier_key when it is set.
Name(c) == IF c.identifier = {} THEN c.secret ELSE CHOOSE s \in c.identifier : TRUE

\* verify_rotating: the current key, then each retired one.
Verifying(c) == {c.secret} \cup c.previous

\* Mutant of the next: a code is looked for under the current name only.
CandidatesCurrent(c) == {Name(c)}
\* recovery_code_candidates.
Candidates(c) == {Name(c)} \cup c.previous

\* decrypt_with_rotation.
Opening(c) == {c.key} \cup c.retired

\* The rules of validate() on retired values: none is the current one.
Valid(c) == c.secret \notin c.previous /\ c.key \notin c.retired

\* verify_access.
Accepts(c, j) ==
    /\ j \in out
    /\ signed[j].secret \in Verifying(c)
    /\ signed[j].epoch >= ep[Name(c)]

Current(e) == conf[e] = target
Settled == \A e \in Engine : Current(e)

-----------------------------------------------------------------------------
(* The operator, who starts a change once the one before is everywhere.    *)

Want(c) ==
    /\ Settled
    /\ Valid(c)
    /\ target' = c
    /\ UNCHANGED <<routine, conf, ep, tokens, factor, opened>>

\* "Once, set identifier_key to the value jwt.secret has now and deploy."
Pin ==
    /\ routine
    /\ target.identifier = {}
    /\ Want([target EXCEPT !.identifier = {target.secret}])
    /\ UNCHANGED dropped

\* The new secret in jwt.secret, the old one in previous_secrets.
RotateSecret(s) ==
    /\ s # target.secret
    /\ routine => target.identifier # {}
    /\ Want([target EXCEPT !.secret = s, !.previous = @ \cup {target.secret}])
    /\ dropped' = dropped \ {s}

\* A secret is dropped once its last token has expired.
Drop(s) ==
    /\ s \in target.previous
    /\ \A j \in out : signed[j].secret # s
    /\ Want([target EXCEPT !.previous = @ \ {s}])
    /\ dropped' = dropped \cup {s}

RotateCipher ==
    /\ target.key < MaxCipher
    /\ Want([target EXCEPT !.key = @ + 1, !.retired = @ \cup {target.key}])
    /\ UNCHANGED dropped

\* A retired key is dropped once nothing is stored under it.
DropCipher(k) ==
    /\ k \in target.retired
    /\ cipher # k
    /\ Want([target EXCEPT !.retired = @ \ {k}])
    /\ UNCHANGED dropped

\* An engine is restarted into the new configuration, losing what it had begun.
Restart(e) ==
    /\ ~Current(e)
    /\ conf' = [conf EXCEPT ![e] = target]
    /\ opened' = [opened EXCEPT ![e] = 0]
    /\ UNCHANGED <<operator, ep, tokens, factor>>

-----------------------------------------------------------------------------
(* The engines.                                                            *)

\* A login or a refresh: the epoch is read and the token signed.
Sign(e, j) ==
    /\ j \notin out
    /\ out' = out \cup {j}
    /\ signed' = [signed EXCEPT ![j] = [secret |-> conf[e].secret, epoch |-> ep[Name(conf[e])]]]
    /\ refused' = refused \ {j}
    /\ UNCHANGED <<operator, conf, ep, factor, opened>>

\* bump_epoch, for a revoke-all or a password reset.
BumpEpoch(e) ==
    /\ ep[Name(conf[e])] < MaxBumps
    /\ ep' = [ep EXCEPT ![Name(conf[e])] = @ + 1]
    /\ refused' = refused \cup out
    /\ UNCHANGED <<operator, conf, out, signed, factor, opened>>

\* The account enrols anew: its codes and its TOTP secret are written.
Enrol(e) ==
    /\ digest' = Name(conf[e])
    /\ cipher' = conf[e].key
    /\ UNCHANGED <<operator, conf, ep, tokens, opened>>

\* A challenge opens the stored secret, or is refused.
OpenFactor(e) ==
    /\ opened[e] = 0
    /\ cipher \in Opening(conf[e])
    /\ opened' = [opened EXCEPT ![e] = cipher]
    /\ UNCHANGED <<operator, conf, ep, tokens, factor>>

\* Mutant of the next: the record in the lock is not looked at again.
HoldsAlways(e) == TRUE
\* holds_challenged_secret: the record, read in the lock, still opens.
HoldsChallengedSecret(e) == cipher \in Opening(conf[e])

\* The code was right.  A recovery code is spliced out, and the record written
\* with the ciphertext that was read; either kind rewrites one that opened
\* under a retired key under the current one.
Finish(e) ==
    /\ opened[e] # 0
    /\ \E spliced \in BOOLEAN :
          cipher' = IF (spliced \/ opened[e] # conf[e].key) /\ HoldsChallengedSecret(e)
                    THEN IF opened[e] = conf[e].key THEN opened[e] ELSE conf[e].key
                    ELSE cipher
    /\ opened' = [opened EXCEPT ![e] = 0]
    /\ UNCHANGED <<operator, conf, ep, tokens, digest>>

\* The code was wrong, or a call failed.
GiveUp(e) ==
    /\ opened[e] # 0
    /\ opened' = [opened EXCEPT ![e] = 0]
    /\ UNCHANGED <<operator, conf, ep, tokens, factor>>

Expire(j) ==
    /\ j \in out
    /\ out' = out \ {j}
    /\ refused' = refused \ {j}
    /\ UNCHANGED <<operator, conf, ep, signed, factor, opened>>

RotationNext ==
    \/ Pin \/ RotateCipher
    \/ \E s \in Secret : RotateSecret(s) \/ Drop(s)
    \/ \E k \in target.retired : DropCipher(k)
    \/ \E e \in Engine :
          \/ Restart(e) \/ BumpEpoch(e) \/ Enrol(e) \/ OpenFactor(e) \/ Finish(e) \/ GiveUp(e)
          \/ \E j \in Access : Sign(e, j)
    \/ \E j \in Access : Expire(j)

RotationSpec == RotationInit /\ [][RotationNext]_rotationVars

-----------------------------------------------------------------------------
(* Properties.                                                             *)

\* A token refused by a bump stays refused at every engine through any number
\* of routine rotations, whichever engines have been restarted when it is
\* presented: the epoch keeps its name once identifier_key is pinned.
RefusedThroughRotation ==
    routine => \A e \in Engine, j \in refused : ~Accepts(conf[e], j)

\* Nobody is locked out by a rotation: at an engine that runs the wanted
\* configuration a token no bump refused is accepted (without the pin, as long
\* as nothing was bumped), a stored recovery code matches (without the pin,
\* until the secret its digest derives from is dropped), and the stored TOTP
\* secret opens.
NobodyIsLockedOut ==
    \A e \in Engine : Current(e) =>
        /\ routine \/ (\A s \in Secret : ep[s] = 0)
              => \A j \in out \ refused : Accepts(conf[e], j)
        /\ digest \in Candidates(conf[e]) \/ (~routine /\ digest \in dropped)
        /\ cipher \in Opening(conf[e])

\* A challenge never puts the TOTP secret back under an older key: one that
\* read it before a newer engine rewrote it finds, in the lock, a record it
\* cannot open.  So the keys of a rotation drain.
RekeyedForGood ==
    [][(\E e \in Engine : opened[e] # 0 /\ opened'[e] = 0) => cipher' >= cipher]_rotationVars
=============================================================================
