--------------------------------- MODULE Mfa ---------------------------------
(***************************************************************************)
(* MfaService: enrolment, challenge, recovery codes and the management     *)
(* operations of one account's second factor.  The record is the host's:   *)
(* mfa_enabled, the sealed secret and the recovery-code digests, read and  *)
(* replaced wholesale; the pending setup, the temp tokens, the anti-replay *)
(* markers, the recovery claims and the transition lock are the store's.   *)
(*                                                                         *)
(* An operation is a process: every await on the store or the repository   *)
(* ends a step, and what was read before it is kept in the request's local *)
(* state.  Failure counters are left to Lockout: a locked identifier, a    *)
(* blocked account, a failed re-authentication and a store error are all   *)
(* early returns, Fail below.                                              *)
(***************************************************************************)
EXTENDS Integers, FiniteSets

CONSTANTS
    Req,         \* request slots; a slot serves one request after another
    Secret,      \* TOTP secrets
    Batch,       \* recovery-code sets
    Temp,        \* MFA temp tokens
    None,
    Start,       \* planes and states of the factor to start from
    CodeCount,   \* recovery codes per set
    Window,      \* totp_window
    TotpCount,   \* bound: TOTP codes of a secret
    MaxEpoch,    \* bound: token epochs
    MaxRequests  \* bound: requests

Totp == Secret \X (1..TotpCount)
RCode == Batch \X (1..CodeCount)
Factor ==
    [on : BOOLEAN, secret : Secret \cup {None}, key : {"current", "retired"}, codes : SUBSET RCode]
Draft == [secret : Secret \cup {None}, codes : SUBSET RCode]

\* Temp tokens, secrets, TOTP codes and recovery codes are told apart by their
\* form, and None is none of them.
ASSUME MfaAssumption ==
    /\ CodeCount \in Nat \ {0}
    /\ Window \in Nat /\ TotpCount \in Nat /\ MaxEpoch \in Nat /\ MaxRequests \in Nat
    /\ Start \subseteq {"dashboard", "platform"} \X {"off", "current", "retired"}
    /\ None \notin Req \cup Secret \cup Temp \cup Totp \cup RCode \cup Factor \cup Draft
    /\ (Temp \cup Secret) \cap (Totp \cup RCode) = {}
    /\ Totp \cap RCode = {}

VARIABLES
    plane,      \* the account's plane
    mfa,        \* the account's MFA fields
    setup,      \* mfa_setup: the pending enrolment
    temp,       \* mfa: temp tokens not yet consumed
    tempEpoch,  \* the epoch stamped in a temp token
    tu,         \* tu: TOTP codes that were marked
    rcu,        \* rcu: claimed recovery codes
    lock,       \* mfalock: who holds it
    epoch,      \* the account's token epoch
    pc, op, cred, code, view, data, plan,   \* a request's local state
    overran,    \* history: requests whose lock expired under them
    outlives,   \* history: requests whose change an older session survives
    generated,  \* history: secrets and sets handed out
    redeemed,   \* history: temp tokens consumed
    used,       \* history: credentials that were accepted
    doubled,    \* history: credentials accepted twice
    excused,    \* history: what went wrong that the properties allow for
    started,    \* requests so far
    signedIn    \* the account has a live session

store == <<setup, temp, tempEpoch, tu, rcu, lock, epoch>>
rest == <<op, cred, code, view, data, plan, overran, outlives>>
past == <<generated, redeemed, used, doubled, excused, started>>
vars == <<plane, mfa, store, pc, rest, past, signedIn>>

Codes(b) == {b} \X (1..CodeCount)
Off == [on |-> FALSE, secret |-> None, key |-> "current", codes |-> {}]
NoData == [secret |-> None, codes |-> {}]

\* Mutant: the marker forgets the step the code belongs to.
AntiReplayTtlShort == 2 * Window

\* anti_replay_ttl_seconds, in time steps.
AntiReplayTtl == 2 * Window + 1

Locked == {"reread", "write", "release"}

Init ==
    /\ \E start \in Start, secret \in Secret, b \in Batch :
        /\ plane = start[1]
        /\ mfa = IF start[2] = "off" THEN Off
                 ELSE [on |-> TRUE, secret |-> secret, key |-> start[2], codes |-> Codes(b)]
    /\ setup = None
    /\ temp = {}
    /\ tempEpoch = [t \in Temp |-> 0]
    /\ tu = {}
    /\ rcu = {}
    /\ lock = None
    /\ epoch = 0
    /\ pc = [r \in Req |-> "idle"]
    /\ op = [r \in Req |-> None]
    /\ cred = [r \in Req |-> None]
    /\ code = [r \in Req |-> None]
    /\ view = [r \in Req |-> Off]
    /\ data = [r \in Req |-> NoData]
    /\ plan = [r \in Req |-> None]
    /\ generated = {mfa.secret} \cup {c[1] : c \in mfa.codes}
    /\ overran = {} /\ outlives = {}
    /\ redeemed = {} /\ used = {} /\ doubled = {} /\ excused = {}
    /\ started = 0
    /\ signedIn = TRUE

-----------------------------------------------------------------------------
(* Building blocks.                                                        *)

At(r, p) == pc[r] = p
Goto(r, p) == pc' = [pc EXCEPT ![r] = p]

\* A new request.
Begin(r, o, next) ==
    /\ At(r, "idle")
    /\ started < MaxRequests
    /\ started' = started + 1
    /\ op' = [op EXCEPT ![r] = o]
    /\ Goto(r, next)

\* The end of a request, well or not: its local state is gone.
Leave(r) ==
    /\ pc' = [pc EXCEPT ![r] = "idle"]
    /\ op' = [op EXCEPT ![r] = None]
    /\ cred' = [cred EXCEPT ![r] = None]
    /\ code' = [code EXCEPT ![r] = None]
    /\ view' = [view EXCEPT ![r] = Off]
    /\ data' = [data EXCEPT ![r] = NoData]
    /\ plan' = [plan EXCEPT ![r] = None]
    /\ overran' = overran \ {r}
    /\ outlives' = outlives \ {r}

\* Go on with the request.
Proceed(r, next) == Goto(r, next) /\ UNCHANGED rest

\* A credential was accepted.
Accept(S) ==
    /\ used' = used \cup S
    /\ doubled' = doubled \cup (S \cap used)

\* totp::verify, and the SET NX of the marker.  A code verifies for 2 * Window + 1
\* steps; one that was marked some steps ago is free again once its marker is gone.
FreshTotp(c, secret) ==
    /\ c[1] = secret
    /\ c \in tu => \E elapsed \in 0..(2 * Window) : elapsed >= AntiReplayTtl

-----------------------------------------------------------------------------
(* Login: the password step, for accounts with and without the factor.     *)

\* issue_mfa_temp_token.  The login read the record earlier, so the factor may
\* be off again.
IssueTemp(t) ==
    /\ mfa.on \/ epoch > 0
    /\ t \notin generated
    /\ temp' = temp \cup {t}
    /\ tempEpoch' = [tempEpoch EXCEPT ![t] = epoch]
    /\ generated' = generated \cup {t}
    /\ UNCHANGED <<plane, mfa, setup, tu, rcu, lock, epoch, pc, rest, redeemed, used,
                   doubled, excused, started, signedIn>>

\* issue_session for an account without the factor.
PasswordLogin ==
    /\ ~mfa.on /\ ~signedIn
    /\ signedIn' = TRUE
    /\ UNCHANGED <<plane, mfa, store, pc, rest, past>>

-----------------------------------------------------------------------------
(* challenge                                                               *)

\* verify_mfa_temp_token: the marker is read, not consumed, and the stamp is
\* compared with the epoch of now.
VerifyTemp(t) == t \in temp /\ tempEpoch[t] >= epoch

\* challenge_expecting: the platform route turns a dashboard token away.
Challenge(r, t, platformOnly) ==
    /\ Begin(r, "challenge", "fetch")
    /\ VerifyTemp(t)
    /\ platformOnly => plane = "platform"
    /\ cred' = [cred EXCEPT ![r] = t]
    /\ UNCHANGED <<plane, mfa, store, code, view, data, plan, overran, outlives,
                   generated, redeemed, used, doubled, excused, signedIn>>

\* The account and its secret.
ChallengeFetch(r) ==
    /\ At(r, "fetch")
    /\ mfa.on
    /\ Goto(r, "code")
    /\ view' = [view EXCEPT ![r] = mfa]
    /\ UNCHANGED <<plane, mfa, store, op, cred, code, data, plan, overran, outlives, past,
                   signedIn>>

\* Mutant: the temp token stays.
WithoutTempKept(t) == temp

\* The DEL of mfa_challenge.lua and of del_temp.
WithoutTemp(t) == temp \ {t}

\* accept_totp and mfa_challenge.lua: the code is marked and the temp token
\* consumed, or neither.  A secret that opened under a retired key is sealed
\* again.
AcceptTotp(r, c) ==
    /\ At(r, "code")
    /\ FreshTotp(c, view[r].secret)
    /\ cred[r] \in temp
    /\ tu' = tu \cup {c}
    /\ temp' = WithoutTemp(cred[r])
    /\ redeemed' = redeemed \cup {cred[r]}
    /\ Accept({c})
    /\ Proceed(r, IF view[r].key = "retired" THEN "acquire" ELSE "issue")
    /\ UNCHANGED <<plane, mfa, setup, tempEpoch, rcu, lock, epoch, generated, excused,
                   started, signedIn>>

\* Mutant: a matched code counts as claimed.
ClaimFreeAlways(r, c) == c \in view[r].codes

\* verify_recovery_code against the copy read earlier, and the SET NX.
ClaimFree(r, c) == c \in view[r].codes /\ c \notin rcu

\* accept_recovery_code
AcceptRecoveryCode(r, c) ==
    /\ At(r, "code")
    /\ ClaimFree(r, c)
    /\ rcu' = rcu \cup {c}
    /\ code' = [code EXCEPT ![r] = c]
    /\ Goto(r, "redeem")
    /\ UNCHANGED <<plane, mfa, setup, temp, tempEpoch, tu, lock, epoch, op, cred, view,
                   data, plan, overran, outlives, past, signedIn>>

\* The DEL of the temp token must be the one that removed it.
RedeemWon(r) == cred[r] \in temp

\* consume_mfa_temp_token
RedeemTemp(r) ==
    /\ At(r, "redeem")
    /\ RedeemWon(r)
    /\ Proceed(r, "acquire")
    /\ temp' = WithoutTemp(cred[r])
    /\ redeemed' = redeemed \cup {cred[r]}
    /\ UNCHANGED <<plane, mfa, setup, tempEpoch, tu, rcu, lock, epoch, generated, used,
                   doubled, excused, started, signedIn>>

\* issue_tokens with mfa_verified: the session a challenge was for.
Issue(r) ==
    /\ At(r, "issue")
    /\ Accept({cred[r], code[r]} \ {None})
    /\ signedIn' = TRUE
    /\ Leave(r)
    /\ UNCHANGED <<plane, mfa, store, generated, redeemed, excused, started>>

-----------------------------------------------------------------------------
(* transition_mfa_record                                                   *)

Acquire(r) ==
    /\ At(r, "acquire")
    /\ lock = None
    /\ lock' = r
    /\ Proceed(r, "reread")
    /\ UNCHANGED <<plane, mfa, setup, temp, tempEpoch, tu, rcu, epoch, past, signedIn>>

\* Mutant: the splice trusts that the factor is the one it opened.
HoldsAnySecret(current, secret) == TRUE

\* holds_challenged_secret
HoldsChallengedSecret(current, secret) == current.on /\ current.secret = secret

\* splice_recovery_code and the reseal of a TOTP challenge.
Splice(r, current) ==
    IF /\ HoldsChallengedSecret(current, view[r].secret)
       /\ code[r] # None => code[r] \in current.codes
    THEN [on |-> TRUE, secret |-> view[r].secret, key |-> "current",
          codes |-> current.codes \ {code[r]}]
    ELSE None

\* regenerate_recovery_codes
ReplaceCodes(r, current) ==
    IF current.on THEN [current EXCEPT !.codes = data[r].codes] ELSE None

\* What the closure of each operation makes of the record inside the lock.
Mutate(r, current) ==
    CASE op[r] = "challenge" -> Splice(r, current)
      [] op[r] = "enable" -> [on |-> TRUE, secret |-> data[r].secret, key |-> "current",
                              codes |-> data[r].codes]
      [] op[r] = "regenerate" -> ReplaceCodes(r, current)
      [] OTHER -> Off

\* The read inside the lock.
Reread(r) ==
    /\ At(r, "reread")
    /\ plan' = [plan EXCEPT ![r] = Mutate(r, mfa)]
    /\ Goto(r, IF plan'[r] = None THEN "release" ELSE "write")
    /\ UNCHANGED <<plane, mfa, store, op, cred, code, view, data, overran, outlives, past,
                   signedIn>>

\* persist_mfa replaces all the fields.
Persist(r) ==
    /\ mfa' = plan[r]
    /\ excused' = excused \cup (IF r \in overran THEN {"overrun"} ELSE {})
                          \cup (IF op[r] = "enable" /\ plan[r].secret \in used
                               THEN {"reenrolled"} ELSE {})
    /\ used' = IF op[r] = "enable" THEN used \cup {plan[r].secret} ELSE used
    /\ outlives' = IF op[r] \in {"enable", "disable", "reset"} /\ signedIn
                   THEN outlives \cup {r} ELSE outlives

Write(r) ==
    /\ At(r, "write")
    /\ Persist(r)
    /\ Goto(r, "release")
    /\ UNCHANGED <<plane, store, op, cred, code, view, data, plan, overran, generated,
                   redeemed, doubled, started, signedIn>>

\* release_lock.lua: only while the lock still holds this call's token.
Unlocked(r) == IF lock = r THEN None ELSE lock

\* A challenge goes on to its session, a change of the factor to the revocation;
\* regenerate is done, whether its transition was abandoned or not.
Release(r) ==
    /\ At(r, "release")
    /\ lock' = Unlocked(r)
    /\ CASE op[r] = "challenge" -> Proceed(r, "issue")
         [] op[r] = "regenerate" -> Leave(r)
         [] OTHER -> Proceed(r, "revoke")
    /\ UNCHANGED <<plane, mfa, setup, temp, tempEpoch, tu, rcu, epoch, past, signedIn>>

-----------------------------------------------------------------------------
(* setup, verify_and_enable, disable, reset_mfa, regenerate                *)

\* fetch_user_mfa, and what each operation wants of the flag: setup and enable
\* an account without the factor, the others one with it; a reset of nothing
\* is a success.
Manage(r, o, new) ==
    /\ Begin(r, o, CASE o \in {"setup", "enable"} -> "getsetup"
                     [] o = "reset" -> "acquire"
                     [] OTHER -> "gate")
    /\ mfa.on = (o \in {"disable", "reset", "regenerate"})
    /\ view' = [view EXCEPT ![r] = mfa]
    /\ data' = [data EXCEPT ![r] = [secret |-> mfa.secret, codes |-> new]]
    /\ UNCHANGED <<plane, mfa, store, cred, code, plan, overran, outlives, redeemed,
                   used, doubled, excused, signedIn>>

Setup(r) == Manage(r, "setup", {}) /\ UNCHANGED generated
VerifyAndEnable(r) == Manage(r, "enable", {}) /\ UNCHANGED generated
Disable(r) == Manage(r, "disable", {}) /\ UNCHANGED generated
ResetMfa(r) == Manage(r, "reset", {}) /\ UNCHANGED generated
RegenerateRecoveryCodes(r, b) ==
    /\ b \notin generated
    /\ Manage(r, "regenerate", Codes(b))
    /\ generated' = generated \cup {b}

\* get_setup: setup hands out a pending record again, enable needs one.
GetSetup(r) ==
    /\ At(r, "getsetup")
    /\ CASE op[r] = "setup" -> IF setup = None THEN Proceed(r, "putsetup") ELSE Leave(r)
         [] op[r] = "enable" -> /\ setup # None
                                /\ Goto(r, "gate")
                                /\ data' = [data EXCEPT ![r] = setup]
                                /\ UNCHANGED <<op, cred, code, view, plan, overran, outlives>>
    /\ UNCHANGED <<plane, mfa, store, past, signedIn>>

\* generate_setup_material and put_setup_nx; the loser of the race returns the
\* winner's record.
PutSetup(r, s, b) ==
    /\ At(r, "putsetup")
    /\ {s, b} \cap generated = {}
    /\ setup' = IF setup = None THEN [secret |-> s, codes |-> Codes(b)] ELSE setup
    /\ generated' = IF setup = None THEN generated \cup {s, b} ELSE generated
    /\ Leave(r)
    /\ UNCHANGED <<plane, mfa, temp, tempEpoch, tu, rcu, lock, epoch, redeemed, used,
                   doubled, excused, started, signedIn>>

\* verify_totp_with_anti_replay, against the pending secret or the stored one
\* (reauth_gate).
Gate(r, c) ==
    /\ At(r, "gate")
    /\ FreshTotp(c, data[r].secret)
    /\ tu' = tu \cup {c}
    /\ Accept({c})
    /\ Proceed(r, IF op[r] = "enable" THEN "take" ELSE "acquire")
    /\ UNCHANGED <<plane, mfa, setup, temp, tempEpoch, rcu, lock, epoch, generated,
                   redeemed, excused, started, signedIn>>

\* take_setup: whoever gets a record goes on, with the record read before.
TakeSetup(r) ==
    /\ At(r, "take")
    /\ setup # None
    /\ setup' = None
    /\ Proceed(r, "acquire")
    /\ UNCHANGED <<plane, mfa, temp, tempEpoch, tu, rcu, lock, epoch, past, signedIn>>

\* Mutant: the factor changes and the sessions stay.
RevokeNothing(r) ==
    /\ At(r, "revoke")
    /\ Goto(r, "bump")
    /\ UNCHANGED <<plane, mfa, store, rest, past, signedIn>>

\* revoke_all, then bump_epoch.
Revoke(r) ==
    /\ At(r, "revoke")
    /\ Goto(r, "bump")
    /\ signedIn' = FALSE
    /\ outlives' = {}
    /\ UNCHANGED <<plane, mfa, store, op, cred, code, view, data, plan, overran, past>>

BumpEpoch(r) ==
    /\ At(r, "bump")
    /\ epoch < MaxEpoch
    /\ epoch' = epoch + 1
    /\ Leave(r)
    /\ UNCHANGED <<plane, mfa, setup, temp, tempEpoch, tu, rcu, lock, past, signedIn>>

-----------------------------------------------------------------------------
(* Failures and time.                                                      *)

\* An early return: a wrong, spent or replayed code, a temp token or a pending
\* record that is gone, a held lock, a locked or blocked account, a store error.
Fail(r) ==
    /\ pc[r] \notin {"idle"} \cup Locked
    /\ Leave(r)
    /\ UNCHANGED <<plane, mfa, store, past, signedIn>>

\* An error inside the lock: the lock is released, the operation fails.  The
\* write may have reached the repository before its error.
FailLocked(r) ==
    /\ pc[r] \in Locked
    /\ Leave(r)
    /\ lock' = Unlocked(r)
    /\ UNCHANGED <<plane, mfa, setup, temp, tempEpoch, tu, rcu, epoch, past, signedIn>>

\* The engine dies inside the lock: the lock stays until its TTL.
Crash(r) ==
    /\ pc[r] \in Locked
    /\ Leave(r)
    /\ lock' = IF lock = r THEN "orphan" ELSE lock
    /\ UNCHANGED <<plane, mfa, setup, temp, tempEpoch, tu, rcu, epoch, past, signedIn>>

\* The lock's TTL runs out, perhaps under a transition that is still running.
LockExpires ==
    /\ lock # None
    /\ lock' = None
    /\ overran' = overran \cup ({lock} \cap Req)
    /\ UNCHANGED <<plane, mfa, setup, temp, tempEpoch, tu, rcu, epoch, pc, op, cred, code,
                   view, data, plan, outlives, past, signedIn>>

\* Requests in flight that rely on the claim of a recovery code.
Claimants(c) == {r \in Req : code[r] = c \/ (At(r, "code") /\ c \in view[r].codes)}

ClaimExpires(c) ==
    /\ c \in rcu
    /\ rcu' = rcu \ {c}
    /\ excused' = excused \cup (IF Claimants(c) = {} THEN {} ELSE {"claim"})
    /\ UNCHANGED <<plane, mfa, setup, temp, tempEpoch, tu, lock, epoch, pc, rest, generated,
                   redeemed, used, doubled, started, signedIn>>

SetupExpires ==
    /\ setup # None
    /\ setup' = None
    /\ UNCHANGED <<plane, mfa, temp, tempEpoch, tu, rcu, lock, epoch, pc, rest, past,
                   signedIn>>

Transition(r) == Acquire(r) \/ Reread(r) \/ Write(r) \/ Release(r)

\* A challenge once its temp token was verified.  The two arms differ in the
\* repository they read, in the claims they sign, and in the session cap: the
\* dashboard session is held to it, the platform one is not (what the cap evicts
\* is SessionService's).
ChallengeSteps(r) ==
    \/ ChallengeFetch(r)
    \/ \E c \in Totp : AcceptTotp(r, c)
    \/ \E c \in RCode : AcceptRecoveryCode(r, c)
    \/ RedeemTemp(r)
    \/ Issue(r)

ChallengeDashboard(r) == plane = "dashboard" /\ ChallengeSteps(r)
ChallengePlatform(r) == plane = "platform" /\ ChallengeSteps(r)

ReqNext(r) ==
    \/ \E t \in Temp, p \in BOOLEAN : Challenge(r, t, p)
    \/ ChallengeDashboard(r)
    \/ ChallengePlatform(r)
    \/ \E c \in Totp : Gate(r, c)
    \/ Transition(r)
    \/ Setup(r)
    \/ VerifyAndEnable(r)
    \/ Disable(r)
    \/ ResetMfa(r)
    \/ \E b \in Batch : RegenerateRecoveryCodes(r, b)
    \/ GetSetup(r)
    \/ \E s \in Secret, b \in Batch : PutSetup(r, s, b)
    \/ TakeSetup(r)
    \/ Revoke(r)
    \/ BumpEpoch(r)
    \/ Fail(r)
    \/ FailLocked(r)
    \/ Crash(r)

Next ==
    \/ \E r \in Req : ReqNext(r)
    \/ \E t \in Temp : IssueTemp(t)
    \/ PasswordLogin
    \/ LockExpires
    \/ \E c \in RCode : ClaimExpires(c)
    \/ SetupExpires

Spec == Init /\ [][Next]_vars
-----------------------------------------------------------------------------
(* Properties.                                                             *)

\* A temp token is a single-use credential: whichever of the fused TOTP consume
\* and the recovery path's delete gets it, it is redeemed once (mfa_challenge.lua,
\* consume_mfa_temp_token).
TempIsSingleUse == INSTANCE SingleUse WITH
    Credential <- Temp, live <- temp, redeemed <- redeemed
TempSpec == TempIsSingleUse!Spec

\* A TOTP code is accepted once, by whichever operation sees it first: the marker
\* outlives every moment at which the code would still verify
\* (anti_replay_ttl_seconds).
TotpAcceptedOnce == doubled \cap Totp = {}

\* A recovery code opens one session: the claim serialises two challenges with the
\* code, the splice under the lock keeps it out of the record afterwards.
RecoveryCodeOpensOnce == excused = {} => doubled \cap RCode = {}

\* The write of a challenge or of a regenerate lands on the factor it was computed
\* from: it never switches MFA back on, never brings back a secret, and a challenge
\* takes out its own recovery code and no other (the three failures the comment of
\* transition_mfa_record lists).
ChallengeWritesOnlyItsCode ==
    [][\A r \in Req :
        (At(r, "write") /\ mfa' # mfa /\ excused' = {} /\ pc'[r] = "release")
            => /\ op[r] \in {"challenge", "regenerate"} =>
                      mfa.on /\ mfa'.on /\ mfa'.secret = mfa.secret
               /\ op[r] = "challenge" => mfa'.codes = mfa.codes \ {code[r]}]_vars

\* When enable, disable or reset reports success, no session that predates the
\* change is left (revoke_all after the transition).
ChangeEndsOlderSessions == [][\A r \in Req : BumpEpoch(r) => r \notin outlives]_vars
=============================================================================
