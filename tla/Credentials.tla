----------------------------- MODULE Credentials -----------------------------
(***************************************************************************)
(* The password of one account and the flows that read or write it: login  *)
(* with its detached rehash, the forgot-password flow by link token or by  *)
(* one-time code, and change_password.  Each flow reads the account, works *)
(* for the length of a key derivation, and writes with update_password,    *)
(* which the host's repository applies unconditionally; the password is in *)
(* the host's database and the proofs and sessions are in Redis.           *)
(*                                                                         *)
(* A stored hash is its password, a salt no other hash has, and whether    *)
(* its parameters are due for a rehash.  Keys expire at any time.  The     *)
(* guess counters in front of login and change_password are in Lockout and *)
(* the inside of revoke_all_except_current is in SessionService.           *)
(***************************************************************************)
EXTENDS Integers, FiniteSets

CONSTANTS
    Password,    \* passwords
    Req,         \* workers: each runs one request at a time, and may run a rehash
    Proof,       \* reset tokens, of the link and of the verified-code kind
    NoPhc,       \* no local password (an OAuth-only account); its fingerprint is empty
    MaxTries,    \* wrong codes a one-time code survives
    MaxWrites,   \* bound: password writes
    MaxWindows   \* bound: resend cooldowns opened

ASSUME CredentialsAssumption ==
    /\ MaxTries \in Nat \ {0}
    /\ MaxWrites \in Nat
    /\ MaxWindows \in Nat
    /\ NoPhc \notin Password
    /\ NoPhc \notin [pw : Password, salt : Nat, old : BOOLEAN]
    /\ IsFiniteSet(Req)

VARIABLES
    method,   \* password_reset.method of the deployment
    hash,     \* the account's password_hash
    held,     \* reset tokens in the store
    minted,   \* reset tokens ever generated
    links,    \* the ones that are link tokens; the others are verified-code tokens
    print,    \* the fingerprint stored with a token
    code,     \* a one-time code is in the store
    tries,    \* its wrong guesses
    cooling,  \* the resend cooldown is running
    issued,   \* sessions issued so far
    live,     \* the live ones
    epoch,    \* the account's token epoch
    pc,       \* where a request is
    pw,       \* the password it sets
    read,     \* the hash it read, or the fingerprint it carries
    proof,    \* the token it issued or consumed
    kept,     \* the session a change keeps
    rehash,   \* the stage of the detached rehash a login spawned
    verified, \* the hash that login verified
    writes,   \* history: password writes
    seen,     \* history: writes when a request read the hash
    checked,  \* history: writes when a rehash read it again
    since,    \* history: writes when a token's account was read
    spent,    \* history: password writes made on a token
    chosen,   \* history: the password a reset or a change last set
    raced,    \* history: a rehash was overtaken between its check and its write
    guesses,  \* history: codes judged
    windows   \* history: cooldowns opened

tokens == <<held, minted, links, print, since, spent>>
codes == <<code, tries, cooling, guesses, windows>>
account == <<hash, writes, chosen, raced>>
sessions == <<issued, live, epoch>>
local == <<pc, pw, read, proof, kept, seen>>
detached == <<rehash, verified, checked>>
vars == <<method, account, tokens, codes, sessions, local, detached>>

Phc == [pw : Password, salt : Nat, old : BOOLEAN]
PC == {"idle", "issue", "lookup", "resend", "put", "send", "find", "store", "bind",
       "reset", "revoke", "settle", "change", "others", "bump"}

AccountTypeOK ==
    /\ method \in {"token", "otp"}
    /\ hash \in Phc \cup {NoPhc}
    /\ writes \in Nat
    /\ chosen \in Password
    /\ raced \in BOOLEAN

TokenTypeOK ==
    /\ held \in SUBSET Proof
    /\ minted \in SUBSET Proof
    /\ links \in SUBSET Proof
    /\ print \in [Proof -> Phc \cup {NoPhc}]
    /\ since \in [Proof -> Nat]
    /\ spent \in [Proof -> Nat]

CodeTypeOK ==
    /\ code \in BOOLEAN
    /\ tries \in 0..MaxTries
    /\ cooling \in BOOLEAN
    /\ guesses \in Nat
    /\ windows \in Nat

SessionTypeOK ==
    /\ issued \in Nat
    /\ live \in SUBSET Nat
    /\ epoch \in Nat

RequestTypeOK ==
    /\ pc \in [Req -> PC]
    /\ pw \in [Req -> Password \cup {NoPhc}]
    /\ read \in [Req -> Phc \cup {NoPhc}]
    /\ proof \in [Req -> SUBSET Proof]
    /\ kept \in [Req -> SUBSET Nat]
    /\ seen \in [Req -> Nat]

RehashTypeOK ==
    /\ rehash \in [Req -> {"none", "hashing", "writing"}]
    /\ verified \in [Req -> Phc \cup {NoPhc}]
    /\ checked \in [Req -> Nat]

TypeOK ==
    /\ AccountTypeOK /\ TokenTypeOK /\ CodeTypeOK
    /\ SessionTypeOK /\ RequestTypeOK /\ RehashTypeOK

Init ==
    /\ method \in {"token", "otp"}
    /\ chosen \in Password
    /\ hash \in {NoPhc} \cup {[pw |-> chosen, salt |-> 0, old |-> o] : o \in BOOLEAN}
    /\ held = {}
    /\ minted = {}
    /\ links = {}
    /\ print = [p \in Proof |-> NoPhc]
    /\ code = FALSE
    /\ tries = 0
    /\ cooling = FALSE
    /\ issued = 0
    /\ live = {}
    /\ epoch = 0
    /\ pc = [r \in Req |-> "idle"]
    /\ pw = [r \in Req |-> NoPhc]
    /\ read = [r \in Req |-> NoPhc]
    /\ proof = [r \in Req |-> {}]
    /\ kept = [r \in Req |-> {}]
    /\ rehash = [r \in Req |-> "none"]
    /\ verified = [r \in Req |-> NoPhc]
    /\ writes = 0
    /\ seen = [r \in Req |-> 0]
    /\ checked = [r \in Req |-> 0]
    /\ since = [p \in Proof |-> 0]
    /\ spent = [p \in Proof |-> 0]
    /\ raced = FALSE
    /\ guesses = 0
    /\ windows = 0

At(r, p) == pc[r] = p
Goto(r, p) == pc' = [pc EXCEPT ![r] = p]

\* A request is answered and its locals are gone.
Return(r) ==
    /\ Goto(r, "idle")
    /\ pw' = [pw EXCEPT ![r] = NoPhc]
    /\ read' = [read EXCEPT ![r] = NoPhc]
    /\ proof' = [proof EXCEPT ![r] = {}]
    /\ kept' = [kept EXCEPT ![r] = {}]
    /\ seen' = [seen EXCEPT ![r] = 0]

\* find_by_email or find_by_id.
ReadHash(r) ==
    /\ read' = [read EXCEPT ![r] = hash]
    /\ seen' = [seen EXCEPT ![r] = writes]

\* hash(w), then update_password: unconditional, and no two hashes are equal.
UpdatePassword(w) ==
    /\ writes < MaxWrites
    /\ writes' = writes + 1
    /\ hash' = [pw |-> w, salt |-> writes + 1, old |-> FALSE]

-----------------------------------------------------------------------------
(* login and the rehash it spawns                                          *)

\* The password matches the hash that was read.
Login(r) ==
    /\ At(r, "idle")
    /\ rehash[r] = "none"
    /\ hash # NoPhc
    /\ IF hash.old
       THEN /\ rehash' = [rehash EXCEPT ![r] = "hashing"]
            /\ verified' = [verified EXCEPT ![r] = hash]
       ELSE UNCHANGED <<rehash, verified>>
    /\ Goto(r, "issue")
    /\ UNCHANGED <<method, account, tokens, codes, sessions, pw, read, proof, kept, seen, checked>>

Issue(r) ==
    /\ At(r, "issue")
    /\ issued' = issued + 1
    /\ live' = live \cup {issued}
    /\ Return(r)
    /\ UNCHANGED <<method, account, tokens, codes, epoch, detached>>

\* The rehash is over.
EndRehash(r) ==
    /\ rehash' = [rehash EXCEPT ![r] = "none"]
    /\ verified' = [verified EXCEPT ![r] = NoPhc]
    /\ checked' = [checked EXCEPT ![r] = 0]

\* Mutant: the upgrade is written whatever the stored hash has become.
RehashCheckBlind(r) ==
    /\ rehash[r] = "hashing"
    /\ rehash' = [rehash EXCEPT ![r] = "writing"]
    /\ checked' = [checked EXCEPT ![r] = writes]
    /\ UNCHANGED <<method, account, tokens, codes, sessions, local, verified>>

\* run_rehash_password: the stored hash is still the one that was verified.
RehashCheck(r) ==
    /\ rehash[r] = "hashing"
    /\ IF hash = verified[r]
       THEN /\ rehash' = [rehash EXCEPT ![r] = "writing"]
            /\ checked' = [checked EXCEPT ![r] = writes]
            /\ UNCHANGED verified
       ELSE EndRehash(r)
    /\ UNCHANGED <<method, account, tokens, codes, sessions, local>>

RehashWrite(r) ==
    /\ rehash[r] = "writing"
    /\ UpdatePassword(verified[r].pw)
    /\ EndRehash(r)
    /\ raced' = (raced \/ writes # checked[r])
    /\ UNCHANGED <<method, tokens, codes, sessions, local, chosen>>

-----------------------------------------------------------------------------
(* initiate_reset, resend_reset_otp and verify_reset_otp                   *)

\* Mutant: the request is not held to the cooldown of the resend.
ForgotUntimed(r) ==
    /\ At(r, "idle")
    /\ Goto(r, "lookup")
    /\ UNCHANGED <<method, account, tokens, codes, sessions, pw, read, proof, kept, seen, detached>>

\* try_begin_resend: one cooldown for both doors; inside it they answer as if
\* they had sent.
TryBeginResend ==
    /\ ~cooling
    /\ windows < MaxWindows
    /\ cooling' = TRUE
    /\ windows' = windows + 1

\* initiate_reset, up to its lookup of the account.
Forgot(r) ==
    /\ At(r, "idle")
    /\ TryBeginResend
    /\ Goto(r, "lookup")
    /\ UNCHANGED <<method, account, tokens, code, tries, guesses, sessions>>
    /\ UNCHANGED <<pw, read, proof, kept, seen, detached>>

\* resend_reset_otp, which does not ask for the method.
Resend(r) ==
    /\ At(r, "idle")
    /\ TryBeginResend
    /\ Goto(r, "resend")
    /\ UNCHANGED <<method, account, tokens, code, tries, guesses, sessions>>
    /\ UNCHANGED <<pw, read, proof, kept, seen, detached>>

\* The account is there and not blocked; send_reset_token reads its fingerprint.
ForgotReads(r) ==
    /\ At(r, "lookup")
    /\ method = "token"
    /\ ReadHash(r)
    /\ Goto(r, "put")
    /\ UNCHANGED <<method, account, tokens, codes, sessions, pw, proof, kept, detached>>

\* send_reset_otp: a new code, with no guesses against it.
SendResetOtp(r) ==
    /\ At(r, "resend") \/ (At(r, "lookup") /\ method = "otp")
    /\ code' = TRUE
    /\ tries' = 0
    /\ Return(r)
    /\ UNCHANGED <<method, account, tokens, cooling, guesses, windows, sessions, detached>>

\* otp_verify.lua with the right code consumes it; the next step is next.
CodeAccepted(r, next) ==
    /\ code
    /\ tries < MaxTries
    /\ code' = FALSE
    /\ tries' = 0
    /\ guesses' = guesses + 1
    /\ Goto(r, next)
    /\ UNCHANGED <<method, account, tokens, cooling, windows, sessions>>
    /\ UNCHANGED <<read, proof, kept, seen, detached>>

\* A wrong code costs a try; at the ceiling the record goes.
CodeRefused(r) ==
    /\ At(r, "idle")
    /\ code
    /\ IF tries < MaxTries
       THEN tries' = tries + 1 /\ guesses' = guesses + 1 /\ UNCHANGED code
       ELSE code' = FALSE /\ tries' = 0 /\ UNCHANGED guesses
    /\ Return(r)
    /\ UNCHANGED <<method, account, tokens, cooling, windows, sessions, detached>>

VerifyResetOtp(r) ==
    /\ At(r, "idle")
    /\ CodeAccepted(r, "find")
    /\ UNCHANGED pw

\* verify_reset_otp reads the account it will bind the verified token to.
VerifiedReads(r) ==
    /\ At(r, "find")
    /\ ReadHash(r)
    /\ Goto(r, "store")
    /\ UNCHANGED <<method, account, tokens, codes, sessions, pw, proof, kept, detached>>

\* GETDEL, DEL or the expiry.
Consume(p) ==
    /\ held' = held \ {p}
    /\ print' = [print EXCEPT ![p] = NoPhc]
    /\ since' = [since EXCEPT ![p] = 0]

\* A token never used before is stored with the fingerprint that was read.
Put(r, p) ==
    /\ p \notin minted
    /\ minted' = minted \cup {p}
    /\ held' = held \cup {p}
    /\ print' = [print EXCEPT ![p] = read[r]]
    /\ since' = [since EXCEPT ![p] = seen[r]]

\* put_token, for the mail that follows.
PutToken(r, p) ==
    /\ At(r, "put")
    /\ Put(r, p)
    /\ links' = links \cup {p}
    /\ proof' = [proof EXCEPT ![r] = {p}]
    /\ Goto(r, "send")
    /\ UNCHANGED <<method, account, spent, codes, sessions, pw, read, kept, seen, detached>>

\* put_verified, for the caller.
PutVerified(r, p) ==
    /\ At(r, "store")
    /\ Put(r, p)
    /\ Return(r)
    /\ UNCHANGED <<method, account, links, spent, codes, sessions, detached>>

\* The mail went out, or it did not and the token is deleted.
Sent(r, delivered) ==
    /\ At(r, "send")
    /\ IF delivered THEN UNCHANGED <<held, print, since>> ELSE \A p \in proof[r] : Consume(p)
    /\ Return(r)
    /\ UNCHANGED <<method, account, minted, links, spent, codes, sessions, detached>>

-----------------------------------------------------------------------------
(* reset_password                                                          *)

\* reset_with_stored_proof consumes the token, if it is of the kind the method
\* accepts, and carries its context.
Present(r, p, w) ==
    /\ At(r, "idle")
    /\ p \in held
    /\ p \in links <=> method = "token"
    /\ Consume(p)
    /\ proof' = [proof EXCEPT ![r] = {p}]
    /\ read' = [read EXCEPT ![r] = print[p]]
    /\ seen' = [seen EXCEPT ![r] = since[p]]
    /\ pw' = [pw EXCEPT ![r] = w]
    /\ Goto(r, "bind")
    /\ UNCHANGED <<method, account, minted, links, spent, codes, sessions, kept, detached>>

\* Mutant: a fingerprint is not compared with the account's.
StillBoundUnchecked(r) == TRUE

\* assert_proof_still_bound: an empty fingerprint is accepted as it is.
StillBound(r) == read[r] = NoPhc \/ hash = read[r]

Bind(r) ==
    /\ At(r, "bind")
    /\ StillBound(r)
    /\ Goto(r, "reset")
    /\ read' = [read EXCEPT ![r] = NoPhc]
    /\ seen' = [seen EXCEPT ![r] = 0]
    /\ UNCHANGED <<method, account, tokens, codes, sessions, pw, proof, kept, detached>>

BindRefused(r) ==
    /\ At(r, "bind")
    /\ ~StillBound(r)
    /\ Return(r)
    /\ UNCHANGED <<method, account, tokens, codes, sessions, detached>>

\* reset_with_otp: the code is the proof, and there is nothing to compare.
PresentOtp(r, w) ==
    /\ At(r, "idle")
    /\ method = "otp"
    /\ CodeAccepted(r, "reset")
    /\ pw' = [pw EXCEPT ![r] = w]

\* apply_password_reset: the password first, then the sessions, then the epoch.
ApplyPasswordReset(r) ==
    /\ At(r, "reset")
    /\ UpdatePassword(pw[r])
    /\ chosen' = pw[r]
    /\ spent' = [p \in Proof |-> IF p \in proof[r] THEN spent[p] + 1 ELSE spent[p]]
    /\ Goto(r, "revoke")
    /\ UNCHANGED <<method, raced, held, minted, links, print, since, codes, sessions>>
    /\ UNCHANGED <<pw, read, proof, kept, seen, detached>>

RevokeAll(r) ==
    /\ At(r, "revoke")
    /\ live' = {}
    /\ Goto(r, "bump")
    /\ UNCHANGED <<method, account, tokens, codes, issued, epoch, pw, read, proof, kept, seen, detached>>

BumpEpoch(r) ==
    /\ At(r, "bump")
    /\ epoch' = epoch + 1
    /\ Return(r)
    /\ UNCHANGED <<method, account, tokens, codes, issued, live, detached>>

-----------------------------------------------------------------------------
(* change_password                                                         *)

\* The current password matches the hash that was read.
ChangePassword(r, w) ==
    /\ At(r, "idle")
    /\ hash # NoPhc
    /\ pw' = [pw EXCEPT ![r] = w]
    /\ Goto(r, "settle")
    /\ UNCHANGED <<method, account, tokens, codes, sessions, read, proof, kept, seen, detached>>

\* resolve_current_session: the presented token names a live session, or none
\* was presented.
SettleKept(r, k) ==
    /\ At(r, "settle")
    /\ kept' = [kept EXCEPT ![r] = k]
    /\ Goto(r, "change")
    /\ UNCHANGED <<method, account, tokens, codes, sessions, pw, read, proof, seen, detached>>

ChangeWrites(r) ==
    /\ At(r, "change")
    /\ UpdatePassword(pw[r])
    /\ chosen' = pw[r]
    /\ Goto(r, "others")
    /\ UNCHANGED <<method, raced, tokens, codes, sessions, pw, read, proof, kept, seen, detached>>

\* end_other_sessions: a kept session that is gone spares none.
EndOtherSessions(r) ==
    /\ At(r, "others")
    /\ live' = live \cap kept[r]
    /\ Goto(r, "bump")
    /\ UNCHANGED <<method, account, tokens, codes, issued, epoch, pw, read, proof, kept, seen, detached>>

-----------------------------------------------------------------------------
(* What else happens.                                                      *)

\* A refusal, a store or repository error, the engine stopping, or a login that
\* is answered with an MFA challenge.
Fail(r) ==
    /\ ~At(r, "idle")
    /\ Return(r)
    /\ UNCHANGED <<method, account, tokens, codes, sessions, detached>>

RehashDies(r) ==
    /\ rehash[r] # "none"
    /\ EndRehash(r)
    /\ UNCHANGED <<method, account, tokens, codes, sessions, local>>

\* A session expires or is signed out.
SessionEnds(s) ==
    /\ s \in live
    /\ live' = live \ {s}
    /\ UNCHANGED <<method, account, tokens, codes, issued, epoch, local, detached>>

\* A key expires: a token, the code, the cooldown.
Expire(p) ==
    /\ p \in held
    /\ Consume(p)
    /\ UNCHANGED <<method, account, minted, links, spent, codes, sessions, local, detached>>

ExpireCode ==
    /\ code
    /\ code' = FALSE
    /\ tries' = 0
    /\ UNCHANGED <<method, account, tokens, cooling, guesses, windows, sessions, local, detached>>

CooldownEnds ==
    /\ cooling
    /\ cooling' = FALSE
    /\ UNCHANGED <<method, account, tokens, code, tries, guesses, windows, sessions, local, detached>>

ReqNext(r) ==
    \/ Login(r) \/ Issue(r) \/ RehashCheck(r) \/ RehashWrite(r) \/ RehashDies(r)
    \/ Forgot(r) \/ Resend(r) \/ ForgotReads(r) \/ SendResetOtp(r)
    \/ CodeRefused(r) \/ VerifyResetOtp(r) \/ VerifiedReads(r)
    \/ \E p \in Proof : PutToken(r, p) \/ PutVerified(r, p)
    \/ \E delivered \in BOOLEAN : Sent(r, delivered)
    \/ \E p \in Proof, w \in Password : Present(r, p, w)
    \/ Bind(r) \/ BindRefused(r) \/ ApplyPasswordReset(r) \/ RevokeAll(r) \/ BumpEpoch(r)
    \/ \E w \in Password : PresentOtp(r, w) \/ ChangePassword(r, w)
    \/ \E k \in {{}} \cup {{s} : s \in live} : SettleKept(r, k)
    \/ ChangeWrites(r) \/ EndOtherSessions(r)
    \/ Fail(r)

Next ==
    \/ \E r \in Req : ReqNext(r)
    \/ \E s \in live : SessionEnds(s)
    \/ \E p \in Proof : Expire(p)
    \/ ExpireCode
    \/ CooldownEnds

Spec == Init /\ [][Next]_vars

-----------------------------------------------------------------------------
(* Properties.                                                             *)

\* The stored password is the one a reset or a change last set, however many
\* detached rehashes finish late, unless one of them was overtaken in the one
\* round trip between its re-read and its write.
RehashKeepsPassword ==
    hash # NoPhc => hash.pw = chosen \/ raced

\* A reset token changes the password at most once, however many requests
\* present it: consume_token is a GETDEL.
ProofSpentOnce ==
    \A p \in Proof : spent[p] <= 1

\* A bound proof is accepted only while the password it was issued for is the
\* stored one: any completed reset, change or rehash since invalidates every
\* outstanding proof (assert_proof_still_bound).
StaleProofRefused ==
    [][\A r \in Req : Bind(r) /\ read[r] # NoPhc
          => seen[r] = writes]_vars

\* The guess budget of the one-time code: every code that can be guessed at was
\* paid for by a cooldown, so no number of forgot-password and resend requests
\* buys more than MaxTries guesses for each.
OtpGuessBudget ==
    guesses <= MaxTries * windows

\* A late rehash never costs a password: "losing that race can only drop an
\* upgrade, never a password" (run_rehash_password).
RehashNeverRestores ==
    hash # NoPhc => hash.pw = chosen

=============================================================================
