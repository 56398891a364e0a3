------------------------------ MODULE Platform ------------------------------
(***************************************************************************)
(* The platform plane: sign-in, refresh, logout and sign-out-everywhere of *)
(* an operator, services/platform.rs with its routes, over the platform    *)
(* keyspace of the session store (TokenService) and the host's repository. *)
(*                                                                         *)
(* One administrator.  The failure counter in front of the password is     *)
(* Lockout's, the detached rehash Credentials', the challenge Mfa's.       *)
(***************************************************************************)
EXTENDS TokenService, Naturals

CONSTANTS
    Call,         \* requests in flight
    Authority,    \* role and mfa_enabled, which a token's claims carry
    Initial,      \* what the administrator is provisioned with
    WithMfa,      \* those with a second factor
    MaxChanges,   \* bound on the changes the host makes to the administrator
    MaxEpoch      \* bound on the sign-outs-everywhere

ASSUME PlatformAssumption == Initial \in Authority

VARIABLES
    admin,        \* repository: status and authority
    changes,      \* how often the host changed it
    epoch,        \* pep: the administrator's token epoch
    record,       \* prt: the authority a session was opened with
    black,        \* rv: pairs whose access token is blacklisted
    stage, op,    \* what a request is doing, and for which route
    tok,          \* the refresh token it presents
    mint,         \* the refresh token it minted
    claims,       \* of the access token it will hand over
    failure,      \* whether one of its revocation writes failed
    handed,       \* pairs handed to the operator
    entitled,     \* history: authority held, while active, since the request began
    signedOut,    \* history: tokens a logout was answered 204 for
    shut          \* history: a refused refresh swept, nobody was signing in,
                  \* and the administrator has stayed inactive

store == <<service, epoch, record, black>>
host == <<admin, changes>>
request == <<stage, op, tok, mint, claims, failure>>
history == <<entitled, signedOut, shut>>
platformVars == <<store, host, request, handed, history>>

NoClaims == [authority |-> Initial, epoch |-> 0]

PlatformInit ==
    /\ ServiceInit
    /\ admin = [status |-> "active", authority |-> Initial]
    /\ changes = 0
    /\ epoch = 0
    /\ record = [t \in Token |-> Initial]
    /\ black = {}
    /\ stage = [c \in Call |-> "idle"]
    /\ op = [c \in Call |-> "none"]
    /\ tok = [c \in Call |-> NoToken]
    /\ mint = [c \in Call |-> NoToken]
    /\ claims = [c \in Call |-> NoClaims]
    /\ failure = [c \in Call |-> FALSE]
    /\ handed = {}
    /\ entitled = [c \in Call |-> {}]
    /\ signedOut = {}
    /\ shut = FALSE

-----------------------------------------------------------------------------
\* status_gate::assert_not_blocked, of an administrator that exists.
Admitted(a) == a.status = "active"
Due(a) == IF Admitted(a) THEN {a.authority} ELSE {}

At(c, l) == stage[c] = l
Go(c, l) == stage' = [stage EXCEPT ![c] = l]
Idle(c) == At(c, "idle")

Begin(c, route, l) ==
    /\ Idle(c)
    /\ Go(c, l)
    /\ op' = [op EXCEPT ![c] = route]
    /\ entitled' = [entitled EXCEPT ![c] = Due(admin)]

Return(c) ==
    /\ Go(c, "idle")
    /\ op' = [op EXCEPT ![c] = "none"]
    /\ tok' = [tok EXCEPT ![c] = NoToken]
    /\ mint' = [mint EXCEPT ![c] = NoToken]
    /\ claims' = [claims EXCEPT ![c] = NoClaims]
    /\ failure' = [failure EXCEPT ![c] = FALSE]
    /\ entitled' = [entitled EXCEPT ![c] = {}]

-----------------------------------------------------------------------------
(* login.                                                                  *)

\* Past the lockout gate and the password: an unknown or blocked administrator
\* is refused, one with a second factor is sent to the challenge.
TurnedAway(c) ==
    /\ Idle(c)
    /\ ~Admitted(admin) \/ admin.authority \in WithMfa
    /\ UNCHANGED platformVars
LogIn(c) ==
    /\ Begin(c, "login", "stamp")
    /\ Admitted(admin)
    /\ admin.authority \notin WithMfa
    /\ claims' = [claims EXCEPT ![c].authority = admin.authority]
    /\ UNCHANGED <<store, host, tok, mint, failure, handed, signedOut, shut>>

\* issue_platform_tokens: the epoch is read ...
Stamp(c) ==
    /\ At(c, "stamp")
    /\ claims' = [claims EXCEPT ![c].epoch = epoch]
    /\ Go(c, "create")
    /\ UNCHANGED <<store, host, op, tok, mint, failure, handed, history>>

\* ... then the session is written and the pair handed over.
Create(c, n, l) ==
    /\ At(c, "create")
    /\ Login(n, l)
    /\ record' = [record EXCEPT ![n] = claims[c].authority]
    /\ handed' = handed \cup {n}
    /\ Return(c)
    /\ UNCHANGED <<epoch, black, host, signedOut, shut>>

-----------------------------------------------------------------------------
(* refresh.                                                                *)

Present(c, t) ==
    /\ t \in handed
    /\ Begin(c, "refresh", "rotate")
    /\ tok' = [tok EXCEPT ![c] = t]
    /\ UNCHANGED <<store, host, mint, claims, failure, handed, signedOut, shut>>

\* The new session carries the record of the old one.
Minted(c, n) ==
    /\ mint' = [mint EXCEPT ![c] = n]
    /\ record' = [record EXCEPT ![n] = record[tok[c]]]
    /\ Go(c, "epoch")
    /\ UNCHANGED <<op, tok, claims, failure, entitled>>

\* reissue_platform_tokens, by the outcome of the rotation.
Rotate(c, n) ==
    /\ At(c, "rotate")
    /\ \/ Rotated(tok[c], n) /\ Minted(c, n)
       \/ GraceFound(tok[c]) /\ Go(c, "recover") /\ UNCHANGED <<record, op, tok, mint, claims, failure, entitled>>
       \/ (Reused(tok[c]) \/ Unknown(tok[c])) /\ Return(c) /\ UNCHANGED record
    /\ UNCHANGED <<epoch, black, host, handed, signedOut, shut>>

\* Mutant of the next: a recovery does not ask whether its login lives.
LineageLivesAlways(t) == TRUE
\* create_recovered_session refuses a login that was revoked meanwhile.
LineageLives(t) == \E x \in live : lineage[x] = lineage[t]
Recover(c, n) ==
    /\ At(c, "recover")
    /\ IF LineageLives(tok[c])
       THEN Recovered(tok[c], n) /\ Minted(c, n)
       ELSE Return(c) /\ UNCHANGED <<service, record>>
    /\ UNCHANGED <<epoch, black, host, handed, signedOut, shut>>

\* rotated_platform_claims, with the epoch of that moment.
StampRotated(c) ==
    /\ At(c, "epoch")
    /\ claims' = [claims EXCEPT ![c] = [authority |-> record[mint[c]], epoch |-> epoch]]
    /\ Go(c, "verify")
    /\ UNCHANGED <<store, host, op, tok, mint, failure, handed, history>>

\* verify_platform_access refuses a token stamped below the epoch.
Verify(c, l, next) ==
    /\ At(c, l)
    /\ IF claims[c].epoch < epoch
       THEN Return(c)
       ELSE Go(c, next) /\ UNCHANGED <<op, tok, mint, claims, failure, entitled>>
    /\ UNCHANGED <<store, host, handed, signedOut, shut>>

\* Mutant of the next: the role the session was opened with is kept.
RestampNever(c) == FALSE
\* The administrator is read again: an inactive one loses every session, a
\* changed one has the access token signed again.
Restamp(c) == claims[c].authority # admin.authority
Reread(c) ==
    /\ At(c, "reread")
    /\ Go(c, IF ~Admitted(admin) THEN "sweep" ELSE IF Restamp(c) THEN "restamp" ELSE "final")
    /\ claims' = [claims EXCEPT ![c].authority =
                     IF Admitted(admin) /\ Restamp(c) THEN admin.authority ELSE @]
    /\ UNCHANGED <<store, host, op, tok, mint, failure, handed, history>>

\* reissue_platform_access_with_authority reads the epoch anew.
SignAgain(c) ==
    /\ At(c, "restamp")
    /\ claims' = [claims EXCEPT ![c].epoch = epoch]
    /\ Go(c, "final")
    /\ UNCHANGED <<store, host, op, tok, mint, failure, handed, history>>

\* The route verifies the new token once more and reads the administrator for
\* the body; one that is gone by then is a 401.
Deliver(c) ==
    /\ At(c, "me")
    /\ handed' = IF admin.status = "gone" THEN handed ELSE handed \cup {mint[c]}
    /\ Return(c)
    /\ UNCHANGED <<store, host, signedOut, shut>>

-----------------------------------------------------------------------------
(* revoke_all_platform_sessions: the sweep, then the epoch.                *)

RevokeAll(c) ==
    /\ epoch < MaxEpoch
    /\ Begin(c, "revoke", "sweep")
    /\ UNCHANGED <<store, host, tok, mint, claims, failure, handed, signedOut, shut>>

\* Mutant of the next: a refused refresh ends only the session it minted.
SweptMintOnly(c) == IF op[c] = "refresh" THEN {mint[c]} ELSE live
Swept(c) == live
SigningIn == \E d \in Call : op[d] = "login"
Sweep(c) ==
    /\ At(c, "sweep")
    /\ live' = live \ Swept(c)
    /\ grace' = {p \in grace : succ[p] \in live'}
    /\ UNCHANGED <<lineage, spent, succ>>
    /\ Go(c, "bump")
    /\ shut' = (shut \/ (op[c] = "refresh" /\ ~Admitted(admin) /\ ~SigningIn))
    /\ UNCHANGED <<epoch, record, black, host, op, tok, mint, claims, failure, handed, entitled, signedOut>>

\* The epoch advances and the caller is answered; a refresh, with a refusal.
Bump(c) ==
    /\ At(c, "bump")
    /\ epoch' = epoch + 1
    /\ Return(c)
    /\ UNCHANGED <<service, record, black, host, handed, signedOut, shut>>

-----------------------------------------------------------------------------
(* logout: each write is attempted whatever became of the one before, and  *)
(* only a logout none of whose writes failed is answered 204.              *)

LogOut(c, t) ==
    /\ t \in handed
    /\ Begin(c, "logout", "blacklist")
    /\ tok' = [tok EXCEPT ![c] = t]
    /\ UNCHANGED <<store, host, mint, claims, failure, handed, signedOut, shut>>

\* A write that fails is noted.
Noted(c, l) ==
    /\ failure' = [failure EXCEPT ![c] = TRUE]
    /\ Go(c, l)
    /\ UNCHANGED store

\* The access token presented is that of the pair, expired or not.
Blacklist(c) ==
    /\ At(c, "blacklist")
    /\ \/ /\ black' = black \cup {tok[c]}
          /\ Go(c, "revoke")
          /\ UNCHANGED <<service, epoch, record, failure>>
       \/ Noted(c, "revoke")
    /\ UNCHANGED <<host, op, tok, mint, claims, handed, history>>

\* revoke_session: one already rotated or evicted is no failure.
EndSession(c) ==
    /\ At(c, "revoke")
    /\ \/ /\ live' = live \ {tok[c]}
          /\ grace' = {p \in grace : succ[p] \in live'}
          /\ Go(c, "pointer")
          /\ UNCHANGED <<lineage, spent, succ, epoch, record, black, failure>>
       \/ Noted(c, "pointer")
    /\ UNCHANGED <<host, op, tok, mint, claims, handed, history>>

\* Mutant of the next: the window of the token is left open.
DroppedNone(c) == {}
\* delete_grace_pointer, and the answer.
Dropped(c) == {tok[c]}
DropPointer(c) ==
    /\ At(c, "pointer")
    /\ grace' = grace \ Dropped(c)
    /\ signedOut' = IF failure[c] THEN signedOut ELSE signedOut \cup {tok[c]}
    /\ Return(c)
    /\ UNCHANGED <<lineage, live, spent, succ, epoch, record, black, host, handed, shut>>

-----------------------------------------------------------------------------
(* The surroundings.                                                       *)

\* The host suspends, reinstates, demotes or deletes the administrator.
HostChange(a) ==
    /\ changes < MaxChanges
    /\ admin.status # "gone"
    /\ a # admin
    /\ admin' = a
    /\ changes' = changes + 1
    /\ entitled' = [c \in Call |-> IF Idle(c) THEN {} ELSE entitled[c] \cup Due(a)]
    /\ shut' = (shut /\ ~Admitted(a))
    /\ UNCHANGED <<store, request, handed, signedOut>>

\* Any call to the store or the repository fails, or the engine stops.
Fail(c) ==
    /\ ~Idle(c)
    /\ Return(c)
    /\ UNCHANGED <<store, host, handed, signedOut, shut>>

\* The grace window of a token closes.
Lapse(t) ==
    /\ t \in grace
    /\ grace' = grace \ {t}
    /\ UNCHANGED <<lineage, live, spent, succ, epoch, record, black, host, request, handed, history>>

PlatformNext ==
    \/ \E c \in Call :
          \/ TurnedAway(c) \/ LogIn(c) \/ Stamp(c) \/ \E n \in Token, l \in Lineage : Create(c, n, l)
          \/ \E t \in Token : Present(c, t) \/ LogOut(c, t)
          \/ \E n \in Token : Rotate(c, n) \/ Recover(c, n)
          \/ StampRotated(c) \/ Verify(c, "verify", "reread") \/ Reread(c) \/ SignAgain(c)
          \/ Verify(c, "final", "me") \/ Deliver(c)
          \/ RevokeAll(c) \/ Sweep(c) \/ Bump(c)
          \/ Blacklist(c) \/ EndSession(c) \/ DropPointer(c)
          \/ Fail(c)
    \/ \E a \in [status : {"active", "blocked", "gone"}, authority : Authority] : HostChange(a)
    \/ \E t \in Token : Lapse(t)

PlatformSpec == PlatformInit /\ [][PlatformNext]_platformVars

-----------------------------------------------------------------------------
(* Properties.                                                             *)

\* A pair is handed over, by a login or a refresh, only with the role and the
\* second-factor flag the administrator held, while active, at some moment
\* since the request began; whatever the record of the session says, and
\* whichever changes the host makes while the request runs.
AuthorityIsCurrent ==
    [][\A c \in Call : handed' # handed /\ ~Idle(c) /\ stage'[c] = "idle" /\ op[c] \in {"login", "refresh"}
          => claims[c].authority \in entitled[c]]_platformVars

\* Once a refresh is refused because the administrator is blocked or gone, and
\* until they are active again, the platform keyspace holds no session: no
\* rotation or recovery that was in flight brings one back.  (A login that had
\* passed the status gate before the sweep may still open one.)
RefusalShutsOut == shut => live = {}

\* A logout answered 204 is final for the pair it named: its access token is
\* refused, and neither a rotation running beside it nor the grace window
\* exchanges its refresh token any more.
LogoutIsFinal == signedOut \subseteq black /\ signedOut \cap (live \cup grace) = {}
=============================================================================
