---------------------------- MODULE AccountGate ----------------------------
(***************************************************************************)
(* The per-request gate on an account: the status and verified-address     *)
(* cache (us:/uev:), the repository read behind it, its invalidation, and  *)
(* the order in which the extractors and verify_access judge status and    *)
(* second factor.  Sources: account_status.rs, verifier.rs, the Redis      *)
(* status cache, the axum extractors, and the flow that marks an address   *)
(* verified.                                                               *)
(*                                                                         *)
(* One account.  The token is taken as verified (TokenEpoch); what is left *)
(* of its claims is whether a second factor is pending.                    *)
(***************************************************************************)
EXTENDS Naturals

CONSTANTS
    Request,
    CacheTtl,    \* user_status_cache_ttl
    Delay        \* bound on the ticks between a repository read and its write-back

ASSUME GateAssumption == CacheTtl \in Nat \ {0} /\ Delay \in Nat

VARIABLES
    conf,      \* email_verification.required, and whether a cache is in use
    user,      \* repository: status and verified flag of the account
    us, uev,   \* cache entries: value and residual lifetime
    writer,    \* the flow that changes the account
    since,     \* ticks since the account last changed, capped
    gate,      \* where a request is
    ask,       \* what a request's route asks for
    got,       \* facts it has resolved
    held,      \* ticks since its repository read
    settled,   \* history: no delete for the last change failed, and no check
               \* wrote an old value behind one
    current    \* history: requests begun with nothing stale anywhere, and no
               \* change since

cache == <<us, uev>>
host == <<conf, user, writer, since>>
local == <<ask, got, held>>
gateVars == <<host, cache, gate, local, settled, current>>

Status == {"active", "blocked", "gone"}
Flag == {"1", "0"}
Facts == [status : Status, verified : Flag]
None == "none"
NoEntry == [value |-> None, ttl |-> 0]
NoFacts == [status |-> None, verified |-> None]

Plane == {"route", "verifier", "active", "platform"}   \* "active": assert_user_active
Ask == [plane : Plane, status : BOOLEAN, challenge : BOOLEAN]
NoAsk == [plane |-> "route", status |-> FALSE, challenge |-> FALSE]

Outcome == {"admitted", "mfa_required", "blocked", "unverified", "unknown", "error"}
SinceCap == CacheTtl + Delay + 1

\* A registered account, its address verified or not; nothing cached.
GateInit ==
    /\ conf \in [required : BOOLEAN, cached : BOOLEAN]
    /\ user \in [status : {"active"}, verified : Flag]
    /\ us = NoEntry
    /\ uev = NoEntry
    /\ writer = "idle"
    /\ since = SinceCap
    /\ gate = [r \in Request |-> "idle"]
    /\ ask = [r \in Request |-> NoAsk]
    /\ got = [r \in Request |-> NoFacts]
    /\ held = [r \in Request |-> 0]
    /\ settled = TRUE
    /\ current = {}

-----------------------------------------------------------------------------
(* A request.                                                              *)

Pass(r, p) == gate' = [gate EXCEPT ![r] = p]

\* The request is answered and forgets what it held.
Answer(r, outcome) ==
    /\ Pass(r, outcome)
    /\ ask' = [ask EXCEPT ![r] = NoAsk]
    /\ got' = [got EXCEPT ![r] = NoFacts]
    /\ held' = [held EXCEPT ![r] = 0]
    /\ current' = current \ {r}

Waiting == {"fillStatus", "fillFlag"}
Running(r) == gate[r] \notin {"idle"} \cup Outcome

\* The flag is asked for where it is required, except by assert_user_active and
\* on the platform plane.
WantVerified(a) == conf.required /\ a.plane \notin {"active", "platform"}

\* blocked_statuses, compared without regard to case.
Blocked(status) == status = "blocked"

\* A check that still holds what it read before the last change.
StaleCheck(r) == gate[r] \in Waiting /\ got[r] # user

\* Where the gate starts: the platform plane has no cache.
GateStart(a) ==
    IF a.plane = "platform" THEN "admin" ELSE IF conf.cached THEN "status" ELSE "repo"

\* Mutant: the second factor is asked for before the account is judged.
EntryMfaFirst(a) == IF a.challenge THEN "judge" ELSE GateStart(a)

\* UserStatus judges the account; MfaSatisfied does so only when a challenge is
\* pending, and verify_access only when status was asked for.
Entry(a) == IF a.status \/ a.plane = "route" THEN GateStart(a) ELSE "judge"

Check(r, a) ==
    /\ ~Running(r)
    /\ IF a.plane = "active" THEN a.status /\ ~a.challenge ELSE a.status \/ a.challenge
    /\ Pass(r, Entry(a))
    /\ ask' = [ask EXCEPT ![r] = a]
    /\ UNCHANGED <<got, held>>
    /\ current' =
        IF a.plane = "platform" \/ (settled /\ writer = "idle" /\ \A q \in Request : ~StaleCheck(q))
        THEN current \cup {r} ELSE current \ {r}
    /\ UNCHANGED <<host, cache, settled>>

\* account_facts: GET us: ...
ReadStatus(r) ==
    /\ gate[r] = "status"
    /\ got' = [got EXCEPT ![r].status = us.value]
    /\ Pass(r, IF WantVerified(ask[r]) THEN "flag" ELSE IF us.value = None THEN "repo" ELSE "judge")
    /\ UNCHANGED <<host, cache, ask, held, settled, current>>

\* Mutant: a status alone counts as a hit.
HitOnStatus(f) == f.status # None
\* ... then GET uev:; a hit needs every fact asked for.
Hit(f) == f.status # None /\ f.verified # None
ReadFlag(r) ==
    /\ gate[r] = "flag"
    /\ LET f == [got[r] EXCEPT !.verified = uev.value] IN
       IF Hit(f) THEN Pass(r, "judge") /\ got' = [got EXCEPT ![r] = f]
                 ELSE Pass(r, "repo") /\ got' = [got EXCEPT ![r] = NoFacts]
    /\ UNCHANGED <<host, cache, ask, held, settled, current>>

\* The tenant-scoped repository read; a missing account is not a token's.
ReadRepository(r) ==
    /\ gate[r] = "repo"
    /\ IF user.status = "gone"
       THEN Answer(r, "unknown")
       ELSE /\ got' = [got EXCEPT ![r] = user]
            /\ Pass(r, IF conf.cached THEN "fillStatus" ELSE "judge")
            /\ UNCHANGED <<ask, held, current>>
    /\ UNCHANGED <<host, cache, settled>>

\* assert_platform_active: the administrator is read every time.
ReadAdmin(r) ==
    /\ gate[r] = "admin"
    /\ IF user.status = "gone"
       THEN Answer(r, "unknown")
       ELSE /\ got' = [got EXCEPT ![r] = user]
            /\ Pass(r, "judge")
            /\ UNCHANGED <<ask, held, current>>
    /\ UNCHANGED <<host, cache, settled>>

\* put_status, and put_verified where verification is required.
FillStatus(r) ==
    /\ gate[r] = "fillStatus"
    /\ us' = [value |-> got[r].status, ttl |-> CacheTtl]
    /\ settled' = (settled /\ (got[r].status = user.status \/ writer # "idle"))
    /\ IF conf.required
       THEN Pass(r, "fillFlag") /\ UNCHANGED held
       ELSE Pass(r, "judge") /\ held' = [held EXCEPT ![r] = 0]
    /\ UNCHANGED <<host, uev, ask, got, current>>

FillFlag(r) ==
    /\ gate[r] = "fillFlag"
    /\ uev' = [value |-> got[r].verified, ttl |-> CacheTtl]
    /\ settled' = (settled /\ (got[r].verified = user.verified \/ writer = "flag"))
    /\ Pass(r, "judge")
    /\ held' = [held EXCEPT ![r] = 0]
    /\ UNCHANGED <<host, us, ask, got, current>>

\* assert_account_usable: blocked before unverified; then the second factor.
Verdict(a, f) ==
    IF Blocked(f.status) THEN "blocked"
    ELSE IF WantVerified(a) /\ f.verified = "0" THEN "unverified"
    ELSE IF a.challenge THEN "mfa_required"
    ELSE "admitted"

\* A route with both extractors runs the gate again for the second one.
Conclude(r) ==
    /\ gate[r] = "judge"
    /\ LET verdict == Verdict(ask[r], got[r]) IN
       IF verdict = "mfa_required" /\ ask[r].plane = "route" /\ ask[r].status
       THEN /\ Pass(r, GateStart(ask[r]))
            /\ ask' = [ask EXCEPT ![r].status = FALSE]
            /\ got' = [got EXCEPT ![r] = NoFacts]
            /\ UNCHANGED <<held, current>>
       ELSE Answer(r, verdict)
    /\ UNCHANGED <<host, cache, settled>>

\* A cache or repository call fails: the request fails with it.
CallFails(r) ==
    /\ Running(r)
    /\ Answer(r, "error")
    /\ UNCHANGED <<host, cache, settled>>

RequestSteps(r) ==
    \/ \E a \in Ask : Check(r, a)
    \/ ReadStatus(r) \/ ReadFlag(r) \/ ReadRepository(r) \/ ReadAdmin(r)
    \/ FillStatus(r) \/ FillFlag(r) \/ Conclude(r) \/ CallFails(r)

-----------------------------------------------------------------------------
(* A change of the account, and its invalidation.                          *)

\* The host blocks, restores or deletes the account, or verify_email marks the
\* address verified; each then invalidates.
Change(now) ==
    /\ writer = "idle"
    /\ user.status # "gone" /\ now # user
    /\ user' = now
    /\ writer' = IF conf.cached THEN "flag" ELSE "idle"
    /\ since' = 0
    /\ settled' = TRUE
    /\ current' = {}
    /\ UNCHANGED <<conf, cache, gate, local>>

HostChange == \E s \in Status \ {user.status} : Change([user EXCEPT !.status = s])
MarkVerified == Change([user EXCEPT !.verified = "1"])

\* invalidate: DEL uev:, then DEL us:.
DropFlag ==
    /\ writer = "flag"
    /\ uev' = NoEntry
    /\ writer' = "status"
    /\ UNCHANGED <<conf, user, us, since, gate, local, settled, current>>

\* Mutant: the status entry is left to expire.
DropNothing ==
    /\ writer = "status"
    /\ writer' = "idle"
    /\ UNCHANGED <<conf, user, cache, since, gate, local, settled, current>>

DropStatus ==
    /\ writer = "status"
    /\ us' = NoEntry
    /\ writer' = "idle"
    /\ UNCHANGED <<conf, user, uev, since, gate, local, settled, current>>

\* A delete fails; drop_cached_account_facts swallows it.
DropFails ==
    /\ writer # "idle"
    /\ writer' = "idle"
    /\ settled' = FALSE
    /\ UNCHANGED <<conf, user, cache, since, gate, local, current>>

-----------------------------------------------------------------------------
\* Mutant: the entry is written without an expiry.
AgedNever(e) == e
Aged(e) == IF e.ttl > 1 THEN [e EXCEPT !.ttl = @ - 1] ELSE NoEntry

GateTick ==
    /\ \A r \in Request : gate[r] \in Waiting => held[r] < Delay
    /\ us' = Aged(us)
    /\ uev' = Aged(uev)
    /\ since' = IF since < SinceCap THEN since + 1 ELSE since
    /\ held' = [r \in Request |-> IF gate[r] \in Waiting THEN held[r] + 1 ELSE held[r]]
    /\ UNCHANGED <<conf, user, writer, gate, ask, got, settled, current>>

GateNext ==
    \/ \E r \in Request : RequestSteps(r)
    \/ HostChange \/ MarkVerified \/ DropFlag \/ DropStatus \/ DropFails
    \/ GateTick

GateSpec == GateInit /\ [][GateNext]_gateVars

-----------------------------------------------------------------------------
\* The answer the account as it is calls for.
Due(a) ==
    IF ~a.status /\ a.plane # "route" THEN "mfa_required"
    ELSE IF user.status = "gone" THEN "unknown"
    ELSE Verdict(a, user)

\* A request begun when the last change had been invalidated in full and no
\* check held what it read before that change is answered by the account as it
\* is: a blocked account is told so, neither admitted nor sent to a challenge, a
\* newly verified address gets in.  On the platform plane, which reads the
\* repository every time, that holds of every request.
AnswersAreCurrent ==
    [][\A r \in current :
        Running(r) /\ gate'[r] \in Outcome \ {"error"} => gate'[r] = Due(ask[r])]_gateVars

\* Without any invalidation a cached status that no longer holds is gone
\* CacheTtl after the change, and the delay of the check that wrote it: checks
\* do not keep a stale entry alive (the TTL account_status.rs promises).
StaleStatusExpires ==
    us.value \notin {None, user.status} => us.ttl + since <= CacheTtl + Delay
=============================================================================
