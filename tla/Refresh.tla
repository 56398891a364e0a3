------------------------------- MODULE Refresh -------------------------------
(***************************************************************************)
(* AuthEngine::refresh and TokenManager::reissue_tokens as processes over  *)
(* the session store.  A request is a sequence of store calls with awaits  *)
(* between them; what it read before an await is kept in its local state   *)
(* and may be stale when it is used.  Every other flow that touches the    *)
(* store in one call (a login's create, a logout's two deletes, a listing) *)
(* is the store action itself; revoke_all_sessions is a sweep and a bump.  *)
(*                                                                         *)
(* A time unit is coarser than a request: Tick waits for the requests in   *)
(* flight.  Fail ends a request between two calls: a store error, a crash  *)
(* of the engine, or the refusal of a record that names no tenant.         *)
(***************************************************************************)
EXTENDS SessionStore

CONSTANTS
    Req,          \* refresh requests
    AbsoluteCap,  \* absolute session lifetime; 0 disables the cap
    MaxSweeps     \* bound: revoke-alls per account

ASSUME CapAssumption == AbsoluteCap \in Nat /\ MaxSweeps \in Nat

VARIABLES
    pc,       \* where a request is
    tok,      \* the hash of the token it presented
    seed,     \* the record its find_session read, NoRecord for a placeholder
    minted,   \* the session it wrote
    probe,    \* members of the family it has still to read
    owner,    \* the owner find_family_owner named
    stamp,    \* the epoch in the access token it signed
    epoch,    \* ep:s
    owed,     \* revoke_all_sessions calls of the host between sweep and bump
    sweeps,   \* history: revoke-alls of an account
    age,      \* time since the login that opened a family
    gen,      \* history: the account's sweeps when the session's login happened
    viaGrace  \* history: sessions with a grace recovery in their ancestry

local == <<pc, tok, seed, minted, probe, owner, stamp>>
account == <<epoch, owed, sweeps>>
history == <<gen, viaGrace>>
refreshVars == <<vars, local, account, age, history>>

PC == {"idle", "rotate", "move", "family", "recover", "sign", "verify", "gate",
       "sweep", "bump", "members", "probe", "served", "refused"}
InFlight == {r \in Req : pc[r] \notin {"idle", "served", "refused"}}
MaxAge == AbsoluteCap + RefreshTtl + 1

RequestTypeOK ==
    /\ pc \in [Req -> PC]
    /\ tok \in [Req -> Hash \cup {NoHash}]
    /\ seed \in [Req -> Record \cup {NoRecord}]
    /\ minted \in [Req -> Hash \cup {NoHash}]
    /\ probe \in [Req -> SUBSET Hash]
    /\ owner \in [Req -> Subject \cup {NoSubject}]
    /\ stamp \in [Req -> Nat]

AccountTypeOK ==
    /\ epoch \in [Subject -> Nat]
    /\ owed \in [Subject -> Nat]
    /\ sweeps \in [Subject -> Nat]
    /\ age \in [Family -> 0..MaxAge]
    /\ gen \in [Hash -> Nat]
    /\ viaGrace \in SUBSET Hash

RefreshTypeOK == TypeOK /\ RequestTypeOK /\ AccountTypeOK

RefreshInit ==
    /\ Init
    /\ pc = [r \in Req |-> "idle"]
    /\ tok = [r \in Req |-> NoHash]
    /\ seed = [r \in Req |-> NoRecord]
    /\ minted = [r \in Req |-> NoHash]
    /\ probe = [r \in Req |-> {}]
    /\ owner = [r \in Req |-> NoSubject]
    /\ stamp = [r \in Req |-> 0]
    /\ epoch = [s \in Subject |-> 0]
    /\ owed = [s \in Subject |-> 0]
    /\ sweeps = [s \in Subject |-> 0]
    /\ age = [f \in Family |-> 0]
    /\ gen = [h \in Hash |-> 0]
    /\ viaGrace = {}

At(r, p) == pc[r] = p
Goto(r, p) == pc' = [pc EXCEPT ![r] = p]
Holder(r) == rec[tok[r]].subject
Lineage(r) == rec[tok[r]].family

-----------------------------------------------------------------------------
(* reissue_tokens                                                          *)

\* assert_within_absolute_lifetime.  A placeholder and a record of no family
\* have no birth time; a cap of 0 disables the check.
WithinLifetime(record) ==
    \/ AbsoluteCap = 0
    \/ record = NoRecord
    \/ record.family = NoFamily
    \/ age[record.family] <= AbsoluteCap

\* find_session, then the cap against what it read.
Begin(r, h) ==
    /\ At(r, "idle")
    /\ rec[h] # NoRecord
    /\ LET read == IF rt[h] > 0 THEN rec[h] ELSE NoRecord
       IN  /\ seed' = [seed EXCEPT ![r] = read]
           /\ Goto(r, IF WithinLifetime(read) THEN "rotate" ELSE "refused")
    /\ tok' = [tok EXCEPT ![r] = h]
    /\ UNCHANGED <<vars, minted, probe, owner, stamp, account, age, history>>

\* Who descends from a login of which sweep generation.
Inherit(h, n, grace) ==
    /\ gen' = [gen EXCEPT ![n] = gen[h]]
    /\ viaGrace' = IF grace \/ h \in viaGrace THEN viaGrace \cup {n} ELSE viaGrace

\* refresh_rotate.lua answers with the old record: the session was replaced.
Rotated(r, n) ==
    /\ At(r, "rotate")
    /\ RotateLive(tok[r], n, GraceTtl)
    /\ minted' = [minted EXCEPT ![r] = n]
    /\ seed' = [seed EXCEPT ![r] = NoRecord]
    /\ Goto(r, "move")
    /\ Inherit(tok[r], n, FALSE)
    /\ UNCHANGED <<tok, probe, owner, stamp, account, age>>

\* move_session_detail, the tail of rotate_inner.
Move(r) ==
    /\ At(r, "move")
    /\ MoveDetail(tok[r])
    /\ Goto(r, "sign")
    /\ UNCHANGED <<tok, seed, minted, probe, owner, stamp, account, age, history>>

\* The script deletes the grace pointer whenever it reads one.
SpendIfHeld(h) == IF rp[h] > 0 THEN SpendPointer(h) ELSE UNCHANGED vars

\* The script's other three answers: GRACE, REUSED and nil.
Answered(r) ==
    /\ At(r, "rotate")
    /\ rt[tok[r]] = 0
    /\ SpendIfHeld(tok[r])
    /\ Goto(r, IF GraceHit(tok[r]) THEN "family"
               ELSE IF ReuseHit(tok[r]) THEN "members" ELSE "refused")
    /\ UNCHANGED <<tok, seed, minted, probe, owner, stamp, account, age, history>>

\* Mutant: the recovered record is not measured against the cap again.
RecoverableUncapped(r) == Lineage(r) = NoFamily \/ fam[Lineage(r)] # {}

\* family_is_alive, then the cap against the recovered record.
Recoverable(r) ==
    /\ Lineage(r) = NoFamily \/ fam[Lineage(r)] # {}
    /\ WithinLifetime(rec[tok[r]])

CheckRecovered(r) ==
    /\ At(r, "family")
    /\ Goto(r, IF Recoverable(r) THEN "recover" ELSE "refused")
    /\ UNCHANGED <<vars, tok, seed, minted, probe, owner, stamp, account, age, history>>

\* Mutant: the grace answer serves the successor the winner already holds.
RecoverServesSuccessor(r, n) ==
    /\ At(r, "recover")
    /\ n = succ[tok[r]]
    /\ minted' = [minted EXCEPT ![r] = n]
    /\ Goto(r, "sign")
    /\ UNCHANGED <<vars, tok, seed, probe, owner, stamp, account, age, history>>

\* create_recovered_session.
Recover(r, n) ==
    /\ At(r, "recover")
    /\ RecoverGrace(tok[r], n)
    /\ minted' = [minted EXCEPT ![r] = n]
    /\ Goto(r, "sign")
    /\ Inherit(tok[r], n, TRUE)
    /\ UNCHANGED <<tok, seed, probe, owner, stamp, account, age>>

RecoverRefused(r) ==
    /\ At(r, "recover")
    /\ RecoverySwept(Holder(r), Lineage(r))
    /\ Goto(r, "refused")
    /\ UNCHANGED <<vars, tok, seed, minted, probe, owner, stamp, account, age, history>>

\* current_epoch, then the access token.
Sign(r) ==
    /\ At(r, "sign")
    /\ stamp' = [stamp EXCEPT ![r] = epoch[Holder(r)]]
    /\ Goto(r, "verify")
    /\ UNCHANGED <<vars, tok, seed, minted, probe, owner, account, age, history>>

-----------------------------------------------------------------------------
(* The reuse arm: find_family_owner, revoke_family, the hook.              *)

ListMembers(r) ==
    /\ At(r, "members")
    /\ probe' = [probe EXCEPT ![r] = fam[Lineage(r)]]
    /\ Goto(r, "probe")
    /\ UNCHANGED <<vars, tok, seed, minted, owner, stamp, account, age, history>>

\* One GET of the loop: the first readable record names the owner.
ProbeMember(r, m) ==
    /\ At(r, "probe")
    /\ m \in probe[r]
    /\ probe' = [probe EXCEPT ![r] = IF rt[m] > 0 THEN {} ELSE @ \ {m}]
    /\ owner' = [owner EXCEPT ![r] = IF rt[m] > 0 THEN rec[m].subject ELSE @]
    /\ UNCHANGED <<vars, pc, tok, seed, minted, stamp, account, age, history>>

\* revoke_family with whatever owner was found; the hook fires for a known one.
Lockout(r) ==
    /\ At(r, "probe")
    /\ probe[r] = {}
    /\ RevokeFamily(Lineage(r), owner[r])
    /\ Goto(r, "refused")
    /\ UNCHANGED <<tok, seed, minted, probe, owner, stamp, account, age, history>>

-----------------------------------------------------------------------------
(* refresh, after reissue_tokens: verify the token just minted, re-read    *)
(* the account, compensate or serve.                                       *)

Verify(r) ==
    /\ At(r, "verify")
    /\ Goto(r, IF stamp[r] < epoch[Holder(r)] THEN "refused" ELSE "gate")
    /\ UNCHANGED <<vars, tok, seed, minted, probe, owner, stamp, account, age, history>>

\* find_by_id and the two gates; the account is the host's, so the read may
\* answer anything.  A missing account is compensated as a blocked one is; an
\* unverified one is refused and keeps its session.
Gate(r, status) ==
    /\ At(r, "gate")
    /\ Goto(r, CASE status = "blocked" -> "sweep"
                 [] status = "unverified" -> "refused"
                 [] status = "active" -> "served")
    /\ UNCHANGED <<vars, tok, seed, minted, probe, owner, stamp, account, age, history>>

\* reissue_access_with_authority: the role or the MFA flag moved, so the token
\* is signed again under the epoch of now.
GateRestamps(r) ==
    /\ At(r, "gate")
    /\ stamp' = [stamp EXCEPT ![r] = epoch[Holder(r)]]
    /\ Goto(r, "served")
    /\ UNCHANGED <<vars, tok, seed, minted, probe, owner, account, age, history>>

Sweep(s) == RevokeAll(s) /\ sweeps' = [sweeps EXCEPT ![s] = @ + 1]
Bump(s) == epoch' = [epoch EXCEPT ![s] = @ + 1]

\* revoke_all_sessions on behalf of the refused caller.
Compensate(r) ==
    /\ At(r, "sweep")
    /\ Sweep(Holder(r))
    /\ Goto(r, "bump")
    /\ UNCHANGED <<tok, seed, minted, probe, owner, stamp, epoch, owed, age, history>>

CompensateBump(r) ==
    /\ At(r, "bump")
    /\ Bump(Holder(r))
    /\ Goto(r, "refused")
    /\ UNCHANGED <<vars, tok, seed, minted, probe, owner, stamp, owed, sweeps, age, history>>

Fail(r) ==
    /\ r \in InFlight
    /\ Goto(r, "refused")
    /\ UNCHANGED <<vars, tok, seed, minted, probe, owner, stamp, account, age, history>>

-----------------------------------------------------------------------------
(* The other flows.                                                        *)

\* issue_tokens.  The credential and the status were checked earlier, so the
\* account's state now is not a guard.
Login(s, h, f) ==
    /\ CreateSession(s, h, f)
    /\ age' = IF f = NoFamily THEN age ELSE [age EXCEPT ![f] = 0]
    /\ gen' = [gen EXCEPT ![h] = sweeps[s]]
    /\ UNCHANGED <<local, account, viaGrace>>

\* revoke_all_sessions by the host, a password reset or an MFA change: the
\* sweep, then the bump, unless the store fails in between.
RevokeAllSessions(s) ==
    /\ sweeps[s] < MaxSweeps
    /\ Sweep(s)
    /\ owed' = [owed EXCEPT ![s] = @ + 1]
    /\ UNCHANGED <<local, epoch, age, history>>

RevokeAllSessionsEnds(s, bumped) ==
    /\ owed[s] > 0
    /\ owed' = [owed EXCEPT ![s] = @ - 1]
    /\ IF bumped THEN Bump(s) ELSE UNCHANGED epoch
    /\ UNCHANGED <<vars, local, sweeps, age, history>>

\* logout and revoke_session, and the listing's prune.
CloseSession(s, h) == RevokeSession(s, h) /\ UNCHANGED <<local, account, age, history>>
ClosePointer(h) == DeleteGracePointer(h) /\ UNCHANGED <<local, account, age, history>>
List(s) == PruneDead(s, sess[s]) /\ UNCHANGED <<local, account, age, history>>

RefreshTick ==
    /\ InFlight = {}
    /\ Tick
    /\ age' = [f \in Family |-> IF age[f] < MaxAge THEN age[f] + 1 ELSE MaxAge]
    /\ UNCHANGED <<local, account, history>>

ReqNext(r) ==
    \/ \E h \in Hash : Begin(r, h)
    \/ \E n \in Hash : Rotated(r, n)
    \/ Move(r)
    \/ Answered(r)
    \/ CheckRecovered(r)
    \/ \E n \in Hash : Recover(r, n)
    \/ RecoverRefused(r)
    \/ Sign(r)
    \/ ListMembers(r)
    \/ \E m \in Hash : ProbeMember(r, m)
    \/ Lockout(r)
    \/ Verify(r)
    \/ \E status \in {"active", "blocked", "unverified"} : Gate(r, status)
    \/ GateRestamps(r)
    \/ Compensate(r)
    \/ CompensateBump(r)
    \/ Fail(r)

RefreshNext ==
    \/ \E r \in Req : ReqNext(r)
    \/ \E s \in Subject, h \in Hash, f \in Family \cup {NoFamily} : Login(s, h, f)
    \/ \E s \in Subject : RevokeAllSessions(s)
    \/ \E s \in Subject, bumped \in BOOLEAN : RevokeAllSessionsEnds(s, bumped)
    \/ \E s \in Subject, h \in Hash : CloseSession(s, h)
    \/ \E h \in Hash : ClosePointer(h)
    \/ \E s \in Subject : List(s)
    \/ RefreshTick

RefreshSpec == RefreshInit /\ [][RefreshNext]_refreshVars

-----------------------------------------------------------------------------
(* Properties.                                                             *)

\* A refresh, with everything it interleaves with, is a behaviour of the session
\* store: every step of reissue_tokens and refresh is one store operation with
\* the arguments the store expects, or leaves the store alone.  What SessionStore
\* guarantees therefore holds whatever requests are in flight.
ImplementsStore == Spec

\* A live rotation always works for the account and lineage the token really
\* belongs to: the find_session that precedes refresh_rotate.lua may be stale,
\* but a session it found missing never comes back, so the script's live branch
\* never runs with the placeholder's subject or family.
RotationNamesOwner ==
    \A r \in Req : At(r, "rotate") /\ rt[tok[r]] > 0 => seed[r] = rec[tok[r]]

\* However many requests present one token, and however they interleave, at most
\* one of them is answered by rotation and at most one by grace recovery: the
\* script consumes the session and the pointer as it reads them.
MintsPerToken ==
    \A q, r \in Req :
        (q # r /\ tok[q] = tok[r] /\ minted[q] # NoHash /\ minted[r] # NoHash)
            => (minted[q] = succ[tok[q]]) # (minted[r] = succ[tok[r]])

\* A lineage ends: no session of it lives longer than one refresh lifetime past
\* the absolute cap, through rotation or through a grace recovery
\* (assert_within_absolute_lifetime, called on both paths).
LineageEnds ==
    AbsoluteCap > 0 =>
        \A h \in Hash : rt[h] > 0 /\ rec[h].family # NoFamily =>
            age[rec[h].family] + rt[h] <= AbsoluteCap + RefreshTtl

\* A session reached from its login by rotations alone postdates every
\* revoke-all of its account: a refresh in flight across revoke_all_sessions
\* finds nothing to rotate (refresh_rotate.lua, the index note).
RotatedSessionsPostdateSweep ==
    \A h \in Hash : rt[h] > 0 /\ h \notin viaGrace
        => gen[h] = sweeps[rec[h].subject]

=============================================================================
