---------------------------- MODULE SessionStore ----------------------------
(***************************************************************************)
(* The Redis session keyspace of one plane (dashboard or platform) and the *)
(* operations that change it: bymax-auth-redis/src/stores/session.rs and   *)
(* the Lua scripts under bymax-auth-redis/src/lua.  A script, or a         *)
(* MULTI/EXEC pipeline, is one atomic step of the single-threaded server,  *)
(* so it is one action.  Callers are arbitrary: any operation may follow   *)
(* any other, which covers every interleaving of engine requests and a     *)
(* crash of the engine between two calls.                                  *)
(*                                                                         *)
(* Keys that expire carry their residual lifetime: 0 is "no such key".     *)
(* Tick is the passage of one time unit for the whole server.  A Redis set *)
(* that becomes empty is deleted by the server.                            *)
(***************************************************************************)
EXTENDS Naturals, FiniteSets

CONSTANTS
    Subject,      \* tenant-scoped subject hashes: one per account
    Hash,         \* sha256 of refresh tokens; a token is generated once
    Family,       \* refresh-token lineages, one per login
    NoFamily,     \* the empty family id of a legacy record
    NoSubject,    \* the unknown owner of revoke_family
    NoRecord,     \* no token with this hash has been stored yet
    NoHash,       \* the token has not been rotated
    RefreshTtl,   \* lifetime of a refresh session
    GraceTtl      \* width of the grace window; 0 plants no pointer

Record == [subject : Subject, family : Family \cup {NoFamily}]

ASSUME TtlAssumption ==
    /\ RefreshTtl \in Nat \ {0}
    /\ GraceTtl \in Nat
    /\ GraceTtl < RefreshTtl

ASSUME SentinelAssumption ==
    /\ NoFamily \notin Family
    /\ NoSubject \notin Subject
    /\ NoHash \notin Hash
    /\ NoRecord \notin Record

VARIABLES
    rec,      \* the SessionRecord written under rt:h, kept after the key is gone
    rt,       \* residual lifetime of rt:h, the live session
    sd,       \* residual lifetime of sd:h, the display detail
    rp,       \* residual lifetime of rp:h, the grace pointer
    cf,       \* residual lifetime of cf:h, the consumed-family marker
    succ,     \* the hash a token was rotated into (the value rp:h starts with)
    moving,   \* rotated tokens whose detail has not been moved yet
    fam,      \* fam:f, the live hashes of a lineage
    famTtl,   \* residual lifetime of fam:f
    sess,     \* sess:s, the index of an account: rt and rp members
    sessTtl,  \* residual lifetime of sess:s
    dead      \* history: the families revoke_family has revoked

vars == <<rec, rt, sd, rp, cf, succ, moving, fam, famTtl, sess, sessTtl, dead>>

Ttl == 0..RefreshTtl

\* The members of a session index, as index_member writes them.
RtMember(h) == <<"rt", h>>
RpMember(h) == <<"rp", h>>
Member == {"rt", "rp"} \X Hash

TypeOK ==
    /\ rec \in [Hash -> Record \cup {NoRecord}]
    /\ rt \in [Hash -> Ttl]
    /\ sd \in [Hash -> Ttl]
    /\ rp \in [Hash -> Ttl]
    /\ cf \in [Hash -> Ttl]
    /\ succ \in [Hash -> Hash \cup {NoHash}]
    /\ moving \in SUBSET Hash
    /\ fam \in [Family -> SUBSET Hash]
    /\ famTtl \in [Family -> Ttl]
    /\ sess \in [Subject -> SUBSET Member]
    /\ sessTtl \in [Subject -> Ttl]
    /\ dead \in SUBSET Family

Init ==
    /\ rec = [h \in Hash |-> NoRecord]
    /\ rt = [h \in Hash |-> 0]
    /\ sd = [h \in Hash |-> 0]
    /\ rp = [h \in Hash |-> 0]
    /\ cf = [h \in Hash |-> 0]
    /\ succ = [h \in Hash |-> NoHash]
    /\ moving = {}
    /\ fam = [f \in Family |-> {}]
    /\ famTtl = [f \in Family |-> 0]
    /\ sess = [s \in Subject |-> {}]
    /\ sessTtl = [s \in Subject |-> 0]
    /\ dead = {}

-----------------------------------------------------------------------------
(* Set keys: SADD/SREM followed by EXPIRE, and SREM alone.                 *)

\* Mutant of Reindex: the set key is not re-armed when a member joins.
ReindexNoExpire(s, out, in) ==
    /\ sess' = [sess EXCEPT ![s] = (@ \ out) \cup in]
    /\ sessTtl' = [sessTtl EXCEPT ![s] = IF sess[s] = {} THEN RefreshTtl ELSE @]

\* SREM out, SADD in, EXPIRE on fam:f; a record of no family skips all three.
Refamily(f, out, in) ==
    IF f = NoFamily
    THEN UNCHANGED <<fam, famTtl>>
    ELSE /\ fam' = [fam EXCEPT ![f] = (@ \ out) \cup in]
         /\ famTtl' = [famTtl EXCEPT ![f] = RefreshTtl]

\* SREM out, SADD in, EXPIRE on sess:s.
Reindex(s, out, in) ==
    /\ sess' = [sess EXCEPT ![s] = (@ \ out) \cup in]
    /\ sessTtl' = [sessTtl EXCEPT ![s] = RefreshTtl]

\* SREM out on sess:s, which keeps its expiry unless it becomes empty.
Unindex(s, out) ==
    /\ sess' = [sess EXCEPT ![s] = @ \ out]
    /\ sessTtl' = [sessTtl EXCEPT ![s] = IF sess[s] \subseteq out THEN 0 ELSE @]

Fresh(h) == rec[h] = NoRecord
FreshFamily(f) == \A h \in Hash : rec[h] # NoRecord => rec[h].family # f

-----------------------------------------------------------------------------
(* create_session_inner: one MULTI/EXEC.  A login opens a new family; an   *)
(* older writer's record has none.                                         *)
CreateSession(s, h, f) ==
    /\ Fresh(h)
    /\ f = NoFamily \/ FreshFamily(f)
    /\ rec' = [rec EXCEPT ![h] = [subject |-> s, family |-> f]]
    /\ rt' = [rt EXCEPT ![h] = RefreshTtl]
    /\ sd' = [sd EXCEPT ![h] = RefreshTtl]
    /\ Reindex(s, {}, {RtMember(h)})
    /\ Refamily(f, {}, {h})
    /\ UNCHANGED <<rp, cf, succ, moving, dead>>

\* refresh_rotate.lua, the index members a live rotation adds to sess:s.
RotatedMembers(h, n, grace) ==
    {RtMember(n)} \cup IF grace > 0 THEN {RpMember(h)} ELSE {}

\* The lifetime of the consumed marker; as a mutant, that of the pointer.
ConsumedTtlOfGrace == GraceTtl
ConsumedTtl == RefreshTtl

\* Mutant: the consumed session is read and not deleted.
RotateLiveKeepsOld(h, n, grace) ==
    /\ rt[h] > 0
    /\ Fresh(n)
    /\ rec' = [rec EXCEPT ![n] = rec[h]]
    /\ rt' = [rt EXCEPT ![n] = RefreshTtl]
    /\ rp' = [rp EXCEPT ![h] = grace]
    /\ cf' = IF rec[h].family = NoFamily THEN cf ELSE [cf EXCEPT ![h] = ConsumedTtl]
    /\ succ' = [succ EXCEPT ![h] = n]
    /\ moving' = moving \cup {h}
    /\ Refamily(rec[h].family, {}, {n})
    /\ Reindex(rec[h].subject, {}, RotatedMembers(h, n, grace))
    /\ UNCHANGED <<sd, dead>>

\* refresh_rotate.lua, live branch: h is consumed and replaced by n, whose
\* record inherits the owner and the lineage.  grace is GraceTtl for
\* reissue_tokens and 0 for SessionService::rotate_session.
RotateLive(h, n, grace) ==
    /\ rt[h] > 0
    /\ Fresh(n)
    /\ rec' = [rec EXCEPT ![n] = rec[h]]
    /\ rt' = [rt EXCEPT ![h] = 0, ![n] = RefreshTtl]
    /\ rp' = [rp EXCEPT ![h] = grace]
    /\ cf' = IF rec[h].family = NoFamily THEN cf ELSE [cf EXCEPT ![h] = ConsumedTtl]
    /\ succ' = [succ EXCEPT ![h] = n]
    /\ moving' = moving \cup {h}
    /\ Refamily(rec[h].family, {h}, {n})
    /\ Reindex(rec[h].subject, {RtMember(h)}, RotatedMembers(h, n, grace))
    /\ UNCHANGED <<sd, dead>>

\* move_session_detail: DEL sd:h and SET sd:n, after the script, in rotate_inner.
MoveDetail(h) ==
    /\ h \in moving
    /\ moving' = moving \ {h}
    /\ sd' = [sd EXCEPT ![h] = 0, ![succ[h]] = RefreshTtl]
    /\ UNCHANGED <<rec, rt, rp, cf, succ, fam, famTtl, sess, sessTtl, dead>>

\* What the script answers for a token that has no live session.
GraceHit(h) == rt[h] = 0 /\ rp[h] > 0 /\ rt[succ[h]] > 0
ReuseHit(h) == rt[h] = 0 /\ ~GraceHit(h) /\ cf[h] > 0

\* refresh_rotate.lua, second branch: the pointer of a consumed token is
\* spent whether or not the session it names is still live.
SpendPointer(h) ==
    /\ rt[h] = 0
    /\ rp[h] > 0
    /\ rp' = [rp EXCEPT ![h] = 0]
    /\ UNCHANGED <<rec, rt, sd, cf, succ, moving, fam, famTtl, sess, sessTtl, dead>>

\* recover_grace.lua: the session a grace recovery mints, refused when the
\* account's index or the lineage's set is gone.
RecoverySweptIndexOnly(s, f) == sess[s] = {}   \* mutant
RecoverySwept(s, f) == sess[s] = {} \/ (f # NoFamily /\ fam[f] = {})
RecoverGrace(h, n) ==
    /\ rec[h] # NoRecord
    /\ Fresh(n)
    /\ ~RecoverySwept(rec[h].subject, rec[h].family)
    /\ rec' = [rec EXCEPT ![n] = rec[h]]
    /\ rt' = [rt EXCEPT ![n] = RefreshTtl]
    /\ sd' = [sd EXCEPT ![n] = RefreshTtl]
    /\ Reindex(rec[h].subject, {}, {RtMember(n)})
    /\ Refamily(rec[h].family, {}, {n})
    /\ UNCHANGED <<rp, cf, succ, moving, dead>>

-----------------------------------------------------------------------------
(* Revocations.                                                            *)

\* session_revoke.lua: ownership-checked, and only the primary keys.
RevokeSession(s, h) ==
    /\ RtMember(h) \in sess[s]
    /\ rt' = [rt EXCEPT ![h] = 0]
    /\ sd' = [sd EXCEPT ![h] = 0]
    /\ Unindex(s, {RtMember(h)})
    /\ UNCHANGED <<rec, rp, cf, succ, moving, fam, famTtl, dead>>

\* invalidate_user_sessions.lua: every key the index names, then the index.
RevokeAll(s) ==
    /\ rt' = [h \in Hash |-> IF RtMember(h) \in sess[s] THEN 0 ELSE rt[h]]
    /\ sd' = [h \in Hash |-> IF RtMember(h) \in sess[s] THEN 0 ELSE sd[h]]
    /\ rp' = [h \in Hash |-> IF RpMember(h) \in sess[s] THEN 0 ELSE rp[h]]
    /\ Unindex(s, sess[s])
    /\ UNCHANGED <<rec, cf, succ, moving, fam, famTtl, dead>>

\* revoke_family.lua: every live descendant of one login.  The owner's index
\* is pruned when find_family_owner could name the owner.
RevokeFamily(f, s) ==
    /\ rt' = [h \in Hash |-> IF h \in fam[f] THEN 0 ELSE rt[h]]
    /\ sd' = [h \in Hash |-> IF h \in fam[f] THEN 0 ELSE sd[h]]
    /\ fam' = [fam EXCEPT ![f] = {}]
    /\ famTtl' = [famTtl EXCEPT ![f] = 0]
    /\ IF s = NoSubject
       THEN UNCHANGED <<sess, sessTtl>>
       ELSE Unindex(s, {RtMember(h) : h \in fam[f]})
    /\ dead' = dead \cup {f}
    /\ UNCHANGED <<rec, rp, cf, succ, moving>>

\* delete_grace_pointer_inner, and the DEL of sweep_grace_pointers_inner.
DeleteGracePointer(h) ==
    /\ rp[h] > 0
    /\ rp' = [rp EXCEPT ![h] = 0]
    /\ UNCHANGED <<rec, rt, sd, cf, succ, moving, fam, famTtl, sess, sessTtl, dead>>

\* Whether the key an index member names is gone.
KeyGone(m) == IF m[1] = "rt" THEN rt[m[2]] = 0 ELSE rp[m[2]] = 0

\* session_prune_dead.lua over the candidates of a listing, and the SREM that
\* follows each DEL of sweep_grace_pointers_inner.
PruneDead(s, candidates) ==
    /\ Unindex(s, {m \in candidates : KeyGone(m)})
    /\ UNCHANGED <<rec, rt, sd, rp, cf, succ, moving, fam, famTtl, dead>>

-----------------------------------------------------------------------------
(* One time unit passes on the server.                                     *)
Dec(t) == IF t > 0 THEN t - 1 ELSE 0

Tick ==
    /\ rt' = [h \in Hash |-> Dec(rt[h])]
    /\ sd' = [h \in Hash |-> Dec(sd[h])]
    /\ rp' = [h \in Hash |-> Dec(rp[h])]
    /\ cf' = [h \in Hash |-> Dec(cf[h])]
    /\ famTtl' = [f \in Family |-> Dec(famTtl[f])]
    /\ fam' = [f \in Family |-> IF famTtl[f] > 1 THEN fam[f] ELSE {}]
    /\ sessTtl' = [s \in Subject |-> Dec(sessTtl[s])]
    /\ sess' = [s \in Subject |-> IF sessTtl[s] > 1 THEN sess[s] ELSE {}]
    /\ UNCHANGED <<rec, succ, moving, dead>>

Next ==
    \/ \E s \in Subject, h \in Hash, f \in Family \cup {NoFamily} : CreateSession(s, h, f)
    \/ \E h, n \in Hash, grace \in {0, GraceTtl} : RotateLive(h, n, grace)
    \/ \E h \in Hash : MoveDetail(h)
    \/ \E h \in Hash : SpendPointer(h)
    \/ \E h, n \in Hash : RecoverGrace(h, n)
    \/ \E s \in Subject, h \in Hash : RevokeSession(s, h)
    \/ \E s \in Subject : RevokeAll(s)
    \/ \E f \in Family, h \in Hash : rec[h] # NoRecord /\ rec[h].family = f
          /\ \E s \in {rec[h].subject, NoSubject} : RevokeFamily(f, s)
    \/ \E h \in Hash : DeleteGracePointer(h)
    \/ \E s \in Subject : \E candidates \in SUBSET sess[s] : PruneDead(s, candidates)
    \/ Tick

Spec == Init /\ [][Next]_vars

-----------------------------------------------------------------------------
(* Properties.                                                             *)

\* Every live session is a member of its owner's sess: index, and the index
\* expires no earlier than the session: create_session_inner, refresh_rotate
\* and recover_grace write both in one step and re-arm the index.  A session
\* off the index would outlive every sign-out-everywhere.
LiveSessionIndexed ==
    \A h \in Hash : rt[h] > 0 =>
        /\ RtMember(h) \in sess[rec[h].subject]
        /\ rt[h] <= sessTtl[rec[h].subject]

\* A live grace pointer is a member of the same index (refresh_rotate.lua adds
\* rp:old), so invalidate_user_sessions.lua reaches it too, and it names the
\* successor of the token it was planted for, in the same lineage.
GracePointerIndexed ==
    \A h \in Hash : rp[h] > 0 =>
        /\ RpMember(h) \in sess[rec[h].subject]
        /\ rp[h] <= sessTtl[rec[h].subject]
        /\ succ[h] \in Hash /\ rec[succ[h]] = rec[h]

\* Every live session of a lineage is in fam:f, which expires no earlier:
\* revoke_family.lua kills exactly the members it finds there.
LiveSessionInFamily ==
    \A h \in Hash : rt[h] > 0 /\ rec[h].family # NoFamily =>
        /\ h \in fam[rec[h].family]
        /\ rt[h] <= famTtl[rec[h].family]

\* As long as the session that replaced a token is live, presenting the token
\* again is answered as a grace recovery or as reuse, never as an unknown
\* token: the cf: marker outlives the grace pointer and the successor.
ReplayRecognised ==
    \A h \in Hash :
        (succ[h] # NoHash /\ rec[h].family # NoFamily /\ rt[succ[h]] > 0)
            => GraceHit(h) \/ ReuseHit(h)

\* Once revoke_family has run for a lineage, no session of it is live and no
\* token of it has a grace recovery, whatever was in flight: recover_grace.lua
\* refuses when fam:f is gone and a rotation needs a live session.
RevokedFamilyStaysDead ==
    \A h \in Hash : (rec[h] # NoRecord /\ rec[h].family \in dead)
        => rt[h] = 0 /\ ~GraceHit(h)

\* A revoke-all leaves the account with no live session and no grace pointer:
\* invalidate_user_sessions.lua works from the index alone, so this is where an
\* entry missing from the index would show.
SweepIsTotal ==
    [][\A s \in Subject : RevokeAll(s) =>
          \A h \in Hash : (rec[h] # NoRecord /\ rec[h].subject = s)
              => rt'[h] = 0 /\ rp'[h] = 0]_vars

\* The keyspace, seen as the tokens it would exchange.
Tokens == INSTANCE TokenService WITH
    Token <- Hash,
    Lineage <- Family \cup {NoFamily},
    Unissued <- NoRecord,
    NoToken <- NoHash,
    lineage <- [h \in Hash |-> IF rec[h] = NoRecord THEN NoRecord ELSE rec[h].family],
    live <- {h \in Hash : rt[h] > 0},
    grace <- {h \in Hash : GraceHit(h)},
    spent <- {h \in Hash : cf[h] > 0}

\* The store serves tokens as TokenService promises a client: whatever the
\* scripts and the clock do to the keys, a token is exchanged while it is live,
\* its window opens when it is exchanged and closes for good when its successor
\* is consumed, revoked or gone, and nothing makes an ended token live again.
ServesTokens == Tokens!ServiceSpec

\* A revocation by account, of one session or of all, leaves every other
\* account's sessions and pointers alone: the scripts delete what the index of
\* one subject names, and no operation ever put another subject's key there.
RevocationStaysHome ==
    [][\A s \in Subject : (RevokeAll(s) \/ \E g \in Hash : RevokeSession(s, g)) =>
          \A h \in Hash : (rec[h] # NoRecord /\ rec[h].subject # s)
              => rt'[h] = rt[h] /\ rp'[h] = rp[h]]_vars
=============================================================================
