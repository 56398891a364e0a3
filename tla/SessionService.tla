---------------------------- MODULE SessionService ----------------------------
(***************************************************************************)
(* SessionService (bymax-auth-core/src/services/session.rs): the per-user  *)
(* session cap enforced after a login, and "log out everywhere else".      *)
(* Both list the account's sessions in several round trips and then revoke *)
(* them one by one, while logins, refreshes, logouts and other calls go    *)
(* on.  The epoch bump that ends revoke_all_except_current is in           *)
(* TokenEpoch; here the call ends.                                         *)
(***************************************************************************)
EXTENDS SessionStore

CONSTANTS
    Call,     \* service calls
    Limit     \* the resolved session cap

ASSUME LimitAssumption == Limit \in Nat

VARIABLES
    phase,    \* where a call is
    task,     \* "cap", "resolve" or "others": what its listing is for
    account,  \* the subject it acts for
    self,     \* the session it must not revoke
    unread,   \* index members whose detail has not been read
    listed,   \* members read with a detail
    bare,     \* members read without one
    points,   \* grace pointers of the snapshot
    victims,  \* sessions it has still to revoke
    replied,  \* tokens whose refresh was answered GRACE and not yet recovered
    created,  \* created_at of the detail written for a session
    target    \* history: sessions live when the last listing began

callVars == <<phase, task, account, self, unread, listed, bare, points, victims>>
serviceVars == <<vars, callVars, replied, created, target>>

ServiceInit ==
    /\ Init
    /\ phase = [c \in Call |-> "idle"]
    /\ task = [c \in Call |-> "cap"]
    /\ account = [c \in Call |-> NoSubject]
    /\ self = [c \in Call |-> NoHash]
    /\ unread = [c \in Call |-> {}]
    /\ listed = [c \in Call |-> {}]
    /\ bare = [c \in Call |-> {}]
    /\ points = [c \in Call |-> {}]
    /\ victims = [c \in Call |-> {}]
    /\ replied = {}
    /\ created = [h \in Hash |-> 0]
    /\ target = [c \in Call |-> {}]

At(c, p) == phase[c] = p
Goto(c, p) == phase' = [phase EXCEPT ![c] = p]
Busy == {c \in Call : phase[c] # "idle"}

\* A call starts for a subject and a session; it returns with its locals gone.
Set(c, p, what, s, h) ==
    /\ Goto(c, p)
    /\ task' = [task EXCEPT ![c] = what]
    /\ account' = [account EXCEPT ![c] = s]
    /\ self' = [self EXCEPT ![c] = h]
    /\ unread' = [unread EXCEPT ![c] = {}]
    /\ listed' = [listed EXCEPT ![c] = {}]
    /\ bare' = [bare EXCEPT ![c] = {}]
    /\ points' = [points EXCEPT ![c] = {}]
    /\ victims' = [victims EXCEPT ![c] = {}]
    /\ target' = [target EXCEPT ![c] = {}]
Start(c, what, s, h) == At(c, "idle") /\ Set(c, "members", what, s, h)
Return(c) == Set(c, "idle", "cap", NoSubject, NoHash)

Live(s) == {h \in Hash : rt[h] > 0 /\ rec[h].subject = s}
LiveMembers(s) == {h \in Hash : RtMember(h) \in sess[s]}
PointerMembers(s) == {h \in Hash : RpMember(h) \in sess[s]}

\* identity_record stamps now: the detail of a rotated or recovered session is
\* as young as the rotation.  Sessions are written one at a time, so their
\* number orders them.
Now == Cardinality({h \in Hash : rec[h] # NoRecord})
Detail(n) == created' = [created EXCEPT ![n] = Now]

-----------------------------------------------------------------------------
(* list_session_entries_inner: SMEMBERS, a GET per member, the prune.      *)

ListMembers(c) ==
    /\ At(c, "members")
    /\ unread' = [unread EXCEPT ![c] = LiveMembers(account[c])]
    /\ points' = [points EXCEPT ![c] = PointerMembers(account[c])]
    /\ listed' = [listed EXCEPT ![c] = {}]
    /\ bare' = [bare EXCEPT ![c] = {}]
    /\ target' = [target EXCEPT ![c] = Live(account[c])]
    /\ Goto(c, "details")
    /\ UNCHANGED <<vars, task, account, self, victims, replied, created>>

ReadDetail(c, h) ==
    /\ At(c, "details")
    /\ h \in unread[c]
    /\ unread' = [unread EXCEPT ![c] = @ \ {h}]
    /\ listed' = [listed EXCEPT ![c] = IF sd[h] > 0 THEN @ \cup {h} ELSE @]
    /\ bare' = [bare EXCEPT ![c] = IF sd[h] > 0 THEN @ ELSE @ \cup {h}]
    /\ UNCHANGED <<vars, phase, task, account, self, points, victims, replied, created, target>>

\* Mutant: the display listing, which leaves out a session with no detail.
EntriesListed(c) == listed[c]

\* A member without a detail is an entry unless the prune found its key gone.
Entries(c) == listed[c] \cup {h \in bare[c] : rt[h] > 0}

\* Mutant: what was listed without a detail is dropped without a look at its key.
ListingPruneBlind(c) ==
    /\ At(c, "details")
    /\ unread[c] = {}
    /\ Unindex(account[c], {RtMember(h) : h \in bare[c]})
    /\ UNCHANGED <<rec, rt, sd, rp, cf, succ, moving, fam, famTtl, dead>>

\* session_prune_dead over the bare members and the pointers.
ListingPrune(c) ==
    /\ At(c, "details")
    /\ unread[c] = {}
    /\ PruneDead(account[c], {RtMember(h) : h \in bare[c]} \cup {RpMember(h) : h \in points[c]})

-----------------------------------------------------------------------------
(* enforce_session_limit                                                   *)

\* Oldest first; no readable detail counts as the oldest.
Older(c, g, h) == g \in bare[c] \/ (h \in listed[c] /\ created[g] <= created[h])

\* A cap of 0 keeps the session just created, as a cap of 1 does.
Cap == IF Limit = 0 THEN 1 ELSE Limit
OverLessOne(n) == IF n > Cap + 1 THEN n - Cap ELSE 0   \* mutant
Over(n) == IF n > Cap THEN n - Cap ELSE 0

\* The oldest Over sessions other than the one just created.
EvictChoices(c) ==
    LET others == Entries(c) \ {self[c]}
        over == Over(Cardinality(Entries(c)))
    IN  {v \in SUBSET others :
            /\ Cardinality(v) = IF over < Cardinality(others) THEN over ELSE Cardinality(others)
            /\ \A g \in v, h \in others \ v : Older(c, g, h)}

ChooseVictims(c) ==
    /\ task[c] = "cap"
    /\ ListingPrune(c)
    /\ \E v \in EvictChoices(c) : victims' = [victims EXCEPT ![c] = v]
    /\ Goto(c, "revoke")
    /\ UNCHANGED <<task, account, self, unread, listed, bare, points, replied, created, target>>

-----------------------------------------------------------------------------
(* revoke_all_except_current                                               *)

\* resolve_live_session, first half: the presented token is a live session.
Resolve(c) ==
    /\ task[c] = "resolve"
    /\ ListingPrune(c)
    /\ listed' = [listed EXCEPT ![c] = Entries(c)]
    /\ IF self[c] \in Entries(c)
       THEN Goto(c, "members") /\ task' = [task EXCEPT ![c] = "others"]
       ELSE Goto(c, "pointer") /\ UNCHANGED task
    /\ UNCHANGED <<account, self, unread, bare, points, victims, replied, created, target>>

\* Second half: grace_successor, one GET, against the listing already made.
ResolvePointer(c) ==
    /\ At(c, "pointer")
    /\ IF rp[self[c]] > 0 /\ succ[self[c]] \in listed[c]
       THEN Set(c, "members", "others", account[c], succ[self[c]])
       ELSE Return(c)
    /\ UNCHANGED <<vars, replied, created>>

ChooseOthers(c) ==
    /\ task[c] = "others"
    /\ ListingPrune(c)
    /\ victims' = [victims EXCEPT ![c] = Entries(c) \ {self[c]}]
    /\ Goto(c, "revoke")
    /\ UNCHANGED <<task, account, self, unread, listed, bare, points, replied, created, target>>

\* revoke_session; SessionNotFound is swallowed by both callers.
RevokeVictim(c, v) ==
    /\ At(c, "revoke")
    /\ v \in victims[c]
    /\ IF RtMember(v) \in sess[account[c]] THEN RevokeSession(account[c], v) ELSE UNCHANGED vars
    /\ victims' = [victims EXCEPT ![c] = @ \ {v}]
    /\ UNCHANGED <<phase, task, account, self, unread, listed, bare, points, replied, created, target>>

\* An eviction the store refuses is logged and skipped.
EvictionFails(c, v) ==
    /\ At(c, "revoke")
    /\ task[c] = "cap"
    /\ v \in victims[c]
    /\ victims' = [victims EXCEPT ![c] = @ \ {v}]
    /\ UNCHANGED <<vars, phase, task, account, self, unread, listed, bare, points, replied, created, target>>

\* The cap is enforced.
Enforced(c) ==
    /\ At(c, "revoke")
    /\ task[c] = "cap"
    /\ victims[c] = {}
    /\ Return(c)
    /\ UNCHANGED <<vars, replied, created>>

\* sweep_grace_pointers reads the index.
OthersRevoked(c) ==
    /\ At(c, "revoke")
    /\ task[c] = "others"
    /\ victims[c] = {}
    /\ points' = [points EXCEPT ![c] = PointerMembers(account[c])]
    /\ Goto(c, "sweep")
    /\ UNCHANGED <<vars, task, account, self, unread, listed, bare, victims, replied, created, target>>

\* DEL of one pointer, then its SREM, until none is left.
SweepPointer(c, h) ==
    /\ At(c, "sweep")
    /\ h \in points[c]
    /\ IF rp[h] > 0 THEN DeleteGracePointer(h) ELSE UNCHANGED vars
    /\ unread' = [unread EXCEPT ![c] = {h}]
    /\ Goto(c, "unindex")
    /\ UNCHANGED <<task, account, self, listed, bare, points, victims, replied, created, target>>

UnindexPointer(c) ==
    /\ At(c, "unindex")
    /\ PruneDead(account[c], {RpMember(h) : h \in unread[c]})
    /\ points' = [points EXCEPT ![c] = @ \ unread[c]]
    /\ unread' = [unread EXCEPT ![c] = {}]
    /\ Goto(c, "sweep")
    /\ UNCHANGED <<task, account, self, listed, bare, victims, replied, created, target>>

Swept(c) ==
    /\ At(c, "sweep")
    /\ points[c] = {}
    /\ Return(c)
    /\ UNCHANGED <<vars, replied, created>>

\* A store error, or the engine stopping, between two calls of the store.
Fail(c) ==
    /\ c \in Busy
    /\ Return(c)
    /\ UNCHANGED <<vars, replied, created>>

-----------------------------------------------------------------------------
(* What calls start, and what runs beside them.                            *)

\* A login writes its session, then after_session_created enforces the cap.
Login(c, s, h, f) ==
    /\ CreateSession(s, h, f)
    /\ Start(c, "cap", s, h)
    /\ Detail(h)
    /\ UNCHANGED replied

\* A caller of account s presents the refresh token of hash h.
RevokeAllExceptCurrent(c, s, h) ==
    /\ rec[h] # NoRecord
    /\ rec[h].subject = s
    /\ Start(c, "resolve", s, h)
    /\ UNCHANGED <<vars, replied, created>>

\* A login hands out its token once the cap has been enforced.
HandedOut(h) == \A c \in Busy : ~(task[c] = "cap" /\ self[c] = h)

\* A refresh, as Refresh details it: a rotation and its move, or a grace answer
\* and its recovery.
RefreshRotates(h, n) ==
    /\ HandedOut(h)
    /\ RotateLive(h, n, GraceTtl)
    /\ Detail(n)
    /\ UNCHANGED <<callVars, replied, target>>

RefreshMoves(h) ==
    /\ MoveDetail(h)
    /\ UNCHANGED <<callVars, replied, created, target>>

RefreshIsGrace(h) ==
    /\ GraceHit(h)
    /\ SpendPointer(h)
    /\ replied' = replied \cup {h}
    /\ UNCHANGED <<callVars, created, target>>

RefreshRecovers(h, n) ==
    /\ h \in replied
    /\ RecoverGrace(h, n)
    /\ replied' = replied \ {h}
    /\ Detail(n)
    /\ UNCHANGED <<callVars, target>>

\* The recovery is refused by recover_grace.lua, or the request fails.
RefreshEnds(h) ==
    /\ h \in replied
    /\ replied' = replied \ {h}
    /\ UNCHANGED <<vars, callVars, created, target>>

Logout(s, h) ==
    /\ HandedOut(h)
    /\ RevokeSession(s, h)
    /\ UNCHANGED <<callVars, replied, created, target>>

\* A time unit is coarser than a request.
ServiceTick ==
    /\ Busy = {}
    /\ replied = {}
    /\ Tick
    /\ UNCHANGED <<callVars, replied, created, target>>

CapNext(c) ==
    \/ \E s \in Subject, h \in Hash, f \in Family : Login(c, s, h, f)
    \/ ListMembers(c)
    \/ \E h \in Hash : ReadDetail(c, h)
    \/ ChooseVictims(c)
    \/ \E v \in Hash : RevokeVictim(c, v)
    \/ Enforced(c)

OthersNext(c) ==
    \/ \E s \in Subject, h \in Hash : RevokeAllExceptCurrent(c, s, h)
    \/ Resolve(c)
    \/ ResolvePointer(c)
    \/ ChooseOthers(c)
    \/ OthersRevoked(c)
    \/ \E h \in Hash : SweepPointer(c, h)
    \/ UnindexPointer(c)
    \/ Swept(c)

RefreshStep ==
    \/ \E h, n \in Hash : RefreshRotates(h, n)
    \/ \E h \in Hash : RefreshMoves(h)
    \/ \E h \in Hash : RefreshIsGrace(h)
    \/ \E h, n \in Hash : RefreshRecovers(h, n)
    \/ \E h \in Hash : RefreshEnds(h)

ServiceNext ==
    \/ \E c \in Call : CapNext(c)
    \/ \E c \in Call : OthersNext(c)
    \/ \E c \in Call : Fail(c)
    \/ \E c \in Call, v \in Hash : EvictionFails(c, v)
    \/ RefreshStep
    \/ \E s \in Subject, h \in Hash : Logout(s, h)
    \/ ServiceTick

ServiceSpec == ServiceInit /\ [][ServiceNext]_serviceVars

\* Logins only, and no store error.
LoginsNext ==
    \/ \E c \in Call : CapNext(c)
    \/ ServiceTick

-----------------------------------------------------------------------------
(* Properties.                                                             *)

\* Listing, eviction and sign-out are behaviours of the session store: stale
\* listings and all, every step is a store operation, so no live session ever
\* leaves its index (session_listing.rs prunes on existence alone).
ImplementsStore == Spec

\* When "log out everywhere else" returns, every session that was live when its
\* last listing began is gone, whether or not it had a readable detail, except
\* the one it kept: a stale or bare entry costs nobody's revocation.
ListedSessionsEnded ==
    [][\A c \in Call : Swept(c) => \A h \in target[c] \ {self[c]} : rt[h] = 0]_serviceVars

\* Once every login's enforcement is over, an account where nothing refreshed is
\* within its cap, however the logins interleaved: whoever listed last saw every
\* session written before.
CapSettles ==
    Busy = {} => \A s \in Subject : Cardinality(Live(s)) <= Cap
=============================================================================
