----------------------------- MODULE Invitation -----------------------------
(***************************************************************************)
(* Invitations of one address into one tenant: invite with the supersede   *)
(* protocol on the invitee index, accept, and revoke, each a sequence of   *)
(* store and repository calls that interleave freely.  Sources:            *)
(* invitation.rs, invitation/supersede.rs, single_use.rs and               *)
(* claim_invitation_index.lua.                                             *)
(*                                                                         *)
(* inv:{hash} is rec, invidx:{tenant}:{invitee} is idx with idxTtl.  A     *)
(* raw token leaves the engine only in the mail sent after the claim was   *)
(* confirmed, so only a mailed token can be presented.                     *)
(***************************************************************************)
EXTENDS Naturals

CONSTANTS
    Staff,        \* accounts of the tenant that invite and revoke
    StaffRole,    \* the role each of them starts with
    Role,         \* roles.hierarchy: the declared roles ...
    Includes,     \* ... and the roles each one includes
    Token,        \* invitation tokens; a random one is drawn once
    Call,         \* requests in flight
    InviteTtl,    \* invitations.token_ttl
    Attempts,     \* SUPERSEDE_ATTEMPTS
    NoToken

ASSUME InvitationAssumption ==
    /\ Includes \in [Role -> SUBSET Role]
    /\ StaffRole \in [Staff -> Role]
    /\ InviteTtl \in Nat \ {0}
    /\ Attempts \in Nat \ {0}
    /\ NoToken \notin Token
    /\ Staff # {}

VARIABLES
    rec,        \* inv:t: the role it grants, who granted it, and its residual
                \* lifetime; 0 is absent
    idx,        \* the token invidx: names, or NoToken
    idxTtl,     \* its residual lifetime
    staff,      \* repository: role and standing of each inviter
    pc,         \* stage of a call
    job,        \* its locals; void (history): its inviter has lacked authority
                \* since the token was consumed
    mailed,     \* history: tokens whose invite succeeded
    torn        \* history: an index entry was taken by a call that acted on
                \* another invitation, or a call stopped before a delete it owed

history == <<mailed, torn>>
invitationVars == <<rec, idx, idxTtl, staff, pc, job, history>>

SomeRole == CHOOSE r \in Role : TRUE
NoTerms == [role |-> SomeRole, by |-> CHOOSE p \in Staff : TRUE]
NoJob == [rank |-> SomeRole, terms |-> NoTerms, own |-> NoToken, seen |-> NoToken,
          tries |-> 0, void |-> FALSE]
Record(terms, ttl) == [role |-> terms.role, by |-> terms.by, ttl |-> ttl]
Absent == Record(NoTerms, 0)
AtStart(p) == [role |-> StaffRole[p], active |-> TRUE]
InvitationInit ==
    /\ rec = [t \in Token |-> Absent]
    /\ idx = NoToken
    /\ idxTtl = 0
    /\ staff = [p \in Staff |-> AtStart(p)]
    /\ pc = [c \in Call |-> "idle"]
    /\ job = [c \in Call |-> NoJob]
    /\ mailed = {}
    /\ torn = FALSE

-----------------------------------------------------------------------------
\* has_role: the role itself or one its hierarchy entry includes.
HasRole(holder, required) == holder = required \/ required \in Includes[holder]

Goto(c, stage) == pc' = [pc EXCEPT ![c] = stage]
Finish(c) ==
    /\ pc' = [pc EXCEPT ![c] = "idle"]
    /\ job' = [job EXCEPT ![c] = NoJob]

Live(t) == t # NoToken /\ rec[t].ttl > 0
\* A token no key, call or mail has held yet: values are drawn at random.
Fresh(t) ==
    /\ t \notin mailed \cup {idx}
    /\ ~Live(t)
    /\ \A c \in Call : t \notin {job[c].own, job[c].seen}

\* delete_invitation_by_hash.
Delete(t) == rec' = IF t = NoToken THEN rec ELSE [rec EXCEPT ![t] = Absent]

-----------------------------------------------------------------------------
(* invite.                                                                 *)

\* The inviter is read, scoped to the tenant, and must hold the role granted.
Invite(c, t, p, role) ==
    /\ pc[c] = "idle"
    /\ Fresh(t)
    /\ HasRole(staff[p].role, role)
    /\ Goto(c, "read")
    /\ job' = [job EXCEPT ![c].rank = staff[p].role, ![c].own = t,
                          ![c].terms = [role |-> role, by |-> p]]
    /\ UNCHANGED <<rec, idx, idxTtl, staff, history>>

\* approve_supersede: the pending hash ...
ReadPending(c) ==
    /\ pc[c] = "read"
    /\ Goto(c, IF idx = NoToken THEN "claim" ELSE "judge")
    /\ job' = [job EXCEPT ![c].seen = idx]
    /\ UNCHANGED <<rec, idx, idxTtl, staff, history>>

\* ... and its record, if it can be read: the caller must outrank it.
JudgePending(c) ==
    /\ pc[c] = "judge"
    /\ LET t == job[c].seen IN
        IF Live(t) /\ ~HasRole(job[c].rank, rec[t].role)
        THEN Finish(c)
        ELSE Goto(c, "claim") /\ UNCHANGED job
    /\ UNCHANGED <<rec, idx, idxTtl, staff, history>>

\* claim_invitation_index.lua: set while it still holds what was approved.
CasIndex(expected, t) ==
    /\ idx = expected
    /\ idx' = t
    /\ idxTtl' = InviteTtl

\* claim_invitation_slot: a lost race is retried, up to the attempts.
Claim(c) ==
    /\ pc[c] = "claim"
    /\ \/ /\ CasIndex(job[c].seen, job[c].own)
          /\ Goto(c, IF job[c].seen = NoToken THEN "put" ELSE "drop")
          /\ UNCHANGED job
       \/ /\ idx # job[c].seen
          /\ UNCHANGED <<idx, idxTtl>>
          /\ IF job[c].tries + 1 < Attempts
             THEN /\ Goto(c, "read")
                  /\ job' = [job EXCEPT ![c].tries = @ + 1]
             ELSE Finish(c)
    /\ UNCHANGED <<rec, staff, history>>

\* The superseded record is deleted ...
DropSuperseded(c) ==
    /\ pc[c] = "drop"
    /\ Delete(job[c].seen)
    /\ Goto(c, "put")
    /\ UNCHANGED <<idx, idxTtl, staff, job, history>>

\* ... and the new one written.
Put(c) ==
    /\ pc[c] = "put"
    /\ rec' = [rec EXCEPT ![job[c].own] = Record(job[c].terms, InviteTtl)]
    /\ Goto(c, "confirm")
    /\ UNCHANGED <<idx, idxTtl, staff, job, history>>

\* Mutant: the mail is sent without looking at the index again.
ConfirmBlindly(c) ==
    /\ pc[c] = "confirm"
    /\ mailed' = mailed \cup {job[c].own}
    /\ Finish(c)
    /\ UNCHANGED <<rec, idx, idxTtl, staff, torn>>

\* Mutant: the index is compared but its lifetime is not renewed.
ConfirmNoRenew(c) ==
    /\ pc[c] = "confirm"
    /\ idx = job[c].own
    /\ mailed' = mailed \cup {job[c].own}
    /\ Finish(c)
    /\ UNCHANGED <<rec, idx, idxTtl, staff, torn>>

\* confirm_invitation_claim: the index must still name this invitation, and
\* its lifetime starts over; only then is the mail sent.
Confirm(c) ==
    /\ pc[c] = "confirm"
    /\ CasIndex(job[c].own, job[c].own)
    /\ mailed' = mailed \cup {job[c].own}
    /\ Finish(c)
    /\ UNCHANGED <<rec, staff, torn>>

\* The index moved, or the call failed with or without having renewed it.
Unconfirmed(c) ==
    /\ pc[c] = "confirm"
    /\ \/ CasIndex(job[c].own, job[c].own)
       \/ UNCHANGED <<idx, idxTtl>>
    /\ Goto(c, "withdraw")
    /\ UNCHANGED <<rec, staff, job, history>>

\* The record is withdrawn, best effort; the invite answers its error.
Withdraw(c) ==
    /\ pc[c] = "withdraw"
    /\ Delete(job[c].own) \/ UNCHANGED rec
    /\ Finish(c)
    /\ UNCHANGED <<idx, idxTtl, staff, history>>

-----------------------------------------------------------------------------
(* accept_invitation.                                                      *)

MayGrant(inviter, role) == inviter.active /\ HasRole(inviter.role, role)
Authorised(terms) == MayGrant(staff[terms.by], terms.role)
Taken(t) == [role |-> rec[t].role, by |-> rec[t].by]

\* consume_invitation, after the breach screen: GETDEL.
Accept(c, t) ==
    /\ pc[c] = "idle"
    /\ t \in mailed
    /\ Live(t)
    /\ rec' = [rec EXCEPT ![t] = Absent]
    /\ Goto(c, "untrack")
    /\ job' = [job EXCEPT ![c].own = t, ![c].terms = Taken(t),
                          ![c].void = ~Authorised(Taken(t))]
    /\ UNCHANGED <<idx, idxTtl, staff, mailed, torn>>

\* take_invitation_index drops whatever entry the address has now.
TakeIndex(t) ==
    /\ idx' = NoToken
    /\ idxTtl' = 0
    /\ torn' = (torn \/ idx \notin {t, NoToken})

Untrack(c) ==
    /\ pc[c] = "untrack"
    /\ TakeIndex(job[c].own)
    /\ Goto(c, "vouch")
    /\ UNCHANGED <<rec, staff, job, mailed>>

\* Mutant: the inviter is not looked at again.
VouchSkipped(c) ==
    /\ pc[c] = "vouch"
    /\ Goto(c, "unique")
    /\ UNCHANGED <<rec, idx, idxTtl, staff, job, history>>

\* assert_inviter_still_authorised.
Vouch(c) ==
    /\ pc[c] = "vouch"
    /\ IF Authorised(job[c].terms)
       THEN Goto(c, "unique") /\ UNCHANGED job
       ELSE Finish(c)
    /\ UNCHANGED <<rec, idx, idxTtl, staff, history>>

\* find_by_email, the duplicate guard: another door may have created the
\* account at any time.
Unique(c) ==
    /\ pc[c] = "unique"
    /\ Finish(c) \/ (Goto(c, "create") /\ UNCHANGED job)
    /\ UNCHANGED <<rec, idx, idxTtl, staff, history>>

\* create, which the repository may refuse, and the first session.
Create(c) ==
    /\ pc[c] = "create"
    /\ Finish(c)
    /\ UNCHANGED <<rec, idx, idxTtl, staff, history>>

-----------------------------------------------------------------------------
(* revoke_invitation.                                                      *)

\* The revoker is read and must be in good standing.
Revoke(c, p) ==
    /\ pc[c] = "idle"
    /\ staff[p].active
    /\ Goto(c, "look")
    /\ job' = [job EXCEPT ![c].rank = staff[p].role]
    /\ UNCHANGED <<rec, idx, idxTtl, staff, history>>

Look(c) ==
    /\ pc[c] = "look"
    /\ IF idx = NoToken
       THEN Finish(c)
       ELSE /\ Goto(c, "weigh")
            /\ job' = [job EXCEPT ![c].seen = idx]
    /\ UNCHANGED <<rec, idx, idxTtl, staff, history>>

\* Outranked by the record: answered as if nothing were pending.
Weigh(c) ==
    /\ pc[c] = "weigh"
    /\ LET t == job[c].seen IN
        IF Live(t) /\ ~HasRole(job[c].rank, rec[t].role)
        THEN Finish(c)
        ELSE Goto(c, "untie") /\ UNCHANGED job
    /\ UNCHANGED <<rec, idx, idxTtl, staff, history>>

Untie(c) ==
    /\ pc[c] = "untie"
    /\ TakeIndex(job[c].seen)
    /\ Goto(c, "erase")
    /\ UNCHANGED <<rec, staff, job, mailed>>

Erase(c) ==
    /\ pc[c] = "erase"
    /\ Delete(job[c].seen)
    /\ Finish(c)
    /\ UNCHANGED <<idx, idxTtl, staff, history>>

-----------------------------------------------------------------------------
(* Around the calls.                                                       *)

\* A failing store or repository call, or a crash, ends the call where it is;
\* before "drop" or "erase" it still owes a delete.
Abandon(c) ==
    /\ pc[c] # "idle"
    /\ torn' = (torn \/ pc[c] \in {"drop", "erase"})
    /\ Finish(c)
    /\ UNCHANGED <<rec, idx, idxTtl, staff, mailed>>

\* The host takes an account's role or standing away, or gives it back; a
\* bound: one account at a time lacks one of the two.
HostUpdates(p, now) ==
    /\ staff[p] # now
    /\ now.active \/ now.role = StaffRole[p]
    /\ HasRole(StaffRole[p], now.role)
    /\ \A q \in Staff \ {p} : staff[q] = AtStart(q)
    /\ staff' = [staff EXCEPT ![p] = now]
    /\ job' = [c \in Call |->
                 IF /\ pc[c] \in {"untrack", "vouch"}
                    /\ job[c].terms.by = p
                    /\ MayGrant(now, job[c].terms.role)
                 THEN [job[c] EXCEPT !.void = FALSE] ELSE job[c]]
    /\ UNCHANGED <<rec, idx, idxTtl, pc, history>>

InvitationTick ==
    /\ rec' = [t \in Token |->
                 IF rec[t].ttl > 1 THEN [rec[t] EXCEPT !.ttl = @ - 1] ELSE Absent]
    /\ idxTtl' = IF idxTtl > 0 THEN idxTtl - 1 ELSE 0
    /\ idx' = IF idxTtl > 1 THEN idx ELSE NoToken
    /\ UNCHANGED <<staff, pc, job, history>>

InviteSteps(c) ==
    \/ \E t \in Token, p \in Staff, role \in Role : Invite(c, t, p, role)
    \/ ReadPending(c) \/ JudgePending(c) \/ Claim(c) \/ DropSuperseded(c)
    \/ Put(c) \/ Confirm(c) \/ Unconfirmed(c) \/ Withdraw(c)

AcceptSteps(c) ==
    \/ \E t \in Token : Accept(c, t)
    \/ Untrack(c) \/ Vouch(c) \/ Unique(c) \/ Create(c)

RevokeSteps(c) ==
    \/ \E p \in Staff : Revoke(c, p)
    \/ Look(c) \/ Weigh(c) \/ Untie(c) \/ Erase(c)

InvitationNext ==
    \/ \E c \in Call : InviteSteps(c) \/ AcceptSteps(c) \/ RevokeSteps(c) \/ Abandon(c)
    \/ \E p \in Staff, now \in [role : Role, active : BOOLEAN] : HostUpdates(p, now)
    \/ InvitationTick

InvitationSpec == InvitationInit /\ [][InvitationNext]_invitationVars

-----------------------------------------------------------------------------
\* An invitation somebody can still accept.
Redeemable(t) == t \in mailed /\ Live(t)

\* The index reaches every invitation that can still be accepted: it names it,
\* or a call that displaced it is about to delete it.  So re-inviting never
\* leaves two, and a revoke finds the one there is, through lost claims, expiry
\* at different times and failing confirmations; what breaks it is an entry
\* taken by an accept or a revoke that acted on another invitation, and a call
\* that stops between taking the entry and the delete (torn).
IndexReaches ==
    ~torn => \A t \in Token :
        Redeemable(t) => \/ idx = t
                         \/ \E c \in Call : pc[c] \in {"drop", "erase"} /\ job[c].seen = t

\* accept_invitation never gets as far as creating an account when the inviter
\* was without authority from the moment the token was consumed, however the
\* host's changes interleave (assert_inviter_still_authorised).
AuthorityAtAccept ==
    \A c \in Call : pc[c] \in {"unique", "create"} => ~job[c].void

\* The rule of supersede.rs: the caller must outrank the role the pending
\* invitation grants.
OutrankedNeverSupersedes ==
    [][\A c \in Call : DropSuperseded(c) /\ Redeemable(job[c].seen)
          => HasRole(job[c].rank, rec[job[c].seen].role)]_invitationVars
=============================================================================
