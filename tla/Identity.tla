------------------------------ MODULE Identity ------------------------------
(***************************************************************************)
(* Accounts, their addresses and the doors that create or move them:       *)
(* registration and address verification, sign-in through an OAuth         *)
(* provider, and the two-step change of address.  Sources: register.rs,    *)
(* email_verification.rs, oauth.rs, email_change.rs and the Redis stores   *)
(* of their single-use records.                                            *)
(*                                                                         *)
(* Every store and repository call is a step.  Guessing a code and the     *)
(* password lockout are modelled in Credentials and Lockout; here whoever  *)
(* presents a code or a link received it.                                  *)
(***************************************************************************)
EXTENDS Naturals

CONSTANTS
    Account,    \* repository ids
    Address,
    Link,       \* address-change tokens
    Nonce,      \* OAuth state values
    Call,
    Required,   \* email_verification.required
    NoOne

ASSUME IdentityAssumption == Required \in BOOLEAN /\ NoOne \notin Account \cup Address

VARIABLES
    account,    \* the repository
    otp,        \* addresses with a live verification code
    link,       \* address-change records
    state,      \* live OAuth states
    used,       \* history: links and states handed out so far
    spent,      \* history: OAuth states taken by a callback
    proven,     \* history: addresses whose mailbox returned a secret, or that a
                \* provider or the host vouched for
    pc, job     \* stage and local values of a call

store == <<otp, link, state>>
history == <<used, spent, proven>>
vars == <<account, store, history, pc, job>>

Password == {"none", "old", "new"}
Absent == [email |-> NoOne, verified |-> FALSE, pw |-> "none", oauth |-> FALSE, active |-> FALSE]
NoLink == [id |-> NoOne, email |-> NoOne, pw |-> "none"]
\* What a call carries: an address, an account, or a change of address.
Carry(a, e, pw, flag) == [id |-> a, email |-> e, pw |-> pw, flag |-> flag]
NoJob == Carry(NoOne, NoOne, "none", FALSE)
Stage == {"idle", "create", "code", "owner", "mark", "free", "put", "bound", "recheck", "move",
          "exchange", "identify", "enrol", "link", "refetch", "issue"}

TypeOK ==
    /\ account \in [Account -> [email : Address \cup {NoOne}, verified : BOOLEAN,
                                pw : Password, oauth : BOOLEAN, active : BOOLEAN]]
    /\ otp \in SUBSET Address
    /\ link \in [Link -> [id : Account \cup {NoOne}, email : Address \cup {NoOne}, pw : Password]]
    /\ state \in SUBSET Nonce
    /\ used \in SUBSET (Link \cup Nonce)
    /\ spent \in SUBSET Nonce
    /\ proven \in SUBSET Address
    /\ pc \in [Call -> Stage]
    /\ job \in [Call -> [id : Account \cup {NoOne}, email : Address \cup {NoOne},
                         pw : Password, flag : BOOLEAN]]

Init ==
    /\ account = [a \in Account |-> Absent]
    /\ otp = {}
    /\ link = [l \in Link |-> NoLink]
    /\ state = {}
    /\ used = {}
    /\ spent = {}
    /\ proven = {}
    /\ pc = [c \in Call |-> "idle"]
    /\ job = [c \in Call |-> NoJob]

-----------------------------------------------------------------------------
Goto(c, stage) == pc' = [pc EXCEPT ![c] = stage]
Finish(c) ==
    /\ Goto(c, "idle")
    /\ job' = [job EXCEPT ![c] = NoJob]
Proceed(c, stage) == Goto(c, stage) /\ UNCHANGED job
Begin(c, stage, j) ==
    /\ pc[c] = "idle"
    /\ Goto(c, stage)
    /\ job' = [job EXCEPT ![c] = j]

Exists(a) == a # NoOne /\ account[a] # Absent
\* find_by_email, within the tenant.
At(e) == {a \in Account : account[a].email = e}
\* find_by_oauth_id.
Bound == {a \in Account : account[a].oauth}

-----------------------------------------------------------------------------
(* register, verify_email, resend_verification_email.                      *)

Register(c, e) ==
    /\ At(e) = {}
    /\ Begin(c, "create", Carry(NoOne, e, "none", FALSE))
    /\ UNCHANGED <<account, store, history>>

\* provision_local_user: unverified where verification is required, otherwise
\* what the hook says; the repository refuses an address taken meanwhile.
Create(c) ==
    /\ pc[c] = "create"
    /\ LET e == job[c].email IN
       IF At(e) # {}
       THEN Finish(c) /\ UNCHANGED <<account, proven>>
       ELSE \E a \in Account, v \in (IF Required THEN {FALSE} ELSE BOOLEAN) :
            /\ ~Exists(a)
            /\ account' = [account EXCEPT ![a] =
                   [email |-> e, verified |-> v, pw |-> "old", oauth |-> FALSE, active |-> TRUE]]
            /\ proven' = IF v THEN proven \cup {e} ELSE proven
            /\ IF Required THEN Proceed(c, "code") ELSE Finish(c)
    /\ UNCHANGED <<store, used, spent>>

\* send_verification_otp.
StoreCode(c) ==
    /\ pc[c] = "code"
    /\ otp' = otp \cup {job[c].email}
    /\ Finish(c)
    /\ UNCHANGED <<account, link, state, history>>

\* Past the cooldown: an unverified account of that address gets a new code.
Resend(c, e) ==
    /\ \E a \in At(e) : ~account[a].verified
    /\ Begin(c, "code", Carry(NoOne, e, "none", FALSE))
    /\ UNCHANGED <<account, store, history>>

\* verify_email: the code is consumed ...
Verify(c, e) ==
    /\ e \in otp
    /\ otp' = otp \ {e}
    /\ proven' = proven \cup {e}
    /\ Begin(c, "owner", Carry(NoOne, e, "none", FALSE))
    /\ UNCHANGED <<account, link, state, used, spent>>

\* ... and then the account that has the address is looked up and marked.
Owner(c) ==
    /\ pc[c] = "owner"
    /\ IF At(job[c].email) = {} THEN Finish(c)
       ELSE /\ Goto(c, "mark")
            /\ job' = [job EXCEPT ![c] =
                         Carry(CHOOSE a \in Account : a \in At(job[c].email), NoOne, "none", FALSE)]
    /\ UNCHANGED <<account, store, history>>

Mark(c) ==
    /\ pc[c] = "mark"
    /\ account' = [account EXCEPT ![job[c].id].verified = TRUE]
    /\ Finish(c)
    /\ UNCHANGED <<store, history>>

-----------------------------------------------------------------------------
(* request_email_change, confirm_email_change.                             *)

\* The caller proves the password of an account in standing.
RequestChange(c, a, e) ==
    /\ Exists(a) /\ account[a].active /\ account[a].pw # "none"
    /\ account[a].email # e
    /\ Begin(c, "free", Carry(a, e, account[a].pw, FALSE))
    /\ UNCHANGED <<account, store, history>>

\* assert_address_is_free.
Free(c) ==
    /\ pc[c] = "free"
    /\ IF At(job[c].email) = {} THEN Proceed(c, "put") ELSE Finish(c)
    /\ UNCHANGED <<account, store, history>>

PutLink(c, l) ==
    /\ pc[c] = "put"
    /\ l \notin used
    /\ link' = [link EXCEPT ![l] = [id |-> job[c].id, email |-> job[c].email, pw |-> job[c].pw]]
    /\ used' = used \cup {l}
    /\ Finish(c)
    /\ UNCHANGED <<account, otp, state, spent, proven>>

\* consume_email_change: the new address returned the token.  flag notes that
\* the password it is bound to is already gone.
Confirm(c, l) ==
    /\ link[l] # NoLink
    /\ link' = [link EXCEPT ![l] = NoLink]
    /\ proven' = proven \cup {link[l].email}
    /\ Begin(c, "bound", Carry(link[l].id, link[l].email, link[l].pw,
                               account[link[l].id].pw # link[l].pw))
    /\ UNCHANGED <<account, otp, state, used, spent>>

\* Mutant: the binding to the password is not checked.
JudgeUnbound(c) ==
    /\ pc[c] = "bound"
    /\ LET a == account[job[c].id] IN
       IF a.active /\ a.email # job[c].email THEN Proceed(c, "recheck") ELSE Finish(c)
    /\ UNCHANGED <<account, store, history>>

\* assert_still_bound, assert_user_not_blocked, and not its own address.
Judge(c) ==
    /\ pc[c] = "bound"
    /\ LET a == account[job[c].id] IN
       IF a.pw = job[c].pw /\ a.active /\ a.email # job[c].email
       THEN Proceed(c, "recheck") ELSE Finish(c)
    /\ UNCHANGED <<account, store, history>>

Recheck(c) ==
    /\ pc[c] = "recheck"
    /\ IF At(job[c].email) = {} THEN Proceed(c, "move") ELSE Finish(c)
    /\ UNCHANGED <<account, store, history>>

\* update_email: the repository refuses an address taken meanwhile; the verified
\* flag stays.
Move(c) ==
    /\ pc[c] = "move"
    /\ account' = IF At(job[c].email) # {} THEN account
                  ELSE [account EXCEPT ![job[c].id].email = job[c].email]
    /\ Finish(c)
    /\ UNCHANGED <<store, history>>

-----------------------------------------------------------------------------
(* oauth_initiate, oauth_callback.                                         *)

\* put_state, take_state.
PutState(n) == state' = state \cup {n}
TakeState(n) == n \in state /\ state' = state \ {n}

\* The provider and the tenant are resolved first; then the state is stored.
Initiate(n) ==
    /\ n \notin used
    /\ PutState(n)
    /\ used' = used \cup {n}
    /\ UNCHANGED <<account, otp, link, spent, proven, pc, job>>

\* A callback without the browser's cookie changes nothing.  With it the state
\* is taken, and only then must its provider be the callback's.
Callback(c, n, sameProvider) ==
    /\ TakeState(n)
    /\ spent' = spent \cup {n}
    /\ IF sameProvider THEN Begin(c, "exchange", NoJob)
       ELSE pc[c] = "idle" /\ UNCHANGED <<pc, job>>
    /\ UNCHANGED <<account, otp, link, used, proven>>

\* exchange_code, fetch_profile: flag is the provider's word on the address.
Exchange(c, e, vouched) ==
    /\ pc[c] = "exchange"
    /\ Goto(c, "identify")
    /\ job' = [job EXCEPT ![c] = Carry(NoOne, e, "none", vouched)]
    /\ proven' = IF vouched THEN proven \cup {e} ELSE proven
    /\ UNCHANGED <<account, store, used, spent>>

\* find_by_oauth_id, then the host's hook decides.
Decide(c, decision) ==
    /\ pc[c] = "identify"
    /\ CASE decision = "create" -> Proceed(c, "enrol")
         [] decision = "link" /\ Bound # {} ->
                /\ Goto(c, "link")
                /\ job' = [job EXCEPT ![c] =
                              Carry(CHOOSE a \in Account : a \in Bound, NoOne, "none", FALSE)]
         [] OTHER -> Finish(c)
    /\ UNCHANGED <<account, store, history>>

\* Mutant: whoever holds a provider account has a verified address.
VouchedAlways(c) == TRUE
\* email_verified: what the provider asserted.
Vouched(c) == job[c].flag

\* finish_oauth_login: the standing and the address of the resolved account.
MayEnter(a) == a.active /\ (Required => a.verified)

\* create_with_oauth: the repository refuses an address or identity taken.
Enrol(c) ==
    /\ pc[c] = "enrol"
    /\ IF At(job[c].email) # {} \/ Bound # {}
       THEN Finish(c) /\ UNCHANGED account
       ELSE \E a \in Account :
            /\ ~Exists(a)
            /\ account' = [account EXCEPT ![a] = [email |-> job[c].email, verified |-> Vouched(c),
                                                  pw |-> "none", oauth |-> TRUE, active |-> TRUE]]
            /\ IF MayEnter(account'[a])
               THEN Goto(c, "issue") /\ job' = [job EXCEPT ![c] = Carry(a, NoOne, "none", FALSE)]
               ELSE Finish(c)
    /\ UNCHANGED <<store, history>>

LinkOauth(c) ==
    /\ pc[c] = "link"
    /\ account' = [account EXCEPT ![job[c].id].oauth = TRUE]
    /\ Proceed(c, "refetch")
    /\ UNCHANGED <<store, history>>

Refetch(c) ==
    /\ pc[c] = "refetch"
    /\ IF MayEnter(account[job[c].id])
       THEN Goto(c, "issue") /\ job' = [job EXCEPT ![c] = Carry(job[c].id, NoOne, "none", FALSE)]
       ELSE Finish(c)
    /\ UNCHANGED <<account, store, history>>

\* A session, or a temporary token where a second factor is enrolled.
Issue(c) ==
    /\ pc[c] = "issue"
    /\ Finish(c)
    /\ UNCHANGED <<account, store, history>>

-----------------------------------------------------------------------------
\* A store, repository or provider call fails, or the process dies.
Fail(c) ==
    /\ pc[c] # "idle"
    /\ Finish(c)
    /\ UNCHANGED <<account, store, history>>

\* The host suspends an account; its password is changed or reset; the host
\* attaches the provider identity to it.
HostUpdates(a) ==
    /\ Exists(a)
    /\ \/ account[a].active /\ account' = [account EXCEPT ![a].active = FALSE]
       \/ account[a].pw # "new" /\ account' = [account EXCEPT ![a].pw = "new"]
       \/ Bound = {} /\ account' = [account EXCEPT ![a].oauth = TRUE]
    /\ UNCHANGED <<store, history, pc, job>>

Lapse ==
    /\ \/ \E e \in otp : otp' = otp \ {e} /\ UNCHANGED <<link, state>>
       \/ \E l \in Link : /\ link[l] # NoLink
                          /\ link' = [link EXCEPT ![l] = NoLink] /\ UNCHANGED <<otp, state>>
       \/ \E n \in state : state' = state \ {n} /\ UNCHANGED <<otp, link>>
    /\ UNCHANGED <<account, history, pc, job>>

Enrolling(c) ==
    \/ \E e \in Address : Register(c, e) \/ Resend(c, e) \/ Verify(c, e)
    \/ Create(c) \/ StoreCode(c) \/ Owner(c) \/ Mark(c)
Moving(c) ==
    \/ \E a \in Account, e \in Address : RequestChange(c, a, e)
    \/ \E l \in Link : PutLink(c, l) \/ Confirm(c, l)
    \/ Free(c) \/ Judge(c) \/ Recheck(c) \/ Move(c)
SigningIn(c) ==
    \/ \E n \in Nonce, same \in BOOLEAN : Callback(c, n, same)
    \/ \E e \in Address, vouched \in BOOLEAN : Exchange(c, e, vouched)
    \/ \E decision \in {"create", "link", "reject"} : Decide(c, decision)
    \/ Enrol(c) \/ LinkOauth(c) \/ Refetch(c) \/ Issue(c)

Next ==
    \/ \E c \in Call : Enrolling(c) \/ Moving(c) \/ SigningIn(c) \/ Fail(c)
    \/ \E n \in Nonce : Initiate(n)
    \/ \E a \in Account : HostUpdates(a)
    \/ Lapse

Spec == Init /\ [][Next]_vars

-----------------------------------------------------------------------------
\* A verified account has an address somebody vouched for: its mailbox returned
\* a code or a link, the provider asserted it, or the host did where no
\* verification is required; and this stays so while addresses move between the
\* code's check and the mark (verify_email), or under a flag that
\* confirm_email_change leaves alone.
VerifiedIsProven ==
    \A a \in Account : account[a].verified => account[a].email \in proven

\* Where verification is required, an OAuth sign-in that gets a session or a
\* challenge is for an account whose address was proven.
OauthSessionIsProven ==
    \A c \in Call : Required /\ pc[c] = "issue" => account[job[c].id].email \in proven

\* A change link whose password was replaced before the link came back moves
\* nothing (email_change.rs: the planted request is lost with the password).
StaleLinkMovesNothing ==
    \A c \in Call : pc[c] \in {"recheck", "move"} => ~job[c].flag

\* An OAuth state is a single-use credential: at most one callback takes it.
StateIsSingleUse ==
    INSTANCE SingleUse WITH Credential <- Nonce, live <- state, redeemed <- spent
OauthStateSpec == StateIsSingleUse!Spec
=============================================================================
