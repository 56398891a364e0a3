---------------------------- MODULE NativeClient ----------------------------
(***************************************************************************)
(* The Rust client, bymax-auth-client/src/lib.rs: one stored token pair    *)
(* shared by concurrent calls, the lock that makes the refresh after a 401 *)
(* single-flight, and a network that may lose a request or an answer.  A   *)
(* pair is named by its refresh token.  Every read of the stored pair is a *)
(* step of its own, as the Mutex around it is released in between.         *)
(*                                                                         *)
(* An access token expires between calls, never during one: its lifetime,  *)
(* and the grace window, are long next to a request in flight.             *)
(***************************************************************************)
EXTENDS TokenService

CONSTANTS
    Call,       \* concurrent calls on one AuthClient
    Manual,     \* those that may call refresh() directly
    NoCall

VARIABLES
    cell,       \* tokens: the stored pair
    lock,       \* refresh_lock: the call that holds it
    pc, op,     \* what a call is doing, and for which method
    seen,       \* the access token the call read
    tok,        \* the refresh token it presents, then the pair it was answered
    expired,    \* access tokens the backend no longer accepts
    renewed,    \* history: stale access tokens a 401 has renewed
    broken      \* history: logins whose sequence a lost answer or a logout cut

local == <<cell, lock, pc, op, seen, tok, expired, renewed, broken>>
nativeVars == <<service, local>>

NativeInit ==
    /\ ServiceInit
    /\ cell = NoToken
    /\ lock = NoCall
    /\ pc = [c \in Call |-> "idle"]
    /\ op = [c \in Call |-> "none"]
    /\ seen = [c \in Call |-> NoToken]
    /\ tok = [c \in Call |-> NoToken]
    /\ expired = {} /\ renewed = {} /\ broken = {}

At(c, l) == pc[c] = l
Go(c, l) == pc' = [pc EXCEPT ![c] = l]
Unlock(c) == lock' = IF lock = c THEN NoCall ELSE lock

\* The call returns, with a result or an error; the guard is dropped with it.
Return(c) ==
    /\ Go(c, "idle")
    /\ op' = [op EXCEPT ![c] = "none"]
    /\ seen' = [seen EXCEPT ![c] = NoToken]
    /\ tok' = [tok EXCEPT ![c] = NoToken]
    /\ Unlock(c)

\* login, register and mfa_challenge: the backend opens a session and answers.
LogIn(c, n, l) ==
    /\ At(c, "idle")
    /\ Login(n, l)
    /\ Go(c, "reply")
    /\ op' = [op EXCEPT ![c] = "login"]
    /\ tok' = [tok EXCEPT ![c] = n]
    /\ UNCHANGED <<cell, lock, seen, expired, renewed, broken>>

\* me and logout start from the stored access token; none is NoSession.
Start(c, method, l) ==
    /\ At(c, "idle")
    /\ cell # NoToken
    /\ Go(c, l)
    /\ op' = [op EXCEPT ![c] = method]
    /\ seen' = [seen EXCEPT ![c] = cell]
    /\ UNCHANGED <<service, cell, lock, tok, expired, renewed, broken>>
Me(c) == Start(c, "me", "fetch")
Logout(c) == Start(c, "logout", "collect")

\* fetch_me: a 401 leads to the single-flight refresh, anything else returns.
Fetch(c) ==
    /\ At(c, "fetch")
    /\ IF seen[c] \in expired
       THEN Go(c, "lock") /\ UNCHANGED <<lock, op, seen, tok>>
       ELSE Return(c)
    /\ UNCHANGED <<service, cell, expired, renewed, broken>>

\* Mutant of the next: every waiter refreshes.
AlreadyRotatedIgnored(c) == FALSE

\* refresh_single_flight, once the lock is free: a waiter that finds another
\* access token stored reuses it.
AlreadyRotated(c) == cell \notin {NoToken, seen[c]}
LockFree(c) == lock = NoCall
Acquire(c) ==
    /\ At(c, "lock")
    /\ LockFree(c)
    /\ IF AlreadyRotated(c)
       THEN Go(c, "again") /\ UNCHANGED lock
       ELSE Go(c, "read") /\ lock' = c
    /\ UNCHANGED <<service, cell, op, seen, tok, expired, renewed, broken>>

\* refresh: the refresh token is read from the stored pair of that moment.
Read(c) ==
    /\ At(c, "read")
    /\ IF cell = NoToken
       THEN Return(c)
       ELSE Go(c, "send") /\ tok' = [tok EXCEPT ![c] = cell] /\ UNCHANGED <<lock, op, seen>>
    /\ UNCHANGED <<service, cell, expired, renewed, broken>>

\* refresh called by the application itself, outside the lock, for a pair whose
\* access token has expired.  (Nothing stops an application from refreshing a
\* pair it has just been given, beside a call still sending the one before:
\* that one then arrives after its window closed.)
Refresh(c) ==
    /\ At(c, "idle")
    /\ c \in Manual
    /\ cell \in expired
    /\ Go(c, "send")
    /\ op' = [op EXCEPT ![c] = "refresh"]
    /\ tok' = [tok EXCEPT ![c] = cell]
    /\ UNCHANGED <<service, cell, lock, seen, expired, renewed, broken>>

\* The backend handles the refresh request.  A login that was revoked for
\* reuse is refused by recover_grace.
Presented(c) ==
    /\ At(c, "send")
    /\ \/ \E n \in Token :
            /\ Rotated(tok[c], n)
            /\ Go(c, "reply")
            /\ tok' = [tok EXCEPT ![c] = n]
            /\ UNCHANGED <<lock, op, seen>>
       \/ GraceFound(tok[c]) /\ Go(c, "recover") /\ UNCHANGED <<lock, op, seen, tok>>
       \/ Reused(tok[c]) /\ Return(c)
       \/ Unknown(tok[c]) /\ Return(c)
    /\ UNCHANGED <<cell, expired, renewed, broken>>
Recover(c) ==
    /\ At(c, "recover")
    /\ IF \E x \in live : lineage[x] = lineage[tok[c]]
       THEN \E n \in Token :
            /\ Recovered(tok[c], n)
            /\ Go(c, "reply")
            /\ tok' = [tok EXCEPT ![c] = n]
            /\ UNCHANGED <<lock, op, seen>>
       ELSE Return(c) /\ UNCHANGED service
    /\ UNCHANGED <<cell, expired, renewed, broken>>

\* Mutant of store_tokens: only a login stores its pair.
StoredUnlessRefreshed(c) == IF op[c] = "login" THEN tok[c] ELSE cell
Stored(c) == tok[c]

\* The answer arrives and the pair is stored; me goes on to its second fetch.
Reply(c) ==
    /\ At(c, "reply")
    /\ cell' = Stored(c)
    /\ IF op[c] = "me"
       THEN /\ Go(c, "again")
            /\ renewed' = renewed \cup {seen[c]}
            /\ Unlock(c)
            /\ UNCHANGED <<op, seen, tok>>
       ELSE Return(c) /\ UNCHANGED renewed
    /\ UNCHANGED <<service, expired, broken>>

\* The second fetch of me, whose answer is returned whatever it is.
Again(c) ==
    /\ At(c, "again")
    /\ Return(c)
    /\ UNCHANGED <<service, cell, expired, renewed, broken>>

\* logout: the refresh token is read after the access token, and both are sent.
Collect(c) ==
    /\ At(c, "collect")
    /\ Go(c, "leave")
    /\ tok' = [tok EXCEPT ![c] = cell]
    /\ UNCHANGED <<service, cell, lock, op, seen, expired, renewed, broken>>
Leave(c) ==
    /\ At(c, "leave")
    /\ IF tok[c] = NoToken
       THEN UNCHANGED <<service, broken>>
       ELSE SignedOut(tok[c]) /\ broken' = broken \cup {lineage[tok[c]]}
    /\ expired' = expired \cup {seen[c]}
    /\ Go(c, "left")
    /\ UNCHANGED <<cell, lock, op, seen, tok, renewed>>
Left(c) ==
    /\ At(c, "left")
    /\ cell' = NoToken
    /\ Return(c)
    /\ UNCHANGED <<service, expired, renewed, broken>>

\* A request or an answer is lost: the call returns a transport error and the
\* stored pair stays as it is.
Lose(c) ==
    /\ pc[c] \in {"fetch", "send", "recover", "reply", "again", "leave", "left"}
    /\ broken' = broken \cup IF pc[c] \in {"recover", "reply"} THEN {lineage[tok[c]]} ELSE {}
    /\ Return(c)
    /\ UNCHANGED <<service, cell, expired, renewed>>

\* Between calls the access tokens, and the grace windows, run out.
Expire ==
    /\ \A c \in Call : At(c, "idle")
    /\ expired' = {t \in Token : ~Fresh(t)}
    /\ grace' = {}
    /\ UNCHANGED <<lineage, live, spent, succ, cell, lock, pc, op, seen, tok, renewed, broken>>

NativeNext ==
    \/ \E c \in Call :
          \/ \E n \in Token, l \in Lineage : LogIn(c, n, l)
          \/ Me(c) \/ Logout(c) \/ Refresh(c)
          \/ Fetch(c) \/ Acquire(c) \/ Read(c)
          \/ Presented(c) \/ Recover(c)
          \/ Reply(c) \/ Again(c)
          \/ Collect(c) \/ Leave(c) \/ Left(c)
          \/ Lose(c)
    \/ Expire

NativeSpec == NativeInit /\ [][NativeNext]_nativeVars

-----------------------------------------------------------------------------
(* Properties.                                                             *)

Quiet == \A c \in Call : At(c, "idle")

\* However the calls interleave, and whatever order their answers arrive in,
\* the pair the client is left with can be exchanged, and no login was revoked
\* for reuse: a token is presented at most twice, and the second time inside
\* its window.  A login is excepted once it was logged out, or an answer to
\* one of its refreshes was lost.
HeldPairIsLive ==
    /\ Quiet /\ cell # NoToken /\ lineage[cell] \notin broken => cell \in live
    /\ \A t \in Token : ~Fresh(t) /\ lineage[t] \notin broken
          => \E x \in live : lineage[x] = lineage[t]

\* refresh_single_flight: the 401s of concurrent me calls on one access token
\* renew it once, the explicit refreshes and logins beside them notwithstanding.
\* (After a logout a waiter finds no pair, and renews whatever is stored next.)
RenewedOnce ==
    [][\A c \in Call : Reply(c) /\ op[c] = "me" /\ seen[c] \in renewed
          => lineage[seen[c]] \in broken]_nativeVars

=============================================================================
