---------------------------- MODULE TokenService ----------------------------
(***************************************************************************)
(* What the refresh endpoint promises a client, whatever the keyspace      *)
(* behind it: a live token is exchanged once; the token it replaced is     *)
(* recognised, and may be exchanged once more inside the grace window      *)
(* while its successor lives.  SessionStore implements this; the clients   *)
(* are modelled against it.                                                *)
(***************************************************************************)
CONSTANTS
    Token,      \* refresh tokens, each generated once
    Lineage,    \* logins, which the tokens they lead to descend from
    Unissued, NoToken

ASSUME ServiceAssumption == Unissued \notin Lineage

VARIABLES
    lineage,    \* the login a token descends from
    live,       \* tokens that can be exchanged
    grace,      \* exchanged tokens that can be exchanged once more
    spent,      \* exchanged tokens that are recognised as such
    succ        \* what a token was exchanged for

service == <<lineage, live, grace, spent, succ>>

ServiceInit ==
    /\ lineage = [t \in Token |-> Unissued]
    /\ live = {}
    /\ grace = {}
    /\ spent = {}
    /\ succ = [t \in Token |-> NoToken]

Fresh(n) == lineage[n] = Unissued

\* A login, or a recovery inside the grace window, adds a session.
Open(n, l) ==
    /\ Fresh(n)
    /\ lineage' = [lineage EXCEPT ![n] = l]
    /\ live' = live \cup {n}
    /\ UNCHANGED <<grace, spent, succ>>

\* t is exchanged for n.  What t itself had replaced has no live successor now.
\* A token of no lineage is not remembered, and the window may have no width.
Exchange(t, n) ==
    /\ t \in live
    /\ Fresh(n)
    /\ lineage' = [lineage EXCEPT ![n] = lineage[t]]
    /\ live' = (live \ {t}) \cup {n}
    /\ LET open == {p \in grace : succ[p] # t} IN grace' \in {open, open \cup {t}}
    /\ spent' \in {spent, spent \cup {t}}
    /\ succ' = [succ EXCEPT ![t] = n]

\* Sessions end, by revocation or expiry; windows are used up or lapse, and
\* markers lapse.
Ends ==
    /\ live' \subseteq live
    /\ grace' \subseteq {p \in grace : succ[p] \in live'}
    /\ spent' \subseteq spent
    /\ UNCHANGED <<lineage, succ>>

ServiceNext ==
    \/ \E n \in Token, l \in Lineage : Open(n, l)
    \/ \E t, n \in Token : Exchange(t, n)
    \/ Ends

ServiceSpec == ServiceInit /\ [][ServiceNext]_service

-----------------------------------------------------------------------------
(* What POST /auth/refresh and POST /auth/logout do for the token a client *)
(* presents.                                                               *)

Login(n, l) == (\A t \in Token : lineage[t] # l) /\ Open(n, l)

\* A live token is exchanged.
Rotated(t, n) == Exchange(t, n) /\ t \in grace' /\ t \in spent'

\* The one further exchange inside the window, in the two steps it takes: the
\* pointer is spent, then recover_grace mints.
GraceFound(t) ==
    /\ t \in grace
    /\ grace' = grace \ {t}
    /\ UNCHANGED <<lineage, live, spent, succ>>
Recovered(t, n) == Open(n, lineage[t])

\* A spent token presented again revokes every session of its login.
Reused(t) ==
    /\ t \in spent \ (live \cup grace)
    /\ live' = {x \in live : lineage[x] # lineage[t]}
    /\ grace' = {p \in grace : succ[p] \in live'}
    /\ UNCHANGED <<lineage, spent, succ>>

Unknown(t) == t \notin live \cup grace \cup spent /\ UNCHANGED service

\* Logout ends the session the token names and the window of the token.
SignedOut(t) ==
    /\ live' = live \ {t}
    /\ grace' = {p \in grace \ {t} : succ[p] \in live'}
    /\ UNCHANGED <<lineage, spent, succ>>
=============================================================================
