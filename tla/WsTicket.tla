------------------------------ MODULE WsTicket ------------------------------
(***************************************************************************)
(* WebSocket upgrade tickets on top of access-token revocation: the mint   *)
(* route turns a verified access token into a single-use wst: record, and  *)
(* the upgrade consumes the record and asks again whether the token behind *)
(* it was revoked.  Sources: adapter_api.rs (ticket_ttl, issue_ws_ticket,  *)
(* redeem_ws_ticket, ws_ticket_is_revoked), axum ws.rs, and the Redis      *)
(* ticket store.                                                           *)
(*                                                                         *)
(* Why an account gate refuses a mint (a pending second factor, a missing  *)
(* or blocked account, a tenant mismatch) is not told apart here.          *)
(***************************************************************************)
EXTENDS TokenEpoch, Integers

CONSTANTS
    Ticket,       \* ticket values; a random one is minted once
    Upgrade,      \* upgrade requests; each presents one ticket
    TicketTtl,    \* WS_TICKET_TTL_SECONDS
    WriteDelay    \* ticks the store may take to apply the SET

ASSUME TicketAssumption ==
    /\ TicketTtl \in Nat \ {0}
    /\ WriteDelay = 1

VARIABLES
    mint,     \* stage of a ticket's mint request
    from,     \* the jti of the claims the mint request verified
    wst,      \* residual lifetime of wst:t; while "clocked", the one to write
    age,      \* ticks since the mint request read its clock
    up,       \* stage of an upgrade request
    shown,    \* the ticket it presents, fixed with the request
    revoked,  \* history: tokens a logout or a bump ever refused
    doomed,   \* history: upgrades that took the ticket of a revoked token
    late      \* history: upgrades whose two reads outlasted the tick

ticketVars == <<mint, from, wst, age, up, shown, revoked, doomed, late>>
allVars == <<vars, ticketVars>>

TicketInit ==
    /\ Init
    /\ mint = [t \in Ticket |-> "none"]
    /\ from \in [Ticket -> Jti]
    /\ wst = [t \in Ticket |-> 0]
    /\ age = [t \in Ticket |-> 0]
    /\ up = [u \in Upgrade |-> "idle"]
    /\ shown \in [Upgrade -> Ticket]
    /\ revoked = {}
    /\ doomed = {}
    /\ late = {}

-----------------------------------------------------------------------------
(* Minting.                                                                *)

SmallerOf(a, b) == IF a < b THEN a ELSE b

\* The route's extractors verify the presented access token.
Verify(t) ==
    /\ mint[t] = "none"
    /\ Accepted(from[t])
    /\ mint' = [mint EXCEPT ![t] = "verified"]
    /\ UNCHANGED <<vars, from, wst, age, up, shown, revoked, doomed, late>>

\* A gate of the route or of issue_ws_ticket refuses the account, or the mint's
\* SET fails: nothing is written.
MintRefused(t) ==
    /\ mint[t] \in {"verified", "clocked"}
    /\ mint' = [mint EXCEPT ![t] = "done"]
    /\ wst' = [wst EXCEPT ![t] = 0]
    /\ UNCHANGED <<vars, from, age, up, shown, revoked, doomed, late>>

\* ticket_ttl: at most what the token has left, less the second held back.
\* Mutant of the next: no second is held back for the write.
TtlNoMargin(j) == SmallerOf(TicketTtl, life[j])
Ttl(j) == SmallerOf(TicketTtl, Dec(life[j]))

\* issue_ws_ticket reads the clock; no lifetime left refuses.
ReadClock(t) ==
    /\ mint[t] = "verified"
    /\ LET ttl == Ttl(from[t]) IN
        /\ mint' = [mint EXCEPT ![t] = IF ttl > 0 THEN "clocked" ELSE "done"]
        /\ wst' = [wst EXCEPT ![t] = ttl]
    /\ age' = [age EXCEPT ![t] = 0]
    /\ UNCHANGED <<vars, from, up, shown, revoked, doomed, late>>

\* mint_inner: SET EX with the lifetime computed before.
Mint(t) ==
    /\ mint[t] = "clocked"
    /\ mint' = [mint EXCEPT ![t] = "done"]
    /\ UNCHANGED <<vars, from, wst, age, up, shown, revoked, doomed, late>>

Stored(t) == mint[t] = "done" /\ wst[t] > 0

-----------------------------------------------------------------------------
(* Redeeming.                                                              *)

\* redeem_inner: GETDEL.  A ticket that is not there refuses and changes nothing.
Take(u) ==
    /\ up[u] = "idle"
    /\ Stored(shown[u])
    /\ up' = [up EXCEPT ![u] = "taken"]
    /\ wst' = [wst EXCEPT ![shown[u]] = 0]
    /\ doomed' = IF from[shown[u]] \in revoked THEN doomed \cup {u} ELSE doomed
    /\ UNCHANGED <<vars, mint, from, age, shown, revoked, late>>

\* ws_ticket_is_revoked, first read: the blacklist.
ReadBlacklist(u) ==
    /\ up[u] = "taken"
    /\ up' = [up EXCEPT ![u] = IF rv[from[shown[u]]] > 0 THEN "refused" ELSE "listed"]
    /\ UNCHANGED <<vars, mint, from, wst, age, shown, revoked, doomed, late>>

BelowEpoch(j) == CurrentEpoch(sub[j]) > stamp[j]

\* Mutant: the ticket's epoch is not compared.
CompareNothing(u) ==
    /\ up[u] = "listed"
    /\ up' = [up EXCEPT ![u] = "open"]
    /\ UNCHANGED <<vars, mint, from, wst, age, shown, revoked, doomed, late>>

\* Second read: the account's epoch against the ticket's.
CompareEpoch(u) ==
    /\ up[u] = "listed"
    /\ up' = [up EXCEPT ![u] = IF BelowEpoch(from[shown[u]]) THEN "refused" ELSE "open"]
    /\ UNCHANGED <<vars, mint, from, wst, age, shown, revoked, doomed, late>>

\* A record that does not parse or names no tenant, a failing read, or the
\* tenant binding of the upgrade refuses after the ticket is gone.
UpgradeRefused(u) ==
    /\ up[u] \in {"taken", "listed"}
    /\ up' = [up EXCEPT ![u] = "refused"]
    /\ UNCHANGED <<vars, mint, from, wst, age, shown, revoked, doomed, late>>

-----------------------------------------------------------------------------
\* The steps of TokenEpoch, with the history of revocations.
Issuing ==
    /\ \E j \in Jti : ReadEpoch(j) \/ Sign(j)
    /\ UNCHANGED ticketVars

Revoking ==
    /\ \/ \E j \in Jti : RevokeAccess(j)
       \/ \E s \in Subject : BumpEpoch(s)
    /\ revoked' = revoked \cup {j \in Jti : Signed(j) /\ life[j] > 0 /\ ~Accepted(j)'}
    /\ UNCHANGED <<mint, from, wst, age, up, shown, doomed, late>>

\* A mint's SET is applied within WriteDelay of the clock reading.
TicketTick ==
    /\ Tick
    /\ \A t \in Ticket : mint[t] = "clocked" => age[t] < WriteDelay
    /\ age' = [t \in Ticket |-> IF mint[t] = "clocked" THEN age[t] + 1 ELSE age[t]]
    /\ wst' = [t \in Ticket |-> IF mint[t] = "done" THEN Dec(wst[t]) ELSE wst[t]]
    /\ late' = late \cup {u \in Upgrade : up[u] \in {"taken", "listed"}}
    /\ UNCHANGED <<mint, from, up, shown, revoked, doomed>>

TicketNext ==
    \/ \E t \in Ticket : Verify(t) \/ MintRefused(t) \/ ReadClock(t) \/ Mint(t)
    \/ \E u \in Upgrade : Take(u) \/ ReadBlacklist(u) \/ CompareEpoch(u) \/ UpgradeRefused(u)
    \/ Issuing
    \/ Revoking
    \/ TicketTick

TicketSpec == TicketInit /\ [][TicketNext]_allVars

-----------------------------------------------------------------------------
\* A ticket never outlives the token it was minted from (the reason ticket_ttl
\* gives for its bound), although the SET lands after the clock was read.
TicketWithinToken ==
    \A t \in Ticket : Stored(t) => wst[t] <= life[from[t]]

\* No socket opens on a token that a logout or a bump had refused before the
\* ticket was taken, although by then the rv: or ep: entry that recorded the
\* refusal may have expired; the two reads of redeem_ws_ticket must only follow
\* the GETDEL within the tick.
RevokedTicketRefused ==
    \A u \in Upgrade : up[u] = "open" /\ u \in doomed => u \in late

=============================================================================
