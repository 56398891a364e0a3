----------------------------- MODULE MCWsTicket -----------------------------
(* Tickets and access tokens on a small instance: the token outlives the    *)
(* ticket by one tick, and the epoch key lives exactly as long as the       *)
(* token, the boundary startup validation still accepts.                    *)
EXTENDS WsTicket, TLC

Symmetry ==
    Permutations(Jti) \cup Permutations(Subject) \cup Permutations(Ticket)
        \cup Permutations(Upgrade)
=============================================================================
