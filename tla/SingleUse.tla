------------------------------ MODULE SingleUse ------------------------------
(***************************************************************************)
(* What every single-use credential of the library promises, whatever      *)
(* store call implements it: it is issued once, it may lapse, and it is    *)
(* redeemed at most once; once out it never comes back.                    *)
(***************************************************************************)
CONSTANT Credential

VARIABLES
    live,      \* credentials that can still be redeemed
    redeemed   \* credentials that were

Init == live = {} /\ redeemed = {}

\* Issued credentials come from a random generator: never one seen before.
Issue(c, seen) ==
    /\ c \notin seen
    /\ live' = live \cup {c}
    /\ UNCHANGED redeemed

Redeem(c) ==
    /\ c \in live
    /\ live' = live \ {c}
    /\ redeemed' = redeemed \cup {c}

Lapse(gone) ==
    /\ live' = live \ gone
    /\ UNCHANGED redeemed

Next ==
    \/ \E c \in Credential : Issue(c, live \cup redeemed) \/ Redeem(c)
    \/ \E gone \in SUBSET live : Lapse(gone)

Spec == Init /\ [][Next]_<<live, redeemed>>
=============================================================================
