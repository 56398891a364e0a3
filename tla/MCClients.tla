----------------------------- MODULE MCClients -----------------------------
(* The two clients on a small instance, one of them chosen at the start.     *)
(* Native: three calls.  Browser: two calls, or three fetches of one tab.    *)
(* The fourth token is issued for a first login, to a call that is alone.    *)
(* Tokens and logins are interchangeable, and are numbered in the order they *)
(* are issued.                                                               *)
EXTENDS Browser, FiniteSets, TLC

CONSTANT Manual

VARIABLES kind, cell, lock, renewed

Native == INSTANCE NativeClient

nativeOnly == <<cell, lock, renewed>>
webOnly == <<jar, slot, tab, hops, revoked>>

MCInit ==
    /\ kind \in {"native", "web"}
    /\ Native!NativeInit
    /\ BrowserInit

Busy == {c \in Call : pc[c] # "idle"}
Issued == {t \in Token : lineage[t] # Unissued}
LoggedIn == {l \in Lineage : \E t \in Token : lineage[t] = l}
InOrder == Issued = 1..Cardinality(Issued) /\ LoggedIn = 1..Cardinality(LoggedIn)
OneTab == \E b \in Tab : \A c \in Busy : tab[c] = b

MCNext ==
    /\ \/ /\ kind = "native" /\ Native!NativeNext /\ UNCHANGED webOnly
       \/ /\ kind = "web" /\ BrowserNext /\ UNCHANGED nativeOnly
          /\ Cardinality(Busy') <= 2 \/ OneTab'
    /\ Cardinality(LoggedIn') <= 1 \/ Cardinality(Issued') <= 3
    /\ Cardinality(Busy') <= 2 \/ (Cardinality(LoggedIn') <= 1 /\ Cardinality(Issued') <= 3)
    /\ Cardinality(Issued') <= 3 \/ Cardinality(Busy') <= 1
    /\ InOrder'
    /\ UNCHANGED kind

MCSpec == MCInit /\ [][MCNext]_<<kind, Native!nativeVars, webOnly>>

\* NativeClient's guarantee: whatever the order of calls and answers, the pair
\* the Rust client is left with can be exchanged.
HeldPairIsLive == kind = "native" => Native!HeldPairIsLive

\* NativeClient's guarantee: concurrent 401s on one access token renew it once
\* (refresh_single_flight).
RenewedOnce == Native!RenewedOnce

\* A successor is read while the window of its token is open, and a renewed token
\* where somebody holds it: states that differ elsewhere have the same future and
\* one of them is explored.
View ==
    <<kind, lineage, live, grace, spent, [t \in grace |-> succ[t]], local, cell, lock,
      renewed \cap ({cell} \cup {seen[c] : c \in Call})>>

Symmetry == Permutations(Tab) \cup Permutations(Call \ Manual)
=============================================================================
