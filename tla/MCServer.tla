------------------------------ MODULE MCServer ------------------------------
(* Five parts of the server that share no state, each on a small instance,   *)
(* one of them chosen at the start.  Key rotation is taken in two workloads, *)
(* signing secrets and MFA keys, and the platform plane in two, one with     *)
(* sign-out-everywhere and changes by the host, one with logout; a second    *)
(* login comes before the first sign-out-everywhere.                         *)
EXTENDS Lockout, KeyRotation, Platform, Delivery, RateLimit, TLC

VARIABLE kind

\* The browser accepts both domains from one of the hosts.
MCSuffix == [h \in Host |-> IF h = "app" THEN {"site", "sub"} ELSE {"site"}]
MCAnswer == {<<>>, <<"site", "sub">>, <<"sub", "site">>}

\* Two of the clients are in one /64.
MCNet == [a \in Client \cup Proxy |-> IF a = "e" THEN "d" ELSE a]

\* At most two proxies and one entry of the client's own.
MCPath == {<<>>} \cup {<<p>> : p \in Proxy} \cup {<<p, q>> : p, q \in Proxy}
MCWritten == {<<>>} \cup {<<x>> : x \in Client \cup Proxy \cup {Junk}}

serverVars == <<kind, lockoutVars, rotationVars, platformVars, deliveryVars, limitVars>>

MCInit ==
    /\ kind \in {"lockout", "signing", "cipher", "authority", "logout", "delivery", "limit"}
    /\ LockoutInit /\ RotationInit /\ PlatformInit /\ DeliveryInit /\ LimitInit
    /\ kind # "lockout" => ident \in [Attempt -> LoginId]
    /\ kind \notin {"signing", "cipher"} => routine
    /\ resolve["api"] = <<"site", "sub">>
    /\ delivery # "both"
    /\ kind # "delivery" => covered /\ delivery = "cookie" /\ resolve["app"] = <<>>
    /\ kind # "limit" => source = "peer"

Issued == {t \in Token : lineage[t] # Unissued}
LoggedIn == {l \in Lineage : \E t \in Token : lineage[t] = l}
InOrder == Issued = 1..Cardinality(Issued) /\ LoggedIn = 1..Cardinality(LoggedIn)

Routes == {"none", "login", "refresh"} \cup IF kind = "logout" THEN {"logout"} ELSE {"revoke"}

MCNext ==
    \/ /\ kind = "lockout" /\ LockoutNext
       /\ UNCHANGED <<kind, rotationVars, platformVars, deliveryVars, limitVars>>
    \/ /\ kind = "signing" /\ RotationNext /\ target'.key = 1 /\ opened' = opened
       /\ UNCHANGED <<kind, lockoutVars, platformVars, deliveryVars, limitVars>>
    \/ /\ kind = "cipher" /\ RotationNext /\ out' = {} /\ target'.secret = First /\ ep' = ep
       /\ UNCHANGED <<kind, lockoutVars, platformVars, deliveryVars, limitVars>>
    \/ /\ kind \in {"authority", "logout"} /\ PlatformNext
       /\ InOrder' /\ \A c \in Call : op'[c] \in Routes
       /\ Cardinality(LoggedIn') <= 1 \/ (kind = "authority" /\ epoch' = 0)
       /\ kind = "logout" => changes' = 0
       /\ UNCHANGED <<kind, lockoutVars, rotationVars, deliveryVars, limitVars>>
    \/ /\ kind = "delivery" /\ DeliveryNext
       /\ UNCHANGED <<kind, lockoutVars, rotationVars, platformVars, limitVars>>
    \/ /\ kind = "limit" /\ LimitNext
       /\ UNCHANGED <<kind, lockoutVars, rotationVars, platformVars, deliveryVars>>

\* Time passes.
MCSpec == MCInit /\ [][MCNext]_serverVars /\ WF_serverVars(kind = "lockout" /\ LockoutTick
              /\ UNCHANGED <<kind, rotationVars, platformVars, deliveryVars, limitVars>>)

\* Calls are interchangeable.  The one liveness property and its fairness are
\* Lockout's, whose behaviours leave every call idle.
Symmetry == Permutations(Call)
=============================================================================
