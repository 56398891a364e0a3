------------------------------ MODULE Delivery ------------------------------
(***************************************************************************)
(* TokenDelivery of the axum adapter against a browser: the session        *)
(* cookies a login or a refresh plants, one set per resolved scope, and    *)
(* the expiries a logout sends back.  A browser tells cookies apart by     *)
(* name, scope and path; tower-cookies' jar, through which the first scope *)
(* is written, only by name, and it expires only what the request carried. *)
(* Several hosts of one site are served; tabs share the cookies.           *)
(***************************************************************************)
EXTENDS Sequences

CONSTANTS
    Host,      \* the names the adapter answers on
    Domain,
    Answer,    \* what resolve_domains may answer: sequences of domains
    Suffix,    \* [Host -> SUBSET Domain]: the ones a browser accepts from a host
    Tab

CookieName == {"access", "refresh", "signal"}
Cookie == [name : CookieName, scope : Host \cup Domain]

VARIABLES
    resolve,   \* cookies.resolve_domains, by host
    delivery,  \* delivery mode
    covered,   \* refresh_cookie_path is a prefix of the logout route
    kept,      \* the browser's cookies; a host for a scope is host-only
    sent,      \* names a tab's logout in flight was sent with, by tab
    held,      \* history: the cookies its host planted, at that moment
    origin,    \* the host it was sent to
    away       \* tabs whose logout is in flight

deliveryVars == <<resolve, delivery, covered, kept, sent, held, origin, away>>
deployment == <<resolve, delivery, covered>>

DeliveryInit ==
    /\ resolve \in [Host -> Answer]
    /\ delivery \in {"cookie", "bearer", "both"}
    /\ covered \in BOOLEAN
    /\ kept = {}
    /\ sent = [t \in Tab |-> {}]
    /\ held = [t \in Tab |-> {}]
    /\ origin \in [Tab -> {CHOOSE h \in Host : TRUE}]
    /\ away = {}

-----------------------------------------------------------------------------
\* One host-only scope when no domain was resolved, else one per domain.
Scopes(h) == IF resolve[h] = <<>> THEN <<h>> ELSE resolve[h]

\* What the browser makes of a Set-Cookie of host h, and sends to it.
Takes(h, scope) == scope = h \/ scope \in Suffix[h]
Sends(h) == {c \in kept : Takes(h, c.scope) /\ (c.name = "refresh" => covered)}

\* write_scopes without remove: every scope, the first through the jar.
Planted(h) == {c \in Cookie : \E i \in DOMAIN Scopes(h) : c.scope = Scopes(h)[i]}

\* Mutant of the next: the expiries are written through the jar alone.
ExpiredFirst(h, names) ==
    {c \in Cookie : c.scope = Scopes(h)[1] /\ c.name \in names}
\* ... with remove: the jar expires the names the request carried, the further
\* scopes are expired whatever it carried.
Expired(h, names) ==
    {c \in Cookie : \E i \in DOMAIN Scopes(h) :
        c.scope = Scopes(h)[i] /\ (i = 1 => c.name \in names)}

-----------------------------------------------------------------------------
\* The answer to a login, a refresh, an MFA challenge or an invitation reaches
\* the browser: deliver_auth.
DeliverAuth(h) ==
    /\ delivery # "bearer"
    /\ kept' = kept \cup {c \in Planted(h) : Takes(h, c.scope)}
    /\ UNCHANGED <<deployment, sent, held, origin, away>>

\* The OAuth callback plants them in every mode.
DeliverForBrowser(h) ==
    /\ kept' = kept \cup {c \in Planted(h) : Takes(h, c.scope)}
    /\ UNCHANGED <<deployment, sent, held, origin, away>>

\* A cookie's Max-Age is over.
Age(c) ==
    /\ c \in kept
    /\ kept' = kept \ {c}
    /\ UNCHANGED <<deployment, sent, held, origin, away>>

SendLogout(t, h) ==
    /\ t \notin away
    /\ away' = away \cup {t}
    /\ origin' = [origin EXCEPT ![t] = h]
    /\ sent' = [sent EXCEPT ![t] = {c.name : c \in Sends(h)}]
    /\ held' = [held EXCEPT ![t] = {c \in kept \cap Planted(h) : Takes(h, c.scope)}]
    /\ UNCHANGED <<deployment, kept>>

Back(t) ==
    /\ t \in away
    /\ away' = away \ {t}
    /\ sent' = [sent EXCEPT ![t] = {}]
    /\ held' = [held EXCEPT ![t] = {}]
    /\ origin' = [origin EXCEPT ![t] = CHOOSE h \in Host : TRUE]
    /\ UNCHANGED deployment

\* 204: clear_session.
LoggedOut(t) ==
    /\ Back(t)
    /\ kept' = kept \ {c \in Expired(origin[t], sent[t]) : Takes(origin[t], c.scope)}

\* The body was malformed or the engine failed: the cookies stay, to retry with.
LogoutRefused(t) == Back(t) /\ UNCHANGED kept

DeliveryNext ==
    \/ \E h \in Host : DeliverAuth(h) \/ DeliverForBrowser(h)
    \/ \E c \in Cookie : Age(c)
    \/ \E t \in Tab :
          LoggedOut(t) \/ LogoutRefused(t) \/ \E h \in Host : SendLogout(t, h)

DeliverySpec == DeliveryInit /\ [][DeliveryNext]_deliveryVars

-----------------------------------------------------------------------------
(* Properties.                                                             *)

\* "a logout that cleared only one would leave the other signed in": a browser
\* that is told 204 keeps none of the cookies the host had planted, on any
\* scope, by the time it asked, whatever other tabs, hosts and ages did to the
\* jar meanwhile; one exception, a refresh cookie whose configured path the
\* logout route is not under.
LogoutClearsJar ==
    [][\A t \in Tab : LoggedOut(t) =>
          \A c \in held[t] : (c.name = "refresh" => covered) => c \notin kept']_deliveryVars
=============================================================================
