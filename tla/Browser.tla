------------------------------ MODULE Browser ------------------------------
(***************************************************************************)
(* A browser signed in through the Next.js adapter of packages/rust-auth:  *)
(* tabs that share one cookie jar, the fetch wrapper of client/index.ts    *)
(* with its one refresh in flight per tab, page navigations through        *)
(* nextjs/proxy.ts, and the refresh, silent-refresh and logout handlers of *)
(* nextjs/handlers.ts between the browser and the backend.  The three      *)
(* session cookies are set and cleared together and are named by the       *)
(* refresh token; a request carries the cookies of the moment it is sent,  *)
(* and an answer changes them when it arrives.  The handlers are mounted   *)
(* where the browser sends them the refresh cookie, and the proxy verifies *)
(* with the secret the backend signs with.                                 *)
(*                                                                         *)
(* An access token expires between calls, as in NativeClient.              *)
(***************************************************************************)
EXTENDS TokenService, Naturals

CONSTANTS
    Call,       \* fetches, navigations, logins and logouts in progress
    Tab,
    NoCall, NoTab

VARIABLES
    jar,        \* the session cookies
    slot,       \* refreshInFlight of a tab: the call whose refresh it is
    pc, op, tab,
    seen,       \* the access cookie a fetch was sent with
    tok,        \* the refresh cookie a request was sent with, then its answer
    hops,       \* silent refreshes a navigation has been redirected through
    expired,    \* access tokens past their lifetime
    revoked,    \* access tokens blacklisted by a logout
    broken      \* history: logins whose sequence a lost answer or a logout cut

local == <<jar, slot, pc, op, tab, seen, tok, hops, expired, revoked, broken>>
browserVars == <<service, local>>

BrowserInit ==
    /\ ServiceInit
    /\ jar = NoToken
    /\ slot = [b \in Tab |-> NoCall]
    /\ pc = [c \in Call |-> "idle"]
    /\ op = [c \in Call |-> "none"]
    /\ tab = [c \in Call |-> NoTab]
    /\ seen = [c \in Call |-> NoToken]
    /\ tok = [c \in Call |-> NoToken]
    /\ hops = [c \in Call |-> 0]
    /\ expired = {} /\ revoked = {} /\ broken = {}

At(c, l) == pc[c] = l
Go(c, l) == pc' = [pc EXCEPT ![c] = l]
Send(c, l) == Go(c, l) /\ tok' = [tok EXCEPT ![c] = jar]

Return(done) ==
    /\ pc' = [c \in Call |-> IF c \in done THEN "idle" ELSE pc[c]]
    /\ op' = [c \in Call |-> IF c \in done THEN "none" ELSE op[c]]
    /\ tab' = [c \in Call |-> IF c \in done THEN NoTab ELSE tab[c]]
    /\ seen' = [c \in Call |-> IF c \in done THEN NoToken ELSE seen[c]]
    /\ tok' = [c \in Call |-> IF c \in done THEN NoToken ELSE tok[c]]
    /\ hops' = [c \in Call |-> IF c \in done THEN 0 ELSE hops[c]]

Begin(c, method) == At(c, "idle") /\ op' = [op EXCEPT ![c] = method]

\* The call is over.  When it held its tab's refresh, every fetch that awaited
\* it is resumed: it sends its request once more, or gives up, and is over too.
Over(c) ==
    IF \E b \in Tab : slot[b] = c
    THEN /\ Return({c} \cup {d \in Call : At(d, "wait") /\ tab[d] = tab[c]})
         /\ slot' = [slot EXCEPT ![tab[c]] = NoCall]
    ELSE Return({c}) /\ UNCHANGED slot

-----------------------------------------------------------------------------
(* The fetch wrapper, client/index.ts.                                     *)

Fetch(c, b) ==
    /\ Begin(c, "fetch")
    /\ jar # NoToken
    /\ Go(c, "sent")
    /\ tab' = [tab EXCEPT ![c] = b]
    /\ seen' = [seen EXCEPT ![c] = jar]
    /\ UNCHANGED <<service, jar, slot, tok, hops, expired, revoked, broken>>

\* A 401 leads to runRefresh, any other answer is returned.
Answered(c) ==
    /\ At(c, "sent")
    /\ IF seen[c] \in expired \cup revoked
       THEN Go(c, "burst") /\ UNCHANGED <<slot, op, tab, seen, tok, hops>>
       ELSE Over(c)
    /\ UNCHANGED <<service, jar, expired, revoked, broken>>

\* Mutant: every 401 starts a refresh of its own.
InFlightNever(c) == FALSE

\* runRefresh: join the refresh in flight, or start one.
InFlight(c) == slot[tab[c]] # NoCall
RunRefresh(c) ==
    /\ At(c, "burst")
    /\ IF InFlight(c)
       THEN Go(c, "wait") /\ UNCHANGED <<slot, tok>>
       ELSE Send(c, "send") /\ slot' = [slot EXCEPT ![tab[c]] = c]
    /\ UNCHANGED <<service, jar, op, tab, seen, hops, expired, revoked, broken>>

-----------------------------------------------------------------------------
(* A navigation, proxy.ts.                                                 *)

Navigate(c) ==
    /\ Begin(c, "navigate")
    /\ jar # NoToken
    /\ Go(c, "nav")
    /\ UNCHANGED <<service, jar, slot, tab, seen, tok, hops, expired, revoked, broken>>

\* The page is served for a verified access token; without a session cookie the
\* login page is.  In between the browser is sent through silent refresh, with
\* a bounce counter the way back drops, so it is always zero here.
Proxy(c) ==
    /\ At(c, "nav")
    /\ IF jar \in expired
       THEN /\ Go(c, "silent")
            /\ hops' = [hops EXCEPT ![c] = @ + 1]
            /\ UNCHANGED <<slot, op, tab, seen, tok>>
       ELSE Over(c)
    /\ UNCHANGED <<service, jar, expired, revoked, broken>>
\* createSilentRefreshHandler.  The browser marks every hop of a navigation that
\* began on another site: that one gets the login page and no cookie is touched.
SilentRefresh(c) ==
    /\ At(c, "silent")
    /\ \/ Send(c, "send") /\ UNCHANGED <<slot, op, tab, seen, hops>>
       \/ Over(c)
    /\ UNCHANGED <<service, jar, expired, revoked, broken>>

-----------------------------------------------------------------------------
(* The handlers and the backend.                                           *)

LogIn(c, n, l) ==
    /\ Begin(c, "login")
    /\ Login(n, l)
    /\ Go(c, "reply")
    /\ tok' = [tok EXCEPT ![c] = n]
    /\ UNCHANGED <<jar, slot, tab, seen, hops, expired, revoked, broken>>

Presented(c) ==
    /\ At(c, "send")
    /\ \/ \E n \in Token : Rotated(tok[c], n) /\ Go(c, "reply") /\ tok' = [tok EXCEPT ![c] = n]
       \/ GraceFound(tok[c]) /\ Go(c, "recover") /\ UNCHANGED tok
       \/ Reused(tok[c]) /\ Go(c, "refused") /\ UNCHANGED tok
       \/ Unknown(tok[c]) /\ Go(c, "refused") /\ UNCHANGED tok
    /\ UNCHANGED <<jar, slot, op, tab, seen, hops, expired, revoked, broken>>
Recover(c) ==
    /\ At(c, "recover")
    /\ IF \E x \in live : lineage[x] = lineage[tok[c]]
       THEN \E n \in Token : Recovered(tok[c], n) /\ Go(c, "reply") /\ tok' = [tok EXCEPT ![c] = n]
       ELSE Go(c, "refused") /\ UNCHANGED <<service, tok>>
    /\ UNCHANGED <<jar, slot, op, tab, seen, hops, expired, revoked, broken>>

\* callBackend answers null: the handler refuses, whatever the backend did.
Cut(c) == IF pc[c] \in {"recover", "reply"} THEN {lineage[tok[c]]} ELSE {}
Unreached(c) ==
    /\ op[c] # "login"
    /\ pc[c] \in {"send", "recover", "reply"}
    /\ Go(c, "refused")
    /\ broken' = broken \cup Cut(c)
    /\ UNCHANGED <<service, jar, slot, op, tab, seen, tok, hops, expired, revoked>>

\* forwardSetCookies, as a mutant not called by silent refresh.
ForwardedUnlessSilent(c) == IF op[c] = "navigate" THEN jar ELSE tok[c]
Forwarded(c) == tok[c]

\* A success arrives with the new cookies.  A navigation is redirected back to
\* its destination and passes the proxy again.
Reply(c) ==
    /\ At(c, "reply")
    /\ jar' = Forwarded(c)
    /\ IF op[c] = "navigate"
       THEN Go(c, "nav") /\ UNCHANGED <<slot, op, tab, seen, tok, hops>>
       ELSE Over(c)
    /\ UNCHANGED <<service, expired, revoked, broken>>

\* A refusal arrives: silent refresh clears the cookies and shows the login
\* page, client refresh leaves them alone.
Refused(c) ==
    /\ At(c, "refused")
    /\ jar' = IF op[c] = "navigate" THEN NoToken ELSE jar
    /\ Over(c)
    /\ UNCHANGED <<service, expired, revoked, broken>>

\* The logout handler asks the backend, best effort, and clears the cookies.
Logout(c) ==
    /\ Begin(c, "logout")
    /\ jar # NoToken
    /\ Send(c, "leave")
    /\ UNCHANGED <<service, jar, slot, tab, seen, hops, expired, revoked, broken>>
Leave(c) ==
    /\ At(c, "leave")
    /\ \/ /\ SignedOut(tok[c])
          /\ revoked' = revoked \cup {tok[c]}
          /\ broken' = broken \cup {lineage[tok[c]]}
       \/ UNCHANGED <<service, revoked, broken>>
    /\ Go(c, "left")
    /\ UNCHANGED <<jar, slot, op, tab, seen, tok, hops, expired>>
Left(c) ==
    /\ At(c, "left")
    /\ jar' = NoToken
    /\ Over(c)
    /\ UNCHANGED <<service, expired, revoked, broken>>

\* The browser loses a request or an answer, or a fetch times out.
Lose(c) ==
    /\ pc[c] \in {"sent", "nav", "silent", "send", "recover", "reply", "refused", "leave", "left"}
    /\ broken' = broken \cup Cut(c)
    /\ Over(c)
    /\ UNCHANGED <<service, jar, expired, revoked>>

Quiet == \A c \in Call : At(c, "idle")
Expire ==
    /\ Quiet
    /\ expired' = {t \in Token : ~Fresh(t)}
    /\ grace' = {}
    /\ UNCHANGED <<lineage, live, spent, succ, jar, slot, pc, op, tab, seen, tok, hops, revoked, broken>>

BrowserNext ==
    \/ \E c \in Call :
          \/ \E n \in Token, l \in Lineage : LogIn(c, n, l)
          \/ \E b \in Tab : Fetch(c, b)
          \/ Navigate(c) \/ Logout(c)
          \/ Answered(c) \/ RunRefresh(c) \/ Proxy(c) \/ SilentRefresh(c)
          \/ Presented(c) \/ Recover(c)
          \/ Unreached(c) \/ Reply(c) \/ Refused(c)
          \/ Leave(c) \/ Left(c)
          \/ Lose(c)
    \/ Expire

BrowserSpec == BrowserInit /\ [][BrowserNext]_browserVars

-----------------------------------------------------------------------------
(* Properties.                                                             *)

\* Two tabs, or a tab and a page navigation, that find the access token expired
\* at the same moment and refresh independently both stay signed in: the jar
\* they leave behind can be exchanged and the login is not revoked for reuse,
\* in whatever order the answers arrive.  So does any burst of fetches of one
\* tab, which share a refresh.  A login is excepted once it was logged out, or
\* an answer to one of its refreshes was lost.
JarIsLive ==
    /\ Quiet /\ jar # NoToken /\ lineage[jar] \notin broken => jar \in live
    /\ \A t \in Token : ~Fresh(t) /\ lineage[t] \notin broken
          => \E x \in live : lineage[x] = lineage[t]

\* A navigation is redirected through silent refresh at most once, whatever the
\* other tabs do to the cookies meanwhile: the proxy's bounce counter is lost on
\* the way back, so nothing but a fresh access cookie ends the redirects.
OneBounce == \A c \in Call : hops[c] <= 1
=============================================================================
