----------------------------- MODULE RateLimit -----------------------------
(***************************************************************************)
(* The per-route rate limit counted in the shared store: which address a   *)
(* request is charged to (axum client_ip.rs), the fixed window it is       *)
(* counted in, whichever instance serves it (shared_limit.rs, the engine's *)
(* rate_limit.rs, the Redis counter), and what is refused.                 *)
(*                                                                         *)
(* One route.  A client reaches an instance directly or through proxies,   *)
(* each of which appends the address it saw to X-Forwarded-For; what came  *)
(* before that in the header is the client's own.  The in-process limiter  *)
(* of a deployment without a shared store is the governor crate's.         *)
(***************************************************************************)
EXTENDS Integers, Sequences

CONSTANTS
    Client,     \* addresses of clients
    Proxy,      \* addresses the trust predicate vouches for
    Junk,       \* a header entry that is no address
    NoPeer,     \* the bucket of requests without a peer address
    Path,       \* the chains of proxies a request may come through
    Written,    \* what a client may write into X-Forwarded-For
    Net,        \* [Client \cup Proxy -> buckets]: rate_limit_bucket
    Burst,      \* budget of a window
    Span        \* its length

IpAddr == Client \cup Proxy

ASSUME LimitAssumption ==
    /\ Client \cap Proxy = {}
    /\ Junk \notin IpAddr
    /\ Path \subseteq Seq(Proxy)
    /\ Written \subseteq Seq(IpAddr \cup {Junk})
    /\ Burst \in Nat
    /\ Span \in Nat \ {0}

Bucket == {Net[a] : a \in IpAddr} \cup {NoPeer}

VARIABLES
    source,     \* ClientIpSource
    hits,       \* rl: counter of a bucket, saturated at Burst + 1
    left,       \* its remaining lifetime, 0 when there is no such key
    due,        \* history: what is left of the window a bucket's owner opened
    passed,     \* ... its requests let through in it
    made        \* ... its requests in it, saturated

limitVars == <<source, hits, left, due, passed, made>>

LimitInit ==
    /\ source \in {"peer", "forwarded"}
    /\ hits = [b \in Bucket |-> 0]
    /\ left = [b \in Bucket |-> 0]
    /\ due = [b \in Bucket |-> 0]
    /\ passed = [b \in Bucket |-> 0]
    /\ made = [b \in Bucket |-> 0]

-----------------------------------------------------------------------------
(* ClientIpPolicy::resolve.                                                *)

Trusted(a) == a \in Proxy

\* Mutant of the next: the leftmost entry is the client.
WalkedFromLeft(chain) == IF chain # <<>> /\ chain[1] # Junk THEN {1} ELSE {}
\* The entries the walk from the right comes to: it passes trusted proxies
\* only, and stops short of an entry that is no address.
Walked(chain) ==
    {i \in DOMAIN chain : \A k \in i..Len(chain) :
        chain[k] # Junk /\ (k > i => Trusted(chain[k]))}

\* The header counts only behind a trusted peer.
Resolve(peer, chain) ==
    IF source = "peer" \/ ~Trusted(peer) \/ Walked(chain) = {}
    THEN peer
    ELSE chain[CHOOSE i \in Walked(chain) : \A k \in Walked(chain) : i <= k]

-----------------------------------------------------------------------------
(* shared_limit.                                                           *)

Counted(n) == IF n > Burst THEN n ELSE n + 1

\* brute_force_incr.lua.
Hit(b) ==
    /\ hits' = [hits EXCEPT ![b] = Counted(@)]
    /\ left' = [left EXCEPT ![b] = IF hits[b] = 0 THEN Span ELSE @]

\* A request, charged to bucket b, that the owner of bucket o sent.
Charge(b, o, answered) ==
    LET fresh == due[o] = 0 IN
    /\ Hit(b)
    /\ due' = [due EXCEPT ![o] = IF fresh THEN Span ELSE @]
    /\ made' = [made EXCEPT ![o] = IF fresh THEN 1 ELSE Counted(@)]
    /\ passed' = [passed EXCEPT ![o] = @ + IF answered /\ hits[b] < Burst THEN 1 ELSE 0]
    /\ UNCHANGED source

\* What c wrote into the header, then c and every proxy but the last, which is
\* the peer.  A store that counts and fails to answer refuses the request; one
\* that does neither changes nothing.
Request(c, path, written, answered) ==
    LET hops == <<c>> \o path
        peer == hops[Len(hops)] IN
    Charge(Net[Resolve(peer, written \o SubSeq(hops, 1, Len(hops) - 1))],
           Net[IF source = "peer" THEN peer ELSE c], answered)

\* The transport reported no peer address.
RequestUnknown(answered) == Charge(NoPeer, NoPeer, answered)

LimitTick ==
    /\ \E b \in Bucket : left[b] > 0 \/ due[b] > 0
    /\ left' = [b \in Bucket |-> IF left[b] > 0 THEN left[b] - 1 ELSE 0]
    /\ hits' = [b \in Bucket |-> IF left[b] = 1 THEN 0 ELSE hits[b]]
    /\ due' = [b \in Bucket |-> IF due[b] > 0 THEN due[b] - 1 ELSE 0]
    /\ made' = [b \in Bucket |-> IF due[b] = 1 THEN 0 ELSE made[b]]
    /\ passed' = [b \in Bucket |-> IF due[b] = 1 THEN 0 ELSE passed[b]]
    /\ UNCHANGED source

LimitNext ==
    \/ \E c \in Client, path \in Path, written \in Written, answered \in BOOLEAN :
          Request(c, path, written, answered)
    \/ \E answered \in BOOLEAN : RequestUnknown(answered)
    \/ LimitTick

LimitSpec == LimitInit /\ [][LimitNext]_limitVars

-----------------------------------------------------------------------------
(* Properties.                                                             *)

\* One budget for each client network, neither more nor less: over all
\* instances, proxies and header contents a network is let through at most
\* Burst times in the window its first request opened, and its budget is spent
\* only by more requests of its own (failed ones included): nobody else's
\* traffic is charged to it.
OneBudget ==
    \A b \in Bucket :
        /\ passed[b] <= Burst
        /\ hits[b] > Burst => made[b] > Burst
=============================================================================
