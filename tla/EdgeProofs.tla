----------------------------- MODULE EdgeProofs -----------------------------
(***************************************************************************)
(* Machine-checked proofs about what leaves the services: access tokens    *)
(* and the tickets made of them (TokenEpoch, WsTicket), and invitations    *)
(* (Invitation).                                                           *)
(*                                                                         *)
(* TokenEpoch is a race between two clocks: a token the epoch refuses has  *)
(* no longer to live than the epoch key that refuses it                    *)
(* (KeyOutlivesRefused), because a bump re-arms the key for an access      *)
(* lifetime, and an issuance that read the old epoch signs before time     *)
(* passes.  A ticket's steps are steps of TokenEpoch or leave it alone     *)
(* (TicketsImplementEpoch), so a refusal is final there too; what is left  *)
(* is what the mint and the upgrade carry between their steps (Clocked,    *)
(* Chased).  Invitations say what they rest on where they begin.           *)
(***************************************************************************)
EXTENDS WsTicket, Invitation, TLAPS
-----------------------------------------------------------------------------
(* TokenEpoch.                                                             *)

\* An expired or never written epoch key reads 0.
KeyReadsZero == \A s \in Subject : epTtl[s] = 0 => ep[s] = 0

\* A token is signed at most once, from one read, and is blacklisted only
\* after it was signed, for exactly its residual lifetime.
OneIssuance ==
    \A j \in Jti :
        /\ read[j] # NoRead => stamp[j] = NoRead
        /\ stamp[j] = NoRead => rv[j] = 0
        /\ rv[j] > 0 => rv[j] = life[j]

\* The epoch key outlives every token it refuses, and every token that will be
\* signed from an epoch already superseded.
KeyOutlivesRefused ==
    \A j \in Jti :
        /\ (stamp[j] # NoRead /\ stamp[j] < ep[sub[j]]) => life[j] <= epTtl[sub[j]]
        /\ (read[j] # NoRead /\ read[j] < ep[sub[j]]) => AccessTtl <= epTtl[sub[j]]

\* A stamp taken in the current life of the key is never above the counter.
StampNotAhead ==
    \A j \in Jti :
        /\ (stamp[j] # NoRead /\ j \notin lapsed) => stamp[j] <= ep[sub[j]]
        /\ read[j] # NoRead => read[j] <= ep[sub[j]]

IInv ==
    /\ TypeOK
    /\ KeyReadsZero
    /\ OneIssuance
    /\ KeyOutlivesRefused
    /\ StampNotAhead

-----------------------------------------------------------------------------
\* With nothing issued and nothing bumped the invariant holds.
LEMMA InitInv == Init => IInv
    BY LifetimeAssumption
    DEF Init, IInv, TypeOK, KeyReadsZero, OneIssuance, KeyOutlivesRefused, StampNotAhead

\* Reading the epoch keeps the invariant.
LEMMA ReadInv == ASSUME IInv, NEW j \in Jti, ReadEpoch(j) PROVE IInv'
<1> USE LifetimeAssumption DEF IInv, TypeOK, ReadEpoch, CurrentEpoch, Signed
<1>1. TypeOK' /\ KeyReadsZero'
    BY DEF KeyReadsZero
<1>2. OneIssuance'
    BY Zenon DEF OneIssuance
<1>3. KeyOutlivesRefused'
    BY DEF KeyOutlivesRefused
<1>4. StampNotAhead'
    BY DEF StampNotAhead
<1> QED
    BY <1>1, <1>2, <1>3, <1>4, Zenon

\* Signing a token keeps the invariant: an epoch read before a bump is signed
\* while the bumped key still has an access lifetime to go.
LEMMA SignInv == ASSUME IInv, NEW j \in Jti, Sign(j) PROVE IInv'
<1> USE LifetimeAssumption DEF IInv, TypeOK, Sign
<1>1. TypeOK' /\ KeyReadsZero'
    BY DEF KeyReadsZero
<1>2. OneIssuance'
    BY DEF OneIssuance
<1>3. KeyOutlivesRefused'
    BY Zenon DEF KeyOutlivesRefused
<1>4. StampNotAhead'
    BY Zenon DEF StampNotAhead
<1> QED
    BY <1>1, <1>2, <1>3, <1>4, Zenon

\* Advancing the epoch keeps the invariant.
LEMMA BumpInv == ASSUME IInv, NEW s \in Subject, BumpEpoch(s) PROVE IInv'
<1> USE LifetimeAssumption DEF IInv, TypeOK, BumpEpoch
<1>1. TypeOK' /\ KeyReadsZero'
    BY DEF KeyReadsZero
<1>2. OneIssuance'
    BY Zenon DEF OneIssuance
<1>3. KeyOutlivesRefused'
    BY DEF KeyOutlivesRefused
<1>4. StampNotAhead'
    BY DEF StampNotAhead
<1> QED
    BY <1>1, <1>2, <1>3, <1>4, Zenon

\* Blacklisting a token keeps the invariant.
LEMMA RevokeInv == ASSUME IInv, NEW j \in Jti, RevokeAccess(j) PROVE IInv'
<1> USE LifetimeAssumption DEF IInv, TypeOK, RevokeAccess, Residual, Signed
<1>1. TypeOK' /\ KeyReadsZero'
    BY Zenon DEF KeyReadsZero
<1>2. OneIssuance'
    BY Zenon DEF OneIssuance
<1>3. KeyOutlivesRefused' /\ StampNotAhead'
    BY Zenon DEF KeyOutlivesRefused, StampNotAhead
<1> QED
    BY <1>1, <1>2, <1>3, Zenon

\* The passage of time keeps the invariant: the key and the tokens it refuses
\* lose one unit together.
LEMMA TickInv == ASSUME IInv, Tick PROVE IInv'
<1> USE LifetimeAssumption DEF IInv, TypeOK, Tick, Dec
<1>1. TypeOK' /\ KeyReadsZero'
    BY DEF KeyReadsZero
<1>2. OneIssuance'
    BY DEF OneIssuance
<1>3. KeyOutlivesRefused'
    BY DEF KeyOutlivesRefused
<1>4. StampNotAhead'
    BY DEF StampNotAhead, KeyReadsZero, Signed, Lapses
<1> QED
    BY <1>1, <1>2, <1>3, <1>4, Zenon

\* Every step keeps the invariant.
LEMMA NextInv == IInv /\ [Next]_vars => IInv'
<1> SUFFICES ASSUME IInv, [Next]_vars PROVE IInv'
    BY Zenon
<1>1. CASE UNCHANGED vars
    BY <1>1, Zenon DEF vars, IInv, TypeOK, KeyReadsZero, OneIssuance, KeyOutlivesRefused, StampNotAhead
<1>2. CASE \E j \in Jti : ReadEpoch(j) \/ Sign(j) \/ RevokeAccess(j)
    BY <1>2, ReadInv, SignInv, RevokeInv, Zenon
<1>3. CASE \E s \in Subject : BumpEpoch(s)
    BY <1>3, BumpInv, Zenon
<1>4. CASE Tick
    BY <1>4, TickInv, Zenon
<1> QED
    BY <1>1, <1>2, <1>3, <1>4, Zenon DEF Next

\* The inductive invariant holds in every reachable state.
THEOREM Invariance == Spec => []IInv
    BY InitInv, NextInv, PTL DEF Spec

\* Counters and lifetimes stay in their types.
THEOREM TypeCorrect == Spec => []TypeOK
<1>1. IInv => TypeOK
    BY Zenon DEF IInv
<1> QED
    BY <1>1, Invariance, PTL

\* No step accepts a token that was refused.
Final == \A j \in Jti : (Signed(j) /\ ~Accepted(j)) => ~Accepted(j)'

LEMMA StepIsFinal == IInv /\ [Next]_vars => Final
<1> SUFFICES ASSUME IInv, [Next]_vars, NEW j \in Jti, Signed(j), ~Accepted(j)
             PROVE  ~Accepted(j)'
    BY Zenon DEF Final
<1> USE LifetimeAssumption DEF IInv, TypeOK, Signed, Accepted, CurrentEpoch
<1>1. CASE UNCHANGED vars
    BY <1>1, Zenon DEF vars
<1>2. CASE \E k \in Jti : ReadEpoch(k)
    BY <1>2, Zenon DEF ReadEpoch
<1>3. CASE \E k \in Jti : Sign(k)
    BY <1>3 DEF Sign, OneIssuance
<1>4. CASE \E k \in Jti : RevokeAccess(k)
    BY <1>4, Zenon DEF RevokeAccess, Residual
<1>5. CASE \E s \in Subject : BumpEpoch(s)
    BY <1>5 DEF BumpEpoch
<1>6. CASE Tick
    BY <1>6 DEF Tick, Dec, OneIssuance, KeyOutlivesRefused
<1> QED
    BY <1>1, <1>2, <1>3, <1>4, <1>5, <1>6, Zenon DEF Next

\* A revoked or expired access token is never accepted again.
THEOREM RefusalIsFinal == Spec => RefusedStaysRefused
<1>1. Spec => [][Final]_vars
    BY StepIsFinal, Invariance, PTL DEF Spec
<1> QED
    BY <1>1, Zenon DEF RefusedStaysRefused, Final

\* A bump refuses every token signed in the current life of the epoch key.
THEOREM BumpIsEffective == Spec => BumpRefusesEarlier
<1> DEFINE Refuses == \A s \in Subject, j \in Jti :
        (BumpEpoch(s) /\ sub[j] = s /\ Signed(j) /\ j \notin lapsed) => ~Accepted(j)'
<1>1. IInv => Refuses
    BY LifetimeAssumption
    DEF IInv, TypeOK, StampNotAhead, BumpEpoch, Signed, Accepted, CurrentEpoch
<1>2. Spec => [][Refuses]_vars
    BY <1>1, Invariance, PTL
<1> QED
    BY <1>2, Zenon DEF BumpRefusesEarlier

-----------------------------------------------------------------------------
(* WsTicket.                                                               *)

TicketTypeOK ==
    /\ mint \in [Ticket -> {"none", "verified", "clocked", "done"}]
    /\ from \in [Ticket -> Jti]
    /\ wst \in [Ticket -> 0..TicketTtl]
    /\ age \in [Ticket -> 0..WriteDelay]
    /\ up \in [Upgrade -> {"idle", "taken", "listed", "open", "refused"}]
    /\ shown \in [Upgrade -> Ticket]
    /\ revoked \in SUBSET Jti
    /\ doomed \in SUBSET Upgrade
    /\ late \in SUBSET Upgrade

\* The lifetime computed for a ticket that is not written yet is short of the
\* token's by what the write may still take.
Clocked == \A t \in Ticket : mint[t] = "clocked" => wst[t] + WriteDelay <= life[from[t]] + age[t]

\* A token that a logout or a bump refused is refused.
StillRevoked == \A j \in revoked : Signed(j) /\ ~Accepted(j)

\* An upgrade in the tick in which it took the ticket of a revoked token will
\* be refused by the reads it still has to make.
Chased ==
    \A u \in doomed \ late :
        LET j == from[shown[u]] IN
        /\ j \in revoked
        /\ up[u] \in {"taken", "listed", "refused"}
        /\ up[u] \in {"taken", "listed"} => life[j] > 0
        /\ up[u] = "listed" => BelowEpoch(j)

TInv == IInv /\ TicketTypeOK /\ TicketWithinToken /\ Clocked /\ StillRevoked /\ Chased

LEMMA TicketInitInv == TicketInit => TInv
<1> SUFFICES ASSUME TicketInit PROVE TInv
    BY Zenon
<1>1. IInv
    BY InitInv, Zenon DEF TicketInit
<1>2. TicketTypeOK
    BY TicketAssumption DEF TicketInit, TicketTypeOK
<1>3. TicketWithinToken /\ Clocked /\ StillRevoked /\ Chased
    BY Zenon DEF TicketInit, TicketWithinToken, Stored, Clocked, StillRevoked, Chased
<1> QED
    BY <1>1, <1>2, <1>3, Zenon DEF TInv

\* A step of tickets and tokens is a step of TokenEpoch, or leaves it alone.
LEMMA TicketStepRefines == [TicketNext]_allVars => [Next]_vars
    BY Zenon DEF TicketNext, allVars, Next, Verify, MintRefused, ReadClock, Mint, Take, ReadBlacklist,
           CompareEpoch, UpgradeRefused, Issuing, Revoking, TicketTick

\* The stages of a mint keep the invariant: the lifetime computed from the clock
\* leaves the token a second, and the write takes no more.
LEMMA MintInv ==
    ASSUME TInv, NEW t \in Ticket, Verify(t) \/ MintRefused(t) \/ ReadClock(t) \/ Mint(t)
    PROVE  TInv'
<1> USE TicketAssumption, LifetimeAssumption DEF TInv
<1>0. UNCHANGED <<vars, from, up, shown, revoked, doomed, late>>
    BY Zenon DEF Verify, MintRefused, ReadClock, Mint
<1>1. IInv'
    BY <1>0, NextInv, Zenon
<1>2. StillRevoked' /\ Chased'
    BY <1>0, Zenon DEF vars, StillRevoked, Chased, Signed, Accepted, BelowEpoch, CurrentEpoch
<1>3. CASE Verify(t)
  <2>1. TicketTypeOK'
      BY <1>3, Zenon DEF TicketTypeOK, Verify
  <2>2. TicketWithinToken' /\ Clocked'
      BY <1>0, <1>3, Zenon DEF TicketTypeOK, Verify, TicketWithinToken, Stored, Clocked, vars
  <2> QED
      BY <1>1, <1>2, <2>1, <2>2, Zenon
<1>4. CASE MintRefused(t)
  <2>1. TicketTypeOK'
      BY <1>4 DEF TicketTypeOK, MintRefused
  <2>2. TicketWithinToken' /\ Clocked'
      BY <1>0, <1>4 DEF TicketTypeOK, MintRefused, TicketWithinToken, Stored, Clocked, vars
  <2> QED
      BY <1>1, <1>2, <2>1, <2>2, Zenon
<1>5. CASE ReadClock(t)
  <2>1. life[from[t]] \in 0..AccessTtl
      BY Zenon DEF IInv, TypeOK, TicketTypeOK
  <2>2. /\ Ttl(from[t]) \in 0..TicketTtl
        /\ Ttl(from[t]) > 0 => Ttl(from[t]) + 1 <= life[from[t]]
      BY <2>1 DEF Ttl, SmallerOf, Dec
  <2>3. TicketTypeOK'
      BY <1>5, <2>2 DEF TicketTypeOK, ReadClock
  <2>4. TicketWithinToken' /\ Clocked'
      BY <1>0, <1>5, <2>1, <2>2 DEF TicketTypeOK, ReadClock, TicketWithinToken, Stored, Clocked, vars
  <2> QED
      BY <1>1, <1>2, <2>3, <2>4, Zenon
<1>6. CASE Mint(t)
  <2>1. TicketTypeOK'
      BY <1>6, Zenon DEF TicketTypeOK, Mint
  <2>2. life[from[t]] \in 0..AccessTtl
      BY Zenon DEF IInv, TypeOK, TicketTypeOK
  <2>3. TicketWithinToken' /\ Clocked'
      BY <1>0, <1>6, <2>2 DEF TicketTypeOK, Mint, TicketWithinToken, Stored, Clocked, vars
  <2> QED
      BY <1>1, <1>2, <2>1, <2>3, Zenon
<1> QED
    BY <1>3, <1>4, <1>5, <1>6, Zenon

\* A stage of an upgrade touches neither tokens nor mints, and takes no ticket
\* but the one it was shown.
LEMMA UpgradeFrame ==
    ASSUME TInv, NEW u \in Upgrade, UNCHANGED <<vars, mint, from, age, shown, revoked, late>>,
           \A t \in Ticket : wst'[t] \in {wst[t], 0}
    PROVE  IInv' /\ TicketWithinToken' /\ Clocked' /\ StillRevoked'
<1>1. IInv'
    BY NextInv, Zenon DEF TInv
<1>2. StillRevoked'
    BY Zenon DEF TInv, vars, StillRevoked, Signed, Accepted, CurrentEpoch
<1>3. ASSUME NEW t \in Ticket
      PROVE  wst[t] \in Nat /\ age[t] \in Nat /\ WriteDelay \in Nat /\ life[from[t]] \in Nat /\ life' = life
    BY TicketAssumption DEF TInv, TicketTypeOK, IInv, TypeOK, vars
<1>4. TicketWithinToken'
    BY <1>3 DEF TInv, TicketWithinToken, Stored
<1>5. Clocked'
    BY <1>3 DEF TInv, Clocked
<1> QED
    BY <1>1, <1>2, <1>4, <1>5, Zenon

\* The ticket of a revoked token is taken while that token still has time to
\* live, so a read finds it refused.
LEMMA TakeInv == ASSUME TInv, NEW u \in Upgrade, Take(u) PROVE TInv'
<1>0. \A t \in Ticket : wst'[t] \in {wst[t], 0}
    BY Zenon DEF TInv, TicketTypeOK, Take
<1>1. IInv' /\ TicketWithinToken' /\ Clocked' /\ StillRevoked'
    BY <1>0, UpgradeFrame, Zenon DEF Take
<1>2. TicketTypeOK'
    BY TicketAssumption DEF TInv, TicketTypeOK, Take
<1>3. life[from[shown[u]]] > 0
  <2>1. life[from[shown[u]]] \in Nat /\ wst[shown[u]] \in Nat
      BY DEF TInv, IInv, TypeOK, TicketTypeOK
  <2> QED
      BY <2>1 DEF TInv, Take, Stored, TicketWithinToken, TicketTypeOK
<1>4. Chased'
    BY <1>3 DEF TInv, TicketTypeOK, Take, Chased, BelowEpoch, CurrentEpoch, vars
<1> QED
    BY <1>1, <1>2, <1>4, Zenon DEF TInv

\* A revoked token the blacklist does not name is below the epoch.
LEMMA UnlistedIsBelow ==
    ASSUME TInv, NEW j \in revoked, life[j] > 0, ~(rv[j] > 0) PROVE BelowEpoch(j)
<1>1. j \in Jti /\ Signed(j) /\ ~Accepted(j)
    BY Zenon DEF TInv, TicketTypeOK, StillRevoked
<1>2. rv[j] \in Nat /\ stamp[j] \in Nat /\ ep[sub[j]] \in Nat
    BY <1>1 DEF TInv, IInv, TypeOK, Signed
<1> QED
    BY <1>1, <1>2 DEF Accepted, BelowEpoch, CurrentEpoch

LEMMA ReadBlacklistInv == ASSUME TInv, NEW u \in Upgrade, ReadBlacklist(u) PROVE TInv'
<1>1. IInv' /\ TicketWithinToken' /\ Clocked' /\ StillRevoked'
    BY UpgradeFrame, Zenon DEF ReadBlacklist
<1>2. TicketTypeOK'
    BY Zenon DEF TInv, TicketTypeOK, ReadBlacklist
<1>3. Chased'
    BY UnlistedIsBelow, Zenon DEF TInv, TicketTypeOK, ReadBlacklist, Chased, BelowEpoch, CurrentEpoch, vars
<1> QED
    BY <1>1, <1>2, <1>3, Zenon DEF TInv

LEMMA UpgradeEndsInv ==
    ASSUME TInv, NEW u \in Upgrade, CompareEpoch(u) \/ UpgradeRefused(u) PROVE TInv'
<1>1. IInv' /\ TicketWithinToken' /\ Clocked' /\ StillRevoked'
    BY UpgradeFrame, Zenon DEF CompareEpoch, UpgradeRefused
<1>2. TicketTypeOK'
    BY Zenon DEF TInv, TicketTypeOK, CompareEpoch, UpgradeRefused
<1>3. Chased'
    BY DEF TInv, TicketTypeOK, CompareEpoch, UpgradeRefused, Chased, BelowEpoch, CurrentEpoch, vars
<1> QED
    BY <1>1, <1>2, <1>3, Zenon DEF TInv

\* Signed tokens keep their stamp, and a refused one stays refused.
LEMMA StampKept ==
    ASSUME IInv, [Next]_vars, NEW j \in Jti, Signed(j)
    PROVE  stamp'[j] = stamp[j]
    BY Zenon DEF IInv, TypeOK, OneIssuance, Signed, Next, vars, ReadEpoch, Sign, RevokeAccess, BumpEpoch, Tick

LEMMA RevokedKept ==
    ASSUME IInv, [Next]_vars, StillRevoked, revoked \subseteq Jti
    PROVE  \A j \in revoked : Signed(j)' /\ ~Accepted(j)'
    BY StepIsFinal, StampKept, Zenon DEF StillRevoked, Final, Signed

\* Issuing a token keeps the invariant.
LEMMA IssuingInv == ASSUME TInv, Issuing PROVE TInv'
<1> USE TicketAssumption, LifetimeAssumption DEF TInv
<1>0. [Next]_vars /\ UNCHANGED ticketVars
    BY Zenon DEF Issuing, Next
<1>1. IInv'
    BY <1>0, NextInv, Zenon
<1>2. TicketTypeOK'
    BY <1>0, Zenon DEF TicketTypeOK, ticketVars
<1>3. /\ \A j \in Jti : life[j] \in 0..AccessTtl /\ life'[j] \in 0..AccessTtl /\ life'[j] >= life[j]
      /\ UNCHANGED <<ep, sub>>
    BY DEF Issuing, ReadEpoch, Sign, IInv, TypeOK
<1>4. TicketWithinToken' /\ Clocked'
    BY <1>0, <1>3 DEF TicketTypeOK, TicketWithinToken, Stored, Clocked, ticketVars
<1>5. StillRevoked'
    BY <1>0, RevokedKept, Zenon DEF TicketTypeOK, ticketVars, StillRevoked
<1>6. Chased'
    BY <1>0, <1>3, StampKept
    DEF TicketTypeOK, ticketVars, Chased, StillRevoked, BelowEpoch, CurrentEpoch
<1> QED
    BY <1>1, <1>2, <1>4, <1>5, <1>6, Zenon

\* A logout or a bump keeps the invariant, and refuses what it is recorded to.
LEMMA RevokingInv == ASSUME TInv, Revoking PROVE TInv'
<1> USE TicketAssumption, LifetimeAssumption DEF TInv
<1>0. [Next]_vars /\ UNCHANGED <<mint, from, wst, age, up, shown, doomed, late, life, stamp, sub>>
    BY Zenon DEF Revoking, Next, RevokeAccess, BumpEpoch
<1>1. IInv'
    BY <1>0, NextInv, Zenon
<1>2. TicketTypeOK'
    BY <1>0, Zenon DEF TicketTypeOK, Revoking
<1>3. TicketWithinToken' /\ Clocked'
    BY <1>0, Zenon DEF TicketWithinToken, Stored, Clocked
<1>4. StillRevoked'
    BY <1>0, RevokedKept, Zenon DEF TicketTypeOK, StillRevoked, Revoking, Signed
<1>5. \A s \in Subject : ep[s] \in Nat /\ ep'[s] \in Nat /\ ep'[s] >= ep[s]
    BY DEF Revoking, RevokeAccess, BumpEpoch, IInv, TypeOK
<1>6. Chased'
  <2> SUFFICES ASSUME NEW u \in doomed \ late, up[u] = "listed"
               PROVE  BelowEpoch(from[shown[u]])'
      BY <1>0, Zenon DEF Chased, Revoking
  <2> DEFINE j == from[shown[u]]
  <2>1. j \in Jti /\ Signed(j) /\ BelowEpoch(j)
      BY Zenon DEF TicketTypeOK, Chased, StillRevoked
  <2>2. stamp[j] \in Nat /\ sub[j] \in Subject
      BY <2>1, Zenon DEF IInv, TypeOK, Signed
  <2> QED
      BY <1>0, <1>5, <2>1, <2>2 DEF BelowEpoch, CurrentEpoch
<1> QED
    BY <1>1, <1>2, <1>3, <1>4, <1>6, Zenon

\* The passage of time keeps the invariant: a ticket and its token lose one unit
\* together, and an upgrade that it finds between its reads is late.
LEMMA TicketTickInv == ASSUME TInv, TicketTick PROVE TInv'
<1> USE TicketAssumption, LifetimeAssumption DEF TInv
<1>0. [Next]_vars /\ Tick /\ UNCHANGED <<mint, from, up, shown, revoked, doomed>>
    BY Zenon DEF TicketTick, Next
<1>1. IInv'
    BY <1>0, NextInv, Zenon
<1>2. TicketTypeOK'
    BY <1>0 DEF TicketTypeOK, TicketTick, Dec
<1>3. TicketWithinToken' /\ Clocked'
  <2> SUFFICES ASSUME NEW t \in Ticket
               PROVE  /\ Stored(t)' => (wst[t] <= life[from[t]])'
                      /\ mint[t]' = "clocked" => (wst[t] + WriteDelay <= life[from[t]] + age[t])'
      BY Zenon DEF TicketWithinToken, Clocked
  <2>1. /\ life[from[t]] \in 0..AccessTtl /\ wst[t] \in 0..TicketTtl /\ age[t] \in 0..WriteDelay
        /\ life'[from[t]] = Dec(life[from[t]])
      BY <1>0, Zenon DEF IInv, TypeOK, TicketTypeOK, Tick
  <2> QED
      BY <1>0, <2>1 DEF TicketTick, TicketWithinToken, Stored, Clocked, Dec
<1>4. StillRevoked'
    BY <1>0, RevokedKept, Zenon DEF TicketTypeOK, StillRevoked
<1>5. Chased'
    BY <1>0, Zenon DEF TicketTypeOK, TicketTick, Chased
<1> QED
    BY <1>1, <1>2, <1>3, <1>4, <1>5, Zenon

\* Every step keeps the invariant.
LEMMA TicketNextInv == TInv /\ [TicketNext]_allVars => TInv'
<1> SUFFICES ASSUME TInv, [TicketNext]_allVars PROVE TInv'
    BY Zenon
<1>1. ASSUME UNCHANGED allVars PROVE TInv'
  <2>1. IInv'
      BY <1>1, NextInv, Zenon DEF TInv, allVars
  <2>2. TicketTypeOK' /\ TicketWithinToken' /\ Clocked'
      BY <1>1, Zenon DEF TInv, allVars, vars, ticketVars, TicketTypeOK, TicketWithinToken, Stored, Clocked
  <2>3. StillRevoked'
      BY <1>1, Zenon DEF TInv, allVars, vars, ticketVars, StillRevoked, Signed, Accepted, CurrentEpoch
  <2>4. Chased'
      BY <1>1, Zenon DEF TInv, allVars, vars, ticketVars, Chased, BelowEpoch, CurrentEpoch
  <2> QED
      BY <2>1, <2>2, <2>3, <2>4, Zenon DEF TInv
<1> QED
    BY <1>1, MintInv, TakeInv, ReadBlacklistInv, UpgradeEndsInv, IssuingInv, RevokingInv, TicketTickInv, Zenon
    DEF TicketNext

\* The inductive invariant holds in every reachable state.
THEOREM TicketInvariance == TicketSpec => []TInv
    BY TicketInitInv, TicketNextInv, PTL DEF TicketSpec

\* With tickets minted and redeemed beside them, access tokens behave as
\* TokenEpoch says: what is proved of it holds here.
THEOREM TicketsImplementEpoch == TicketSpec => Spec
<1>1. TicketInit => Init
    BY Zenon DEF TicketInit
<1> QED
    BY <1>1, TicketStepRefines, PTL DEF TicketSpec, Spec

\* A ticket never outlives the token it was minted from, whenever its SET lands.
THEOREM TicketsStayWithinTokens == TicketSpec => []TicketWithinToken
<1>1. TInv => TicketWithinToken
    BY Zenon DEF TInv
<1> QED
    BY <1>1, TicketInvariance, PTL

\* No socket opens on a token revoked before its ticket was taken, as long as
\* the upgrade's reads follow within the tick.
THEOREM RevokedTicketsAreRefused == TicketSpec => []RevokedTicketRefused
<1>1. TInv => RevokedTicketRefused
    BY Zenon DEF TInv, Chased, RevokedTicketRefused
<1> QED
    BY <1>1, TicketInvariance, PTL

-----------------------------------------------------------------------------
(* Invitations.  A token belongs to the invite that drew it until it is    *)
(* mailed (Drawn), so a mailed invitation is written by nobody any more,   *)
(* and the index entry that names it outlives it (Outlives).               *)

Terms == [role : Role, by : Staff]
Job ==
    [rank : Role, terms : Terms, own : Token \cup {NoToken}, seen : Token \cup {NoToken},
     tries : Nat, void : BOOLEAN]

InvitationTypeOK ==
    /\ rec \in [Token -> [role : Role, by : Staff, ttl : 0..InviteTtl]]
    /\ idx \in Token \cup {NoToken}
    /\ idxTtl \in 0..InviteTtl
    /\ staff \in [Staff -> [role : Role, active : BOOLEAN]]
    /\ pc \in [Call -> {"idle", "read", "judge", "claim", "drop", "put", "confirm", "withdraw", "untrack",
                        "vouch", "unique", "create", "look", "weigh", "untie", "erase"}]
    /\ job \in [Call -> Job]
    /\ mailed \in SUBSET Token
    /\ torn \in BOOLEAN

Inviting(c) == pc[c] \in {"read", "judge", "claim", "drop", "put", "confirm", "withdraw"}

\* What a call holds: an invite, a token nobody else has been told of; an
\* accept, one that was consumed.
Drawn(c) ==
    /\ Inviting(c) => /\ job[c].own \in Token \ mailed
                      /\ \A d \in Call : d # c /\ Inviting(d) => job[d].own # job[c].own
    /\ pc[c] \in {"untrack", "vouch"} => job[c].own \in mailed /\ ~Live(job[c].own)
    /\ pc[c] \in {"untrack", "vouch"} /\ Authorised(job[c].terms) => ~job[c].void
    /\ pc[c] \in {"unique", "create"} => ~job[c].void
    /\ pc[c] \in {"drop", "weigh", "untie", "erase"} => job[c].seen \in Token

\* The entry of an invitation that can be accepted lasts as long as it does.
Outlives == \A t \in Token : Redeemable(t) /\ idx = t => rec[t].ttl <= idxTtl

InvitationInv == InvitationTypeOK /\ IndexReaches /\ Outlives /\ \A c \in Call : Drawn(c)

\* A residual lifetime is a number.
LEMMA LifetimeIsNat == ASSUME NEW n, NEW x \in 0..n PROVE x \in Nat
    OBVIOUS

LEMMA BlankTyped ==
    /\ Absent \in [role : Role, by : Staff, ttl : 0..InviteTtl] /\ Absent.ttl = 0
    /\ NoJob \in Job /\ ~NoJob.void /\ NoJob.own = NoToken
<1>1. NoTerms \in Terms /\ SomeRole \in Role
  <2>1. PICK p \in Staff : TRUE
      BY InvitationAssumption, Zenon
  <2>2. Role # {}
      BY <2>1, InvitationAssumption, Zenon
  <2> QED
      BY <2>1, <2>2, InvitationAssumption, Zenon DEF NoTerms, Terms, SomeRole
<1> QED
    BY <1>1, InvitationAssumption DEF Absent, Record, NoJob, Job, Terms

LEMMA JobSet ==
    ASSUME NEW f \in [Call -> Job], NEW c \in Call, NEW j \in Job PROVE [f EXCEPT ![c] = j] \in [Call -> Job]
    BY Zenon

LEMMA InvitationInitial == InvitationInit => InvitationInv
<1> SUFFICES ASSUME InvitationInit PROVE InvitationInv
    BY Zenon
<1>1. InvitationTypeOK
    BY BlankTyped, InvitationAssumption, Zenon DEF InvitationInit, InvitationTypeOK, AtStart
<1>2. IndexReaches /\ Outlives /\ \A c \in Call : Drawn(c)
    BY Zenon DEF InvitationInit, IndexReaches, Outlives, Redeemable, Drawn, Inviting
<1> QED
    BY <1>1, <1>2, Zenon DEF InvitationInv

\* Only call c moves.
Moves(c) == UNCHANGED staff /\ \A d \in Call \ {c} : pc'[d] = pc[d] /\ job'[d] = job[d]

\* The other calls keep what they hold when a step mails only the token of its
\* own invite, revives no mailed invitation, and draws a fresh token if any.
LEMMA OthersHold ==
    ASSUME InvitationInv, NEW c \in Call, Moves(c), Drawn(c)', mailed \subseteq mailed',
           \A t \in mailed' : t \in mailed \/ (Inviting(c) /\ t = job[c].own),
           \A t \in mailed : Live(t)' => Live(t),
           Inviting(c)' => Fresh(job'[c].own) \/ (Inviting(c) /\ job'[c].own = job[c].own)
    PROVE  \A d \in Call : Drawn(d)'
<1> SUFFICES ASSUME NEW d \in Call, d # c PROVE Drawn(d)'
    BY Zenon
<1>1. Drawn(c) /\ Drawn(d) /\ pc'[d] = pc[d] /\ job'[d] = job[d] /\ staff' = staff
    BY Zenon DEF InvitationInv, Moves
<1>2. Inviting(d) => job[d].own \in Token \ mailed'
    BY <1>1, Zenon DEF Drawn
<1>3. Inviting(d) /\ Inviting(c)' => job'[c].own # job[d].own
    BY <1>1, Zenon DEF Drawn, Fresh
<1>4. ASSUME Inviting(d), NEW e \in Call, e # d, Inviting(e)' PROVE job'[e].own # job[d].own
    BY <1>1, <1>3, <1>4, Zenon DEF Drawn, Moves, Inviting
<1>5. Authorised(job[d].terms)' = Authorised(job[d].terms)
    BY <1>1, Zenon DEF Authorised, MayGrant
<1> QED
    BY <1>1, <1>2, <1>4, <1>5, Zenon DEF Drawn, Inviting

\* The index reaches what it reached when it is left alone, no mailed invitation
\* is prolonged, and a call that owes a delete pays it.
LEMMA StillReached ==
    ASSUME InvitationInv, InvitationTypeOK', NEW c \in Call, Moves(c), UNCHANGED <<idx, mailed>>, torn => torn',
           idxTtl' >= idxTtl, \A t \in mailed : rec'[t].ttl <= rec[t].ttl,
           pc[c] \in {"drop", "erase"} => torn' \/ \A t \in Token : t = job[c].seen => ~Live(t)'
    PROVE  IndexReaches' /\ Outlives'
<1>1. ASSUME NEW t \in Token PROVE rec[t].ttl \in Nat /\ rec'[t].ttl \in Nat /\ idxTtl \in Nat /\ idxTtl' \in Nat
  <2>1. InvitationTypeOK
      BY Zenon DEF InvitationInv
  <2>2. rec[t].ttl \in 0..InviteTtl /\ rec'[t].ttl \in 0..InviteTtl /\ idxTtl \in 0..InviteTtl /\ idxTtl' \in 0..InviteTtl
      BY <2>1, Zenon DEF InvitationTypeOK
  <2> QED
      BY <2>2, LifetimeIsNat, Zenon
<1>2. ASSUME NEW t \in Token, Redeemable(t)' PROVE Redeemable(t)
  <2>1. t \in mailed /\ t # NoToken /\ rec'[t].ttl > 0
      BY <1>2, Zenon DEF Redeemable, Live
  <2>2. rec'[t].ttl <= rec[t].ttl
      BY <2>1, Zenon
  <2>3. rec[t].ttl > 0
      BY <1>1, <2>1, <2>2
  <2> QED
      BY <2>1, <2>3, Zenon DEF Redeemable, Live
<1>3. Outlives'
    BY <1>1, <1>2 DEF InvitationInv, Outlives, Redeemable
<1>4. IndexReaches'
  <2> SUFFICES ASSUME ~torn', NEW t \in Token, Redeemable(t)', idx' # t
               PROVE  \E d \in Call : pc'[d] \in {"drop", "erase"} /\ job'[d].seen = t
      BY Zenon DEF IndexReaches
  <2>1. PICK d \in Call : pc[d] \in {"drop", "erase"} /\ job[d].seen = t
      BY <1>2, Zenon DEF InvitationInv, IndexReaches
  <2>2. d # c
      BY <2>1, Zenon DEF Redeemable
  <2> QED
      BY <2>1, <2>2, Zenon DEF Moves
<1> QED
    BY <1>3, <1>4, Zenon

LEMMA QuietKeeps ==
    ASSUME InvitationInv, InvitationTypeOK', NEW c \in Call, Moves(c), Drawn(c)',
           UNCHANGED <<rec, idx, idxTtl, mailed, torn>>, pc[c] \notin {"drop", "erase"},
           Inviting(c)' => Fresh(job'[c].own) \/ (Inviting(c) /\ job'[c].own = job[c].own)
    PROVE  InvitationInv'
<1>1. \A d \in Call : Drawn(d)'
    BY OthersHold, Zenon DEF Live
<1>2. idxTtl' >= idxTtl /\ \A t \in mailed : rec'[t].ttl <= rec[t].ttl
    BY DEF InvitationInv, InvitationTypeOK
<1>3. IndexReaches' /\ Outlives'
    BY <1>2, StillReached, Zenon
<1> QED
    BY <1>1, <1>3, Zenon DEF InvitationInv

LEMMA InviteInv ==
    ASSUME InvitationInv, NEW c \in Call, NEW t \in Token, NEW p \in Staff, NEW role \in Role, Invite(c, t, p, role)
    PROVE  InvitationInv'
<1>1. /\ UNCHANGED <<rec, idx, idxTtl, mailed, torn, staff>> /\ pc[c] = "idle" /\ Fresh(t)
      /\ pc' = [pc EXCEPT ![c] = "read"]
    BY Zenon DEF Invite, Goto, history
<1>2. InvitationTypeOK'
  <2>1. job' \in [Call -> Job]
    <3> DEFINE j == [job[c] EXCEPT !.rank = staff[p].role, !.own = t, !.terms = [role |-> role, by |-> p]]
    <3>1. job \in [Call -> Job] /\ job[c] \in Job /\ staff[p].role \in Role
        BY Zenon DEF InvitationInv, InvitationTypeOK
    <3>2. j \in Job
        BY <3>1, Zenon DEF Job, Terms
    <3>3. job' = [job EXCEPT ![c] = j]
        BY <3>1, Zenon DEF Invite
    <3> QED
        BY <3>1, <3>2, <3>3, JobSet, Zenon
  <2> QED
      BY <1>1, <2>1, Zenon DEF InvitationInv, InvitationTypeOK
<1>3. Moves(c) /\ pc'[c] = "read" /\ job'[c].own = t
    BY <1>1, Zenon DEF Invite, InvitationInv, InvitationTypeOK, Moves, Job
<1>4. \A d \in Call : Inviting(d)' /\ d # c => job'[d].own # t
    BY <1>1, <1>3, Zenon DEF Fresh, Moves
<1>5. Drawn(c)'
    BY <1>1, <1>3, <1>4, Zenon DEF Drawn, Inviting, Fresh
<1> QED
    BY <1>1, <1>2, <1>3, <1>5, QuietKeeps, Zenon

\* An invite, an accept or a revoke goes on, or gives up, without a write.
LEMMA ReadsInv ==
    ASSUME InvitationInv, NEW c \in Call,
           \/ ReadPending(c) \/ JudgePending(c) \/ Vouch(c) \/ Unique(c) \/ Create(c)
           \/ (\E p \in Staff : Revoke(c, p)) \/ Look(c) \/ Weigh(c)
    PROVE  InvitationInv'
<1>1. UNCHANGED <<rec, idx, idxTtl, mailed, torn, staff>> /\ pc[c] \notin {"drop", "erase"}
    BY Zenon DEF ReadPending, JudgePending, Vouch, Unique, Create, Revoke, Look, Weigh, history
<1>2. InvitationTypeOK'
  <2>1. job' \in [Call -> Job]
    <3>1. job \in [Call -> Job] /\ job[c] \in Job /\ idx \in Token \cup {NoToken}
          /\ \A p \in Staff : staff[p].role \in Role
        BY Zenon DEF InvitationInv, InvitationTypeOK
    <3>2. /\ [job[c] EXCEPT !.seen = idx] \in Job
          /\ \A p \in Staff : [job[c] EXCEPT !.rank = staff[p].role] \in Job
        BY <3>1, Zenon DEF Job
    <3>3. \/ job' = job \/ job' = [job EXCEPT ![c] = NoJob]
          \/ job' = [job EXCEPT ![c] = [job[c] EXCEPT !.seen = idx]]
          \/ \E p \in Staff : job' = [job EXCEPT ![c] = [job[c] EXCEPT !.rank = staff[p].role]]
        BY <3>1, Zenon DEF ReadPending, JudgePending, Vouch, Unique, Create, Revoke, Look, Weigh, Finish
    <3> QED
        BY <3>1, <3>2, <3>3, JobSet, BlankTyped
  <2> QED
      BY <1>1, <2>1 DEF ReadPending, JudgePending, Vouch, Unique, Create, Revoke, Look, Weigh, Finish, Goto,
         InvitationInv, InvitationTypeOK
<1>3. Moves(c)
    BY <1>1, Zenon DEF ReadPending, JudgePending, Vouch, Unique, Create, Revoke, Look, Weigh, Finish, Goto,
         InvitationInv, InvitationTypeOK, Moves
<1>4. Inviting(c)' => Inviting(c) /\ job'[c].own = job[c].own
    BY DEF ReadPending, JudgePending, Vouch, Unique, Create, Revoke, Look, Weigh, Finish, Goto,
         InvitationInv, InvitationTypeOK, Inviting, Job
<1>5. Drawn(c)'
    BY <1>1, <1>3, <1>4 DEF ReadPending, JudgePending, Vouch, Unique, Create, Revoke, Look, Weigh, Finish, Goto,
         InvitationInv, InvitationTypeOK, Inviting, Job, Drawn
<1> QED
    BY <1>1, <1>2, <1>3, <1>4, <1>5, QuietKeeps, Zenon

\* A write that leaves the index entry in place.
LEMMA WriteKeeps ==
    ASSUME InvitationInv, InvitationTypeOK', NEW c \in Call, Moves(c), Drawn(c)', UNCHANGED <<idx, mailed>>,
           torn => torn', idxTtl' >= idxTtl, \A t \in mailed : rec'[t].ttl <= rec[t].ttl,
           pc[c] \in {"drop", "erase"} => torn' \/ \A t \in Token : t = job[c].seen => ~Live(t)',
           Inviting(c)' => Inviting(c) /\ job'[c].own = job[c].own
    PROVE  InvitationInv'
<1>1. \A t \in mailed : Live(t)' => Live(t)
    BY DEF InvitationInv, InvitationTypeOK, Live
<1>2. \A d \in Call : Drawn(d)'
    BY <1>1, OthersHold, Zenon
<1>3. IndexReaches' /\ Outlives'
    BY StillReached, Zenon
<1> QED
    BY <1>2, <1>3, Zenon DEF InvitationInv

\* delete_invitation_by_hash ends a record, and prolongs none.
LEMMA DeleteEnds ==
    ASSUME InvitationTypeOK, NEW t \in Token \cup {NoToken}, Delete(t)
    PROVE  /\ rec' \in [Token -> [role : Role, by : Staff, ttl : 0..InviteTtl]]
           /\ \A x \in Token : rec'[x].ttl <= rec[x].ttl
           /\ ~Live(t)'
<1>1. \A x \in Token : rec[x].ttl \in 0..InviteTtl
    BY Zenon DEF InvitationTypeOK
<1> QED
    BY <1>1, BlankTyped, InvitationAssumption DEF InvitationTypeOK, Delete, Live

LEMMA FinishDraws == ASSUME InvitationTypeOK, NEW c \in Call, Finish(c)
                     PROVE  Drawn(c)' /\ ~Inviting(c)' /\ job' \in [Call -> Job]
                            /\ \A d \in Call \ {c} : pc'[d] = pc[d] /\ job'[d] = job[d]
<1>1. pc'[c] = "idle"
    BY Zenon DEF InvitationTypeOK, Finish
<1>2. job' \in [Call -> Job]
    BY BlankTyped, JobSet, Zenon DEF InvitationTypeOK, Finish
<1> QED
    BY <1>1, <1>2, Zenon DEF InvitationTypeOK, Finish, Drawn, Inviting

\* The deletes an invite or a revoke owes, and the one it may attempt.
LEMMA DeletesInv ==
    ASSUME InvitationInv, NEW c \in Call, DropSuperseded(c) \/ Withdraw(c) \/ Erase(c) PROVE InvitationInv'
<1>0. InvitationTypeOK /\ job[c].own \in Token \cup {NoToken} /\ job[c].seen \in Token \cup {NoToken} /\ Drawn(c)
    BY Zenon DEF InvitationInv, InvitationTypeOK, Job
<1>1. UNCHANGED <<idx, idxTtl, mailed, torn, staff>>
    BY Zenon DEF DropSuperseded, Withdraw, Erase, history
<1>2. /\ rec' \in [Token -> [role : Role, by : Staff, ttl : 0..InviteTtl]]
      /\ \A t \in Token : rec'[t].ttl <= rec[t].ttl
  <2>1. CASE Delete(job[c].seen) \/ Delete(job[c].own)
      BY <1>0, <2>1, DeleteEnds, Zenon
  <2>2. CASE UNCHANGED rec
      BY <1>0, <2>2 DEF InvitationTypeOK
  <2> QED
      BY <2>1, <2>2, Zenon DEF DropSuperseded, Withdraw, Erase
<1>3. pc[c] \in {"drop", "erase"} => \A t \in Token : t = job[c].seen => ~Live(t)'
    BY <1>0, DeleteEnds, Zenon DEF DropSuperseded, Withdraw, Erase
<1>4. /\ Moves(c) /\ InvitationTypeOK' /\ Drawn(c)'
      /\ Inviting(c)' => Inviting(c) /\ job'[c].own = job[c].own
  <2>1. CASE Finish(c)
      BY <1>0, <1>1, <1>2, <2>1, FinishDraws, Zenon DEF InvitationTypeOK, Moves, Finish
  <2>2. CASE DropSuperseded(c)
      BY <1>0, <1>1, <1>2, <2>2, Zenon DEF DropSuperseded, Goto, InvitationTypeOK, Moves, Drawn, Inviting
  <2> QED
      BY <2>1, <2>2, Zenon DEF Withdraw, Erase
<1>5. idxTtl' >= idxTtl /\ \A t \in mailed : rec'[t].ttl <= rec[t].ttl
    BY <1>0, <1>1, <1>2 DEF InvitationTypeOK
<1> QED
    BY <1>1, <1>3, <1>4, <1>5, WriteKeeps, Zenon

\* The record of an invite is written before its token is mailed.
LEMMA PutInv == ASSUME InvitationInv, NEW c \in Call, Put(c) PROVE InvitationInv'
<1>0. InvitationTypeOK /\ job[c] \in Job /\ Drawn(c) /\ job[c].own \in Token \ mailed /\ pc[c] = "put"
    BY Zenon DEF InvitationInv, InvitationTypeOK, Drawn, Inviting, Put
<1>1. /\ UNCHANGED <<idx, idxTtl, mailed, torn, staff, job>> /\ pc' = [pc EXCEPT ![c] = "confirm"]
      /\ rec' = [rec EXCEPT ![job[c].own] = Record(job[c].terms, InviteTtl)]
    BY Zenon DEF Put, Goto, history
<1>2. Record(job[c].terms, InviteTtl) \in [role : Role, by : Staff, ttl : 0..InviteTtl]
    BY <1>0, InvitationAssumption DEF Record, Job, Terms
<1>3. InvitationTypeOK' /\ Moves(c)
    BY <1>0, <1>1, <1>2, Zenon DEF InvitationTypeOK, Moves
<1>4. Drawn(c)' /\ Inviting(c) /\ job'[c].own = job[c].own
    BY <1>0, <1>1, Zenon DEF InvitationTypeOK, Drawn, Inviting
<1>5. idxTtl' >= idxTtl /\ \A t \in mailed : rec'[t].ttl <= rec[t].ttl
    BY <1>0, <1>1 DEF InvitationTypeOK
<1> QED
    BY <1>0, <1>1, <1>3, <1>4, <1>5, WriteKeeps, Zenon

LEMMA UnconfirmedInv == ASSUME InvitationInv, NEW c \in Call, Unconfirmed(c) PROVE InvitationInv'
<1>0. InvitationTypeOK /\ Drawn(c) /\ pc[c] = "confirm"
    BY Zenon DEF InvitationInv, Unconfirmed
<1>1. /\ UNCHANGED <<idx, mailed, torn, staff, job, rec>> /\ pc' = [pc EXCEPT ![c] = "withdraw"]
      /\ idxTtl' \in {idxTtl, InviteTtl}
    BY Zenon DEF Unconfirmed, CasIndex, Goto, history
<1>2. InvitationTypeOK' /\ Moves(c)
    BY <1>0, <1>1, InvitationAssumption DEF InvitationTypeOK, Moves
<1>3. Drawn(c)' /\ Inviting(c) /\ job'[c].own = job[c].own
    BY <1>0, <1>1, Zenon DEF InvitationTypeOK, Drawn, Inviting
<1>4. idxTtl' >= idxTtl /\ \A t \in mailed : rec'[t].ttl <= rec[t].ttl
    BY <1>0, <1>1, InvitationAssumption DEF InvitationTypeOK
<1> QED
    BY <1>0, <1>1, <1>2, <1>3, <1>4, WriteKeeps, Zenon

\* An accept consumes a mailed invitation, and notes whether its inviter had
\* the authority then.
LEMMA AcceptInv == ASSUME InvitationInv, NEW c \in Call, NEW t \in Token, Accept(c, t) PROVE InvitationInv'
<1> DEFINE j == [job[c] EXCEPT !.own = t, !.terms = Taken(t), !.void = ~Authorised(Taken(t))]
<1>0. InvitationTypeOK /\ job[c] \in Job /\ job \in [Call -> Job] /\ rec[t] \in [role : Role, by : Staff, ttl : 0..InviteTtl]
    BY Zenon DEF InvitationInv, InvitationTypeOK
<1>1. /\ UNCHANGED <<idx, idxTtl, mailed, torn, staff>> /\ pc[c] = "idle" /\ pc' = [pc EXCEPT ![c] = "untrack"]
      /\ rec' = [rec EXCEPT ![t] = Absent] /\ t \in mailed
    BY Zenon DEF Accept, Goto
<1>2. job' = [job EXCEPT ![c] = j]
    BY <1>0, Zenon DEF Accept
<1>3. j \in Job /\ j.own = t /\ j.terms = Taken(t) /\ j.void = ~Authorised(Taken(t))
  <2>1. Taken(t) \in Terms /\ (~Authorised(Taken(t))) \in BOOLEAN
      BY <1>0, Zenon DEF Taken, Terms
  <2> QED
      BY <1>0, <2>1, Zenon DEF Job
<1> HIDE DEF j
<1>4. InvitationTypeOK' /\ Moves(c)
  <2>1. job' \in [Call -> Job]
      BY <1>0, <1>2, <1>3, JobSet, Zenon
  <2> QED
      BY <1>0, <1>1, <1>2, <2>1, BlankTyped, Zenon DEF InvitationTypeOK, Moves
<1>5. Drawn(c)' /\ ~Inviting(c)'
  <2>1. pc'[c] = "untrack" /\ job'[c] = j /\ ~Live(t)'
      BY <1>0, <1>1, <1>2, BlankTyped DEF InvitationTypeOK, Live
  <2>2. job'[c].own = t /\ job'[c].terms = Taken(t) /\ job'[c].void = ~Authorised(Taken(t))
      BY <1>3, <2>1, Zenon
  <2>3. Authorised(job[c].terms)' = Authorised(Taken(t))
      BY <1>1, <2>2, Zenon DEF Authorised
  <2> QED
      BY <1>1, <2>1, <2>2, <2>3, Zenon DEF Drawn, Inviting
<1>6. idxTtl' >= idxTtl /\ \A x \in mailed : rec'[x].ttl <= rec[x].ttl
    BY <1>0, <1>1, BlankTyped DEF InvitationTypeOK
<1> QED
    BY <1>1, <1>4, <1>5, <1>6, WriteKeeps, Zenon

LEMMA AbandonInv == ASSUME InvitationInv, NEW c \in Call, Abandon(c) PROVE InvitationInv'
<1>0. InvitationTypeOK
    BY Zenon DEF InvitationInv
<1>1. /\ UNCHANGED <<idx, idxTtl, mailed, staff, rec>> /\ Finish(c)
      /\ torn' = (torn \/ pc[c] \in {"drop", "erase"})
    BY Zenon DEF Abandon
<1>2. InvitationTypeOK' /\ Moves(c) /\ Drawn(c)' /\ ~Inviting(c)'
    BY <1>0, <1>1, FinishDraws, Zenon DEF InvitationTypeOK, Moves, Finish
<1>3. idxTtl' >= idxTtl /\ \A t \in mailed : rec'[t].ttl <= rec[t].ttl
    BY <1>0, <1>1 DEF InvitationTypeOK
<1> QED
    BY <1>1, <1>2, <1>3, WriteKeeps, Zenon

\* A claim that lost the race is retried, or given up.
LEMMA ClaimLostInv == ASSUME InvitationInv, NEW c \in Call, Claim(c), idx # job[c].seen PROVE InvitationInv'
<1>0. InvitationTypeOK /\ job[c] \in Job /\ job \in [Call -> Job] /\ Drawn(c) /\ pc[c] = "claim"
    BY Zenon DEF InvitationInv, InvitationTypeOK, Claim
<1>1. UNCHANGED <<rec, idx, idxTtl, mailed, torn, staff>>
    BY Zenon DEF Claim, CasIndex, history
<1>2. CASE Finish(c)
  <2>1. InvitationTypeOK' /\ Moves(c) /\ Drawn(c)' /\ ~Inviting(c)'
      BY <1>0, <1>1, <1>2, FinishDraws, Zenon DEF InvitationTypeOK, Moves, Finish
  <2> QED
      BY <1>0, <1>1, <2>1, QuietKeeps, Zenon
<1>3. CASE Goto(c, "read") /\ job' = [job EXCEPT ![c].tries = @ + 1]
  <2> DEFINE j == [job[c] EXCEPT !.tries = @ + 1]
  <2>1. j \in Job /\ j.own = job[c].own
      BY <1>0 DEF Job
  <2>2. job' = [job EXCEPT ![c] = j]
      BY <1>0, <1>3, Zenon
  <2> HIDE DEF j
  <2>3. job' \in [Call -> Job] /\ job'[c] = j
      BY <1>0, <2>1, <2>2, JobSet, Zenon
  <2>4. InvitationTypeOK' /\ Moves(c)
      BY <1>0, <1>1, <1>3, <2>2, <2>3, Zenon DEF InvitationTypeOK, Moves, Goto
  <2>5. Drawn(c)' /\ Inviting(c) /\ job'[c].own = job[c].own
      BY <1>0, <1>1, <1>3, <2>1, <2>2, <2>3 DEF InvitationTypeOK, Drawn, Inviting, Goto
  <2> QED
      BY <1>0, <1>1, <2>4, <2>5, QuietKeeps, Zenon
<1> QED
    BY <1>2, <1>3, Zenon DEF Claim, CasIndex

\* A claim that won names its own token; the one it displaced it will delete.
LEMMA ClaimWonInv == ASSUME InvitationInv, NEW c \in Call, Claim(c), idx = job[c].seen PROVE InvitationInv'
<1>0. /\ InvitationTypeOK /\ job[c] \in Job /\ Drawn(c) /\ pc[c] = "claim" /\ job[c].own \in Token \ mailed
      /\ job[c].seen \in Token \cup {NoToken}
    BY Zenon DEF InvitationInv, InvitationTypeOK, Claim, Drawn, Inviting, Job
<1>1. /\ UNCHANGED <<rec, mailed, torn, staff, job>> /\ idx' = job[c].own /\ idxTtl' = InviteTtl
      /\ pc' = [pc EXCEPT ![c] = IF job[c].seen = NoToken THEN "put" ELSE "drop"]
    BY Zenon DEF Claim, CasIndex, Goto, history
<1>2. InvitationTypeOK' /\ Moves(c)
  <2>1. InviteTtl \in 0..InviteTtl
      BY InvitationAssumption
  <2> QED
      BY <1>0, <1>1, <2>1, Zenon DEF InvitationTypeOK, Moves
<1>3. Drawn(c)' /\ Inviting(c) /\ job'[c].own = job[c].own
    BY <1>0, <1>1, Zenon DEF InvitationTypeOK, Drawn, Inviting
<1>4. \A d \in Call : Drawn(d)'
    BY <1>1, <1>2, <1>3, OthersHold, Zenon DEF Live
<1>5. Outlives'
    BY <1>0, <1>1, Zenon DEF Outlives, Redeemable
<1>6. IndexReaches'
  <2> SUFFICES ASSUME ~torn, NEW t \in Token, Redeemable(t)
               PROVE  \E d \in Call : pc'[d] \in {"drop", "erase"} /\ job'[d].seen = t
      BY <1>1, Zenon DEF IndexReaches, Redeemable, Live
  <2>1. CASE idx = t
      BY <1>0, <1>1, <2>1, InvitationAssumption, Zenon DEF InvitationTypeOK
  <2>2. CASE \E d \in Call : pc[d] \in {"drop", "erase"} /\ job[d].seen = t
      BY <1>0, <1>2, <2>2, Zenon DEF Moves
  <2> QED
      BY <2>1, <2>2, Zenon DEF InvitationInv, IndexReaches
<1> QED
    BY <1>2, <1>4, <1>5, <1>6, Zenon DEF InvitationInv

\* The mail is sent while the index names the invitation, for a lifetime anew.
LEMMA ConfirmInv == ASSUME InvitationInv, NEW c \in Call, Confirm(c) PROVE InvitationInv'
<1>0. InvitationTypeOK /\ Drawn(c) /\ pc[c] = "confirm" /\ Inviting(c) /\ job[c].own \in Token
    BY Zenon DEF InvitationInv, Confirm, Drawn, Inviting
<1>1. /\ UNCHANGED <<rec, idx, torn, staff>> /\ idx = job[c].own /\ idxTtl' = InviteTtl /\ Finish(c)
      /\ mailed' = mailed \cup {job[c].own}
    BY Zenon DEF Confirm, CasIndex
<1>2. InvitationTypeOK' /\ Moves(c) /\ Drawn(c)' /\ ~Inviting(c)'
  <2>0. job' \in [Call -> Job] /\ Drawn(c)' /\ ~Inviting(c)'
        /\ \A d \in Call \ {c} : pc'[d] = pc[d] /\ job'[d] = job[d]
      BY <1>0, <1>1, FinishDraws, Zenon
  <2>1. Moves(c)
      BY <1>1, <2>0, Zenon DEF Moves
  <2>2. pc' = [pc EXCEPT ![c] = "idle"]
      BY <1>1, Zenon DEF Finish
  <2>3. InvitationTypeOK'
      BY <1>0, <1>1, <2>0, <2>2, InvitationAssumption DEF InvitationTypeOK
  <2> QED
      BY <2>0, <2>1, <2>3, Zenon
<1>3. \A d \in Call : Drawn(d)'
    BY <1>0, <1>1, <1>2, OthersHold, Zenon DEF Live
<1>4. Outlives'
    BY <1>0, <1>1 DEF InvitationTypeOK, Outlives
<1>5. IndexReaches'
  <2> SUFFICES ASSUME ~torn, NEW t \in Token, Redeemable(t), idx # t
               PROVE  \E d \in Call : pc'[d] \in {"drop", "erase"} /\ job'[d].seen = t
      BY <1>1, Zenon DEF IndexReaches, Redeemable, Live
  <2>1. PICK d \in Call : pc[d] \in {"drop", "erase"} /\ job[d].seen = t
      BY Zenon DEF InvitationInv, IndexReaches
  <2> QED
      BY <1>0, <1>2, <2>1, Zenon DEF Moves
<1> QED
    BY <1>2, <1>3, <1>4, <1>5, Zenon DEF InvitationInv

\* Taking the entry for an invitation that is gone loses nothing else unless
\* the entry had moved on, which torn records.
LEMMA UntrackInv == ASSUME InvitationInv, NEW c \in Call, Untrack(c) PROVE InvitationInv'
<1>0. InvitationTypeOK /\ Drawn(c) /\ pc[c] = "untrack" /\ job[c].own \in mailed /\ ~Live(job[c].own)
    BY Zenon DEF InvitationInv, Untrack, Drawn
<1>1. /\ UNCHANGED <<rec, staff, job, mailed>> /\ idx' = NoToken /\ idxTtl' = 0
      /\ torn' = (torn \/ idx \notin {job[c].own, NoToken}) /\ pc' = [pc EXCEPT ![c] = "vouch"]
    BY Zenon DEF Untrack, TakeIndex, Goto
<1>2. InvitationTypeOK' /\ Moves(c)
  <2>1. torn' \in BOOLEAN
      BY <1>1, Zenon
  <2> QED
      BY <1>0, <1>1, <2>1, InvitationAssumption DEF InvitationTypeOK, Moves
<1>3. Drawn(c)' /\ ~Inviting(c)'
    BY <1>0, <1>1, Zenon DEF InvitationTypeOK, Drawn, Inviting, Live, Authorised
<1>4. \A d \in Call : Drawn(d)'
    BY <1>1, <1>2, <1>3, OthersHold, Zenon DEF Live
<1>5. Outlives'
    BY <1>1, InvitationAssumption, Zenon DEF Outlives
<1>6. IndexReaches'
  <2> SUFFICES ASSUME ~torn, idx \in {job[c].own, NoToken}, NEW t \in Token, Redeemable(t)
               PROVE  \E d \in Call : pc'[d] \in {"drop", "erase"} /\ job'[d].seen = t
      BY <1>1, Zenon DEF IndexReaches, Redeemable, Live
  <2>1. idx # t
      BY <1>0, InvitationAssumption, Zenon DEF Redeemable
  <2>2. PICK d \in Call : pc[d] \in {"drop", "erase"} /\ job[d].seen = t
      BY <2>1, Zenon DEF InvitationInv, IndexReaches
  <2> QED
      BY <1>0, <1>2, <2>2, Zenon DEF Moves
<1> QED
    BY <1>2, <1>4, <1>5, <1>6, Zenon DEF InvitationInv

LEMMA UntieInv == ASSUME InvitationInv, NEW c \in Call, Untie(c) PROVE InvitationInv'
<1>0. InvitationTypeOK /\ Drawn(c) /\ pc[c] = "untie" /\ job[c].seen \in Token
    BY Zenon DEF InvitationInv, Untie, Drawn
<1>1. /\ UNCHANGED <<rec, staff, job, mailed>> /\ idx' = NoToken /\ idxTtl' = 0
      /\ torn' = (torn \/ idx \notin {job[c].seen, NoToken}) /\ pc' = [pc EXCEPT ![c] = "erase"]
    BY Zenon DEF Untie, TakeIndex, Goto
<1>2. InvitationTypeOK' /\ Moves(c)
  <2>1. torn' \in BOOLEAN
      BY <1>1, Zenon
  <2> QED
      BY <1>0, <1>1, <2>1, InvitationAssumption DEF InvitationTypeOK, Moves
<1>3. Drawn(c)' /\ ~Inviting(c)'
    BY <1>0, <1>1, Zenon DEF InvitationTypeOK, Drawn, Inviting
<1>4. \A d \in Call : Drawn(d)'
    BY <1>1, <1>2, <1>3, OthersHold, Zenon DEF Live
<1>5. Outlives'
    BY <1>1, InvitationAssumption, Zenon DEF Outlives
<1>6. IndexReaches'
  <2> SUFFICES ASSUME ~torn, idx \in {job[c].seen, NoToken}, NEW t \in Token, Redeemable(t)
               PROVE  \E d \in Call : pc'[d] \in {"drop", "erase"} /\ job'[d].seen = t
      BY <1>1, Zenon DEF IndexReaches, Redeemable, Live
  <2>1. CASE idx = t
      BY <1>0, <1>1, <2>1, InvitationAssumption, Zenon DEF InvitationTypeOK
  <2>2. CASE idx # t
    <3>1. PICK d \in Call : pc[d] \in {"drop", "erase"} /\ job[d].seen = t
        BY <2>2, Zenon DEF InvitationInv, IndexReaches
    <3> QED
        BY <1>0, <1>2, <3>1, Zenon DEF Moves
  <2> QED
      BY <2>1, <2>2, Zenon
<1> QED
    BY <1>2, <1>4, <1>5, <1>6, Zenon DEF InvitationInv

\* Authority given back while an accept is under way clears its mark.
LEMMA HostUpdatesInv ==
    ASSUME InvitationInv, NEW p \in Staff, NEW now \in [role : Role, active : BOOLEAN], HostUpdates(p, now)
    PROVE  InvitationInv'
<1>0. InvitationTypeOK
    BY Zenon DEF InvitationInv
<1>1. UNCHANGED <<rec, idx, idxTtl, pc, mailed, torn>> /\ staff' = [staff EXCEPT ![p] = now]
    BY Zenon DEF HostUpdates, history
<1>2. ASSUME NEW c \in Call
      PROVE  /\ job'[c] \in Job /\ job'[c].own = job[c].own /\ job'[c].seen = job[c].seen
             /\ job'[c].terms = job[c].terms /\ (~job[c].void => ~job'[c].void)
             /\ (pc[c] \in {"untrack", "vouch"} /\ job[c].terms.by = p /\ MayGrant(now, job[c].terms.role)
                   => ~job'[c].void)
  <2>1. job[c] \in Job
      BY <1>0, Zenon DEF InvitationTypeOK
  <2> QED
      BY <2>1, Zenon DEF HostUpdates, Job
<1>3. InvitationTypeOK'
  <2>1. job' \in [Call -> Job]
      BY <1>2, Zenon DEF HostUpdates
  <2>2. staff' \in [Staff -> [role : Role, active : BOOLEAN]]
      BY <1>0, <1>1, Zenon DEF InvitationTypeOK
  <2> QED
      BY <1>0, <1>1, <2>1, <2>2, Zenon DEF InvitationTypeOK
<1>4. ASSUME NEW c \in Call PROVE Drawn(c)'
  <2>0. Drawn(c)
      BY Zenon DEF InvitationInv
  <2>1. (pc[c] \in {"untrack", "vouch"} /\ Authorised(job[c].terms) => ~job[c].void)'
    <3> SUFFICES ASSUME pc[c] \in {"untrack", "vouch"}, MayGrant(staff'[job[c].terms.by], job[c].terms.role)
                 PROVE  ~job'[c].void
        BY <1>1, <1>2, Zenon DEF Authorised
    <3>1. CASE job[c].terms.by = p
        BY <1>0, <1>1, <1>2, <3>1, Zenon DEF InvitationTypeOK
    <3>2. CASE job[c].terms.by # p
      <4>1. job[c].terms.by \in Staff
          BY <1>0, Zenon DEF InvitationTypeOK, Job, Terms
      <4>2. staff'[job[c].terms.by] = staff[job[c].terms.by]
          BY <1>0, <1>1, <3>2, <4>1, Zenon DEF InvitationTypeOK
      <4> QED
          BY <1>2, <2>0, <4>2, Zenon DEF Drawn, Authorised
    <3> QED
        BY <3>1, <3>2, Zenon
  <2> QED
      BY <1>1, <1>2, <2>0, <2>1, Zenon DEF Drawn, Inviting, Live
<1>5. Outlives'
    BY <1>1, Zenon DEF InvitationInv, Outlives, Redeemable, Live
<1>6. IndexReaches'
  <2> SUFFICES ASSUME ~torn, NEW t \in Token, Redeemable(t), idx # t
               PROVE  \E d \in Call : pc'[d] \in {"drop", "erase"} /\ job'[d].seen = t
      BY <1>1, Zenon DEF IndexReaches, Redeemable, Live
  <2>1. PICK d \in Call : pc[d] \in {"drop", "erase"} /\ job[d].seen = t
      BY Zenon DEF InvitationInv, IndexReaches
  <2> QED
      BY <1>1, <1>2, <2>1, Zenon
<1> QED
    BY <1>3, <1>4, <1>5, <1>6, Zenon DEF InvitationInv

\* An entry that names an invitation expires with it or later.
LEMMA InvitationTickInv == ASSUME InvitationInv, InvitationTick PROVE InvitationInv'
<1>0. InvitationTypeOK
    BY Zenon DEF InvitationInv
<1>1. UNCHANGED <<staff, pc, job, mailed, torn>>
    BY Zenon DEF InvitationTick, history
<1>2. ASSUME NEW t \in Token
      PROVE  /\ rec'[t] \in [role : Role, by : Staff, ttl : 0..InviteTtl]
             /\ rec'[t].ttl > 0 => rec[t].ttl > 1 /\ rec'[t].ttl = rec[t].ttl - 1
  <2>1. rec[t] \in [role : Role, by : Staff, ttl : 0..InviteTtl]
      BY <1>0, Zenon DEF InvitationTypeOK
  <2>2. CASE rec[t].ttl > 1
    <3>1. rec'[t] = [rec[t] EXCEPT !.ttl = @ - 1]
        BY <2>2, Zenon DEF InvitationTick
    <3> QED
        BY <2>1, <2>2, <3>1, InvitationAssumption
  <2>3. CASE ~(rec[t].ttl > 1)
    <3>1. rec'[t] = Absent
        BY <2>3, Zenon DEF InvitationTick
    <3>2. ~(0 > 0)
        OBVIOUS
    <3> QED
        BY <3>1, <3>2, BlankTyped, Zenon
  <2> QED
      BY <2>2, <2>3, Zenon
<1>3. /\ idx' \in Token \cup {NoToken} /\ idxTtl' \in 0..InviteTtl
      /\ idxTtl > 1 => idx' = idx /\ idxTtl' = idxTtl - 1
      /\ \A t \in Token : idx' = t => idx = t /\ idxTtl > 1
    BY <1>0, InvitationAssumption DEF InvitationTypeOK, InvitationTick
<1>4. InvitationTypeOK'
  <2>1. rec' \in [Token -> [role : Role, by : Staff, ttl : 0..InviteTtl]]
      BY <1>2, Zenon DEF InvitationTick
  <2> QED
      BY <1>0, <1>1, <1>3, <2>1, Zenon DEF InvitationTypeOK
<1>5. ASSUME NEW t \in Token, rec'[t].ttl > 0 PROVE rec[t].ttl > 0 /\ rec[t].ttl > 1
    BY <1>0, <1>2, <1>5 DEF InvitationTypeOK
<1>6. \A c \in Call : Drawn(c)'
  <2> TAKE c \in Call
  <2>1. Drawn(c) /\ mailed \subseteq Token
      BY <1>0, Zenon DEF InvitationInv, InvitationTypeOK
  <2> QED
      BY <1>1, <1>5, <2>1, Zenon DEF Drawn, Inviting, Live, Authorised
<1>7. Outlives'
  <2> SUFFICES ASSUME NEW t \in Token, Redeemable(t)', idx' = t PROVE rec'[t].ttl <= idxTtl'
      BY Zenon DEF Outlives
  <2>1. Redeemable(t) /\ rec'[t].ttl > 0
      BY <1>1, <1>5, Zenon DEF Redeemable, Live
  <2>2. rec[t].ttl <= idxTtl
      BY <1>3, <2>1, Zenon DEF InvitationInv, Outlives
  <2> QED
      BY <1>0, <1>2, <1>3, <2>1, <2>2 DEF InvitationTypeOK
<1>8. IndexReaches'
  <2> SUFFICES ASSUME ~torn, NEW t \in Token, Redeemable(t)'
               PROVE  idx' = t \/ \E d \in Call : pc[d] \in {"drop", "erase"} /\ job[d].seen = t
      BY <1>1, Zenon DEF IndexReaches
  <2>1. Redeemable(t) /\ rec[t].ttl > 1
      BY <1>1, <1>5, Zenon DEF Redeemable, Live
  <2>2. CASE idx = t
    <3>1. rec[t].ttl <= idxTtl
        BY <2>1, <2>2, Zenon DEF InvitationInv, Outlives
    <3> QED
        BY <1>0, <1>3, <2>1, <2>2, <3>1 DEF InvitationTypeOK
  <2> QED
      BY <2>1, <2>2, Zenon DEF InvitationInv, IndexReaches
<1> QED
    BY <1>4, <1>6, <1>7, <1>8, Zenon DEF InvitationInv

LEMMA InvitationStep == InvitationInv /\ [InvitationNext]_invitationVars => InvitationInv'
<1> SUFFICES ASSUME InvitationInv, [InvitationNext]_invitationVars PROVE InvitationInv'
    BY Zenon
<1>1. ASSUME NEW c \in Call, InviteSteps(c) PROVE InvitationInv'
  <2>1. CASE \E t \in Token, p \in Staff, role \in Role : Invite(c, t, p, role)
      BY <2>1, InviteInv, Zenon
  <2>2. CASE ReadPending(c) \/ JudgePending(c)
      BY <2>2, ReadsInv, Zenon
  <2>3. CASE Claim(c)
      BY <2>3, ClaimLostInv, ClaimWonInv, Zenon
  <2>4. CASE DropSuperseded(c) \/ Withdraw(c)
      BY <2>4, DeletesInv, Zenon
  <2>5. CASE Put(c) \/ Confirm(c) \/ Unconfirmed(c)
      BY <2>5, PutInv, ConfirmInv, UnconfirmedInv, Zenon
  <2> QED
      BY <1>1, <2>1, <2>2, <2>3, <2>4, <2>5, Zenon DEF InviteSteps
<1>2. ASSUME NEW c \in Call, AcceptSteps(c) PROVE InvitationInv'
    BY <1>2, AcceptInv, UntrackInv, ReadsInv, Zenon DEF AcceptSteps
<1>3. ASSUME NEW c \in Call, RevokeSteps(c) PROVE InvitationInv'
    BY <1>3, ReadsInv, UntieInv, DeletesInv, Zenon DEF RevokeSteps
<1>4. CASE UNCHANGED invitationVars
  <2>1. UNCHANGED <<rec, idx, idxTtl, staff, pc, job, mailed, torn>>
      BY <1>4, Zenon DEF invitationVars, history
  <2>2. InvitationTypeOK'
      BY <2>1, Zenon DEF InvitationInv, InvitationTypeOK
  <2>3. IndexReaches' /\ Outlives'
      BY <2>1, Zenon DEF InvitationInv, IndexReaches, Outlives, Redeemable, Live
  <2>4. \A c \in Call : Drawn(c)'
      BY <2>1, Zenon DEF InvitationInv, Drawn, Inviting, Live, Authorised
  <2> QED
      BY <2>2, <2>3, <2>4, Zenon DEF InvitationInv
<1> QED
    BY <1>1, <1>2, <1>3, <1>4, AbandonInv, HostUpdatesInv, InvitationTickInv, Zenon DEF InvitationNext

\* Through any interleaving of invites, accepts, revokes, expiries, host changes
\* and failing calls a token has one holder until it is mailed, and the index
\* entry of a mailed invitation lasts as long as the invitation.
THEOREM InvitationInvariance == InvitationSpec => []InvitationInv
<1> QED
    BY InvitationInitial, InvitationStep, PTL DEF InvitationSpec

\* However many calls contend for the address, the index leads to every
\* invitation that can still be accepted, or the call that displaced it is about
\* to delete it (the claim and the confirmation of supersede.rs).
THEOREM IndexReachesInvitations == InvitationSpec => []IndexReaches
<1>1. InvitationInv => IndexReaches
    BY Zenon DEF InvitationInv
<1> QED
    BY <1>1, InvitationInvariance, PTL

\* An accept does not come to creating an account for an inviter who was without
\* authority ever since the token was consumed.
THEOREM AuthorityHoldsAtAccept == InvitationSpec => []AuthorityAtAccept
<1>1. InvitationInv => AuthorityAtAccept
    BY Zenon DEF InvitationInv, AuthorityAtAccept, Drawn
<1> QED
    BY <1>1, InvitationInvariance, PTL
=============================================================================
