--------------------------- MODULE RefreshProofs ----------------------------
(***************************************************************************)
(* Machine-checked proofs about Refresh, for any number of requests,       *)
(* tokens, accounts and lineages.  A refresh implements the session store  *)
(* (RefreshImplementsStore), so the theorems of SessionStoreProofs hold    *)
(* with requests in flight; the rest are about what requests do together.  *)
(*                                                                         *)
(* The argument rests on one fact about the store, StoreFrame: a hash that *)
(* has been recorded keeps its record, never gains lifetime, and once      *)
(* rotated keeps its successor and never regains a spent pointer.  What a  *)
(* request read therefore stays true enough while it waits.                *)
(***************************************************************************)
EXTENDS Refresh, SessionStoreProofs

\* What is true of a request wherever it waits.  A request that has begun
\* presented a token that was once stored; nothing is minted before the script
\* or the recovery has answered; what is about to be written has been measured;
\* a record read for a session that is still live is that session's record.
Carries(r) ==
    /\ pc[r] # "idle" => tok[r] \in Hash /\ rec[tok[r]] # NoRecord
    /\ pc[r] \in {"idle", "rotate", "family", "recover", "members", "probe"} => minted[r] = NoHash
    /\ pc[r] = "rotate" => WithinLifetime(seed[r])
    /\ pc[r] = "recover" => WithinLifetime(rec[tok[r]])
    /\ pc[r] = "rotate" /\ rt[tok[r]] > 0 => seed[r] = rec[tok[r]]
    /\ minted[r] # NoHash => /\ pc[r] # "idle"
                             /\ rec[minted[r]] # NoRecord
                             /\ succ[tok[r]] \in Hash

\* The reuse arm looks at members of the presented token's own lineage.
Probes(r) ==
    /\ pc[r] \in {"members", "probe"} => Lineage(r) \in Family
    /\ owner[r] # NoSubject => pc[r] # "idle" /\ owner[r] = Holder(r)
    /\ \A m \in probe[r] : pc[r] # "idle" /\ rec[m] # NoRecord /\ rec[m].family = Lineage(r)

\* A request that took the grace answer, or minted by it, has spent the pointer
\* of its token; one that was answered by rotation minted the token's successor.
Holding(r) ==
    \/ pc[r] \in {"family", "recover"}
    \/ minted[r] # NoHash /\ minted[r] # succ[tok[r]]
Spent(r) == Holding(r) => pc[r] # "idle" /\ succ[tok[r]] \in Hash /\ rp[tok[r]] = 0
Rotating(r) == minted[r] # NoHash /\ minted[r] = succ[tok[r]]

Sound(r) == Carries(r) /\ Probes(r) /\ Spent(r)

\* Only one request of a token can do either.
Exclusive(q, r) ==
    tok[q] = tok[r] => ~(Holding(q) /\ Holding(r)) /\ ~(Rotating(q) /\ Rotating(r))

Sessions == LineageEnds /\ RotatedSessionsPostdateSweep

RInv ==
    /\ IInv
    /\ Owned
    /\ RefreshTypeOK
    /\ \A r \in Req : Sound(r)
    /\ \A q, r \in Req : q # r => Exclusive(q, r)
    /\ Sessions

-----------------------------------------------------------------------------
\* The types of the store, as the steps below use them.
LEMMA StoreTypes ==
    ASSUME RInv
    PROVE  \A h \in Hash : rt[h] \in Nat /\ rp[h] \in Nat /\ rec[h] \in Record \cup {NoRecord}
    BY TtlAssumption DEF RInv, RefreshTypeOK, TypeOK, Ttl

LEMMA StoreTypeKept ==
    ASSUME RInv, [Next]_vars
    PROVE  TypeOK'
    BY NextInv, Zenon DEF RInv, IInv

LEMMA AccountTypesKept ==
    ASSUME RInv, UNCHANGED <<account, age, history>>
    PROVE  AccountTypeOK'
    BY Zenon DEF RInv, RefreshTypeOK, AccountTypeOK, account, history

LEMMA RequestTypesKept ==
    ASSUME RInv, UNCHANGED local
    PROVE  RequestTypeOK'
    BY Zenon DEF RInv, RefreshTypeOK, RequestTypeOK, local

\* Every step of a refresh, and of what runs beside it, is a step of the store or
\* leaves it alone.
LEMMA StepRefines == RInv /\ [RefreshNext]_refreshVars => [Next]_vars
<1> SUFFICES ASSUME RInv, [RefreshNext]_refreshVars PROVE [Next]_vars
    BY Zenon
<1>0. \A r \in Req : pc[r] # "idle" => /\ tok[r] \in Hash /\ rec[tok[r]] # NoRecord
                                       /\ Holder(r) \in Subject
    BY DEF RInv, Sound, Carries, RefreshTypeOK, RequestTypeOK, TypeOK, Record, Holder
<1>1. ASSUME NEW r \in Req, ReqNext(r) PROVE [Next]_vars
  <2> USE <1>1
  <2>1. CASE \/ \E h \in Hash : Begin(r, h)
             \/ CheckRecovered(r) \/ RecoverRefused(r) \/ Sign(r) \/ ListMembers(r)
             \/ \E m \in Hash : ProbeMember(r, m)
      BY <2>1, Zenon DEF Begin, CheckRecovered, RecoverRefused, Sign, ListMembers, ProbeMember, vars
  <2>2. CASE \/ Verify(r) \/ GateRestamps(r) \/ CompensateBump(r) \/ Fail(r)
             \/ \E status \in {"active", "blocked", "unverified"} : Gate(r, status)
      BY <2>2, Zenon DEF Verify, GateRestamps, CompensateBump, Fail, Gate, vars
  <2>3. CASE \E n \in Hash : Rotated(r, n)
      BY <1>0, <2>3, Zenon DEF Rotated, At, Next
  <2>4. CASE Move(r)
      BY <1>0, <2>4, Zenon DEF Move, At, Next
  <2>5. CASE Answered(r)
      BY <1>0, <2>5, Zenon DEF Answered, SpendIfHeld, At, Next
  <2>6. CASE \E n \in Hash : Recover(r, n)
      BY <1>0, <2>6, Zenon DEF Recover, At, Next
  <2>7. CASE Lockout(r)
    <3>1. tok[r] \in Hash /\ rec[tok[r]] # NoRecord
        BY <1>0, <2>7, Zenon DEF Lockout, At
    <3>2. Lineage(r) \in Family /\ owner[r] \in {rec[tok[r]].subject, NoSubject}
        BY <2>7, Zenon DEF Lockout, At, RInv, Sound, Probes, Holder
    <3>3. RevokeFamily(Lineage(r), owner[r])
        BY <2>7, Zenon DEF Lockout
    <3>4. rec[tok[r]].family = Lineage(r)
        BY Zenon DEF Lineage
    <3> QED
        BY <3>1, <3>2, <3>3, <3>4, Zenon DEF Next
  <2>8. CASE Compensate(r)
      BY <1>0, <2>8, Zenon DEF Compensate, Sweep, At, Next
  <2> QED
      BY <2>1, <2>2, <2>3, <2>4, <2>5, <2>6, <2>7, <2>8, Zenon DEF ReqNext
<1>2. CASE \E s \in Subject, h \in Hash, f \in Family \cup {NoFamily} : Login(s, h, f)
    BY <1>2, Zenon DEF Login, Next
<1>3. CASE \E s \in Subject : RevokeAllSessions(s)
    BY <1>3, Zenon DEF RevokeAllSessions, Sweep, Next
<1>4. CASE \E s \in Subject, bumped \in BOOLEAN : RevokeAllSessionsEnds(s, bumped)
    BY <1>4, Zenon DEF RevokeAllSessionsEnds, vars
<1>5. CASE \E s \in Subject, h \in Hash : CloseSession(s, h)
    BY <1>5, Zenon DEF CloseSession, Next
<1>6. CASE \E h \in Hash : ClosePointer(h)
    BY <1>6, Zenon DEF ClosePointer, Next
<1>7. CASE \E s \in Subject : List(s)
    BY <1>7, Zenon DEF List, Next
<1>8. CASE RefreshTick
    BY <1>8, Zenon DEF RefreshTick, Next
<1>9. CASE UNCHANGED refreshVars
    BY <1>9, Zenon DEF refreshVars, vars
<1> QED
    BY <1>1, <1>2, <1>3, <1>4, <1>5, <1>6, <1>7, <1>8, <1>9, Zenon DEF RefreshNext

-----------------------------------------------------------------------------
(* What a step owes the invariant.                                         *)

\* A request the step does not touch.
Same(q) ==
    /\ pc'[q] = pc[q] /\ tok'[q] = tok[q] /\ seed'[q] = seed[q]
    /\ minted'[q] = minted[q] /\ probe'[q] = probe[q] /\ owner'[q] = owner[q]

\* No lineage gets older while a request is about to write.
NoOlder(q) == pc[q] \in {"rotate", "recover"} => \A f \in Family : age'[f] <= age[f]

\* It stays sound whatever the store does.
LEMMA SameSound ==
    ASSUME RInv, RefreshTypeOK', Frame, NEW q \in Req, Same(q), NoOlder(q)
    PROVE  /\ Sound(q)'
           /\ Holding(q)' => Holding(q)
           /\ Rotating(q)' => Rotating(q)
<1>0. /\ Carries(q) /\ Probes(q) /\ Spent(q)
      /\ tok[q] \in Hash \cup {NoHash} /\ minted[q] \in Hash \cup {NoHash}
      /\ seed[q] \in Record \cup {NoRecord} /\ probe[q] \subseteq Hash
    BY Zenon DEF RInv, Sound, RefreshTypeOK, RequestTypeOK
<1>1. \A h \in Hash : rt[h] \in Nat /\ rt'[h] \in Nat /\ rp'[h] \in Nat
    BY TtlAssumption DEF RInv, RefreshTypeOK, TypeOK, Ttl
<1>2. \A h \in Hash : rec[h] \in Record \cup {NoRecord}
    BY Zenon DEF RInv, RefreshTypeOK, TypeOK
<1>3. \A f \in Family : age[f] \in Nat /\ age'[f] \in Nat
    BY TtlAssumption, CapAssumption DEF RInv, RefreshTypeOK, AccountTypeOK, MaxAge
<1>4. /\ Carries(q)'
      /\ Holding(q)' => Holding(q)
      /\ Rotating(q)' => Rotating(q)
  <2>1. pc[q] # "idle" => rec'[tok[q]] = rec[tok[q]] /\ rt'[tok[q]] <= rt[tok[q]]
      BY <1>0, Zenon DEF Frame, Carries
  <2>2. minted[q] # NoHash => rec'[minted[q]] = rec[minted[q]] /\ succ'[tok[q]] = succ[tok[q]]
      BY <1>0, Zenon DEF Frame, Carries
  <2>3. pc[q] = "rotate" => WithinLifetime(seed[q])'
      BY <1>0, <1>3, CapAssumption DEF Carries, Same, NoOlder, WithinLifetime, Record
  <2>4. pc[q] = "recover" => WithinLifetime(rec[tok[q]])'
      BY <1>0, <1>2, <1>3, <2>1, CapAssumption DEF Carries, Same, NoOlder, WithinLifetime, Record
  <2> QED
      BY <1>0, <1>1, <2>1, <2>2, <2>3, <2>4 DEF Same, Carries, Holding, Rotating
<1>5. Probes(q)'
    BY <1>0, Zenon DEF Same, Probes, Carries, Frame, Lineage, Holder
<1>6. Spent(q)'
    BY <1>0, <1>1, <1>4, Zenon DEF Same, Spent, Carries, Frame
<1> QED
    BY <1>4, <1>5, <1>6, Zenon DEF Sound

\* What the request that moves may acquire: the pointer if it was there to
\* spend, the rotation if the token had not been rotated.
Acquires(r) ==
    /\ Holding(r)' => tok'[r] = tok[r] /\ (Holding(r) \/ rp[tok[r]] > 0)
    /\ Rotating(r)' => tok'[r] = tok[r] /\ (Rotating(r) \/ succ[tok[r]] \notin Hash)

\* A step of one request.
LEMMA RequestStep ==
    ASSUME RInv, [Next]_vars, NEW r \in Req, \A q \in Req : q # r => Same(q),
           UNCHANGED age, RefreshTypeOK', Sound(r)', Acquires(r), Sessions'
    PROVE  RInv'
<1>1. IInv' /\ Owned' /\ Frame
    BY NextInv, OwnedNext, StoreFrame, Zenon DEF RInv
<1>2. \A f \in Family : age[f] \in Nat
    BY TtlAssumption, CapAssumption DEF RInv, RefreshTypeOK, AccountTypeOK, MaxAge
<1>3. \A q \in Req : q # r => Sound(q)' /\ (Holding(q)' => Holding(q)) /\ (Rotating(q)' => Rotating(q))
    BY <1>1, <1>2, SameSound DEF NoOlder
<1>4. ASSUME NEW p \in Req, NEW q \in Req, p # q PROVE Exclusive(p, q)'
  <2>1. CASE p # r /\ q # r
      BY <1>3, <1>4, <2>1, Zenon DEF RInv, Exclusive, Same
  <2>2. ASSUME NEW o \in Req, o # r, tok'[o] = tok'[r]
        PROVE  ~(Holding(o)' /\ Holding(r)') /\ ~(Rotating(o)' /\ Rotating(r)')
    <3>1. Exclusive(o, r) /\ Carries(o) /\ Spent(o) /\ tok'[o] = tok[o]
        BY <2>2, Zenon DEF RInv, Sound, Same
    <3>2. (Holding(o)' => Holding(o)) /\ (Rotating(o)' => Rotating(o))
        BY <1>3, <2>2, Zenon
    <3> QED
        BY <2>2, <3>1, <3>2 DEF Exclusive, Acquires, Spent, Rotating, Carries
  <2> QED
      BY <1>4, <2>1, <2>2 DEF Exclusive
<1> QED
    BY <1>1, <1>3, <1>4, Zenon DEF RInv

\* A step of something else.
LEMMA OtherStep ==
    ASSUME RInv, [Next]_vars, UNCHANGED local, \A q \in Req : NoOlder(q),
           RefreshTypeOK', Sessions'
    PROVE  RInv'
<1>1. IInv' /\ Owned' /\ Frame
    BY NextInv, OwnedNext, StoreFrame, Zenon DEF RInv
<1>2. \A q \in Req : Same(q)
    BY Zenon DEF local, Same
<1>3. \A q \in Req : Sound(q)' /\ (Holding(q)' => Holding(q)) /\ (Rotating(q)' => Rotating(q))
    BY <1>1, <1>2, SameSound, Zenon
<1>4. \A p, q \in Req : p # q => Exclusive(p, q)'
    BY <1>2, <1>3, Zenon DEF RInv, Exclusive, Same
<1> QED
    BY <1>1, <1>3, <1>4, Zenon DEF RInv

\* Sessions that only end owe nothing more.
LEMMA SessionsShrink ==
    ASSUME RInv, [Next]_vars, RefreshTypeOK', UNCHANGED <<rec, age, sweeps, history>>
    PROVE  Sessions'
<1>1. \A h \in Hash : rt[h] \in Nat /\ rt'[h] \in Nat /\ rec[h] \in Record \cup {NoRecord}
    BY TtlAssumption DEF RInv, RefreshTypeOK, TypeOK, Ttl
<1>2. \A h \in Hash : rt'[h] <= rt[h] \/ rt'[h] = 0
  <2>1. Frame /\ Recorded'
      BY StoreFrame, NextInv, Zenon DEF RInv, IInv
  <2> QED
      BY <1>1, <2>1 DEF Frame, Recorded
<1>3. \A f \in Family : age[f] \in Nat
    BY TtlAssumption, CapAssumption DEF RInv, RefreshTypeOK, AccountTypeOK, MaxAge
<1>4. LineageEnds'
  <2>1. SUFFICES ASSUME AbsoluteCap > 0, NEW h \in Hash, rt'[h] > 0, rec[h].family # NoFamily
                 PROVE  age[rec[h].family] + rt'[h] <= AbsoluteCap + RefreshTtl
      BY Zenon DEF LineageEnds
  <2>2. rt[h] > 0 /\ rt'[h] <= rt[h]
      BY <1>1, <1>2, <2>1
  <2>3. rec[h].family \in Family
      BY <1>1, <2>1, <2>2, NextInv, Zenon DEF RInv, IInv, Recorded, Record
  <2>4. age[rec[h].family] + rt[h] <= AbsoluteCap + RefreshTtl
      BY <2>1, <2>2, Zenon DEF RInv, Sessions, LineageEnds
  <2> QED
      BY <1>1, <1>3, <2>2, <2>3, <2>4, TtlAssumption, CapAssumption
<1>5. RotatedSessionsPostdateSweep'
    BY <1>1, <1>2 DEF RInv, Sessions, RotatedSessionsPostdateSweep, history
<1> QED
    BY <1>4, <1>5, Zenon DEF Sessions

-----------------------------------------------------------------------------
(* One lemma per action.                                                   *)

\* A request that has begun has a record behind its token.
LEMMA Known ==
    ASSUME RInv, NEW r \in Req, pc[r] # "idle"
    PROVE  /\ tok[r] \in Hash /\ rec[tok[r]] \in Record
           /\ Holder(r) \in Subject /\ Lineage(r) \in Family \cup {NoFamily}
           /\ pc[r] \in {"members", "probe"} => Lineage(r) \in Family
    BY DEF RInv, Sound, Carries, Probes, RefreshTypeOK, RequestTypeOK, TypeOK, Record, Holder, Lineage

\* find_session and the cap.
LEMMA BeginKeeps ==
    ASSUME RInv, NEW r \in Req, NEW h \in Hash, Begin(r, h)
    PROVE  RInv'
<1>0. [Next]_vars
    BY StepRefines, Zenon DEF RefreshNext, ReqNext
<1>1. UNCHANGED age /\ \A q \in Req : q # r => Same(q)
  <2>1. \E x, y : seed' = [seed EXCEPT ![r] = x] /\ pc' = [pc EXCEPT ![r] = y]
      BY Zenon DEF Begin, Goto
  <2> QED
      BY <2>1, Zenon DEF RInv, RefreshTypeOK, RequestTypeOK, Begin, Same
<1>2. RefreshTypeOK'
    BY <1>0, StoreTypeKept, AccountTypesKept, StoreTypes, Zenon DEF RInv, RefreshTypeOK, RequestTypeOK, Begin, At, Goto, PC
<1>3. Sound(r)'
  <2>1. minted[r] = NoHash /\ owner[r] = NoSubject /\ probe[r] = {} /\ UNCHANGED vars
      BY Zenon DEF RInv, Sound, Carries, Probes, Begin, At
  <2>2. rt[h] \in Nat
      BY StoreTypes, Zenon
  <2> QED
      BY <2>1, <2>2 DEF RInv, RefreshTypeOK, RequestTypeOK, Sound, Carries, Probes, Spent, Holding, WithinLifetime,
                  vars, Begin, At, Goto
<1>4. Acquires(r)
    BY Zenon DEF RInv, RefreshTypeOK, RequestTypeOK, Sound, Carries, Acquires, Holding, Rotating, Begin, At, Goto
<1>5. Sessions'
    BY <1>0, <1>2, SessionsShrink, Zenon DEF vars, account, Begin
<1> QED
    BY <1>0, <1>1, <1>2, <1>3, <1>4, <1>5, RequestStep, Zenon

\* family_is_alive and the cap again.
LEMMA CheckRecoveredKeeps ==
    ASSUME RInv, NEW r \in Req, CheckRecovered(r)
    PROVE  RInv'
<1>0. [Next]_vars
    BY StepRefines, Zenon DEF RefreshNext, ReqNext
<1>1. UNCHANGED age /\ \A q \in Req : q # r => Same(q)
    BY Zenon DEF RInv, RefreshTypeOK, RequestTypeOK, CheckRecovered, Goto, Same
<1>2. RefreshTypeOK'
    BY <1>0, StoreTypeKept, AccountTypesKept, Zenon DEF RInv, RefreshTypeOK, RequestTypeOK, CheckRecovered, At, Goto, PC
<1>3. Sound(r)'
    BY Zenon DEF RInv, RefreshTypeOK, RequestTypeOK, Sound, Carries, Probes, Spent, Holding, Lineage, Holder,
           WithinLifetime, vars, CheckRecovered, At, Goto, Recoverable
<1>4. Acquires(r)
    BY Zenon DEF RInv, RefreshTypeOK, RequestTypeOK, Acquires, Holding, Rotating, vars, CheckRecovered, At, Goto
<1>5. Sessions'
    BY <1>0, <1>2, SessionsShrink, Zenon DEF vars, account, CheckRecovered
<1> QED
    BY <1>0, <1>1, <1>2, <1>3, <1>4, <1>5, RequestStep, Zenon

\* A recovery that recover_grace.lua refuses.
LEMMA RecoverRefusedKeeps ==
    ASSUME RInv, NEW r \in Req, RecoverRefused(r)
    PROVE  RInv'
<1>0. [Next]_vars
    BY StepRefines, Zenon DEF RefreshNext, ReqNext
<1>1. UNCHANGED age /\ \A q \in Req : q # r => Same(q)
    BY Zenon DEF RInv, RefreshTypeOK, RequestTypeOK, RecoverRefused, Goto, Same
<1>2. RefreshTypeOK'
  <2>1. pc' \in [Req -> PC]
      BY Zenon DEF RInv, RefreshTypeOK, RequestTypeOK, RecoverRefused, Goto, PC
  <2> QED
      BY <1>0, <2>1, StoreTypeKept, AccountTypesKept, Zenon
      DEF RInv, RefreshTypeOK, RequestTypeOK, RecoverRefused
<1>3. Sound(r)'
    BY Zenon DEF RInv, RefreshTypeOK, RequestTypeOK, Sound, Carries, Probes, Spent, Holding, Lineage, Holder,
           WithinLifetime, vars, RecoverRefused, At, Goto
<1>4. Acquires(r)
    BY Zenon DEF RInv, RefreshTypeOK, RequestTypeOK, Acquires, Holding, Rotating, vars, RecoverRefused, At, Goto
<1>5. Sessions'
    BY <1>0, <1>2, SessionsShrink, Zenon DEF vars, account, RecoverRefused
<1> QED
    BY <1>0, <1>1, <1>2, <1>3, <1>4, <1>5, RequestStep, Zenon

\* The epoch is read and the token signed.
LEMMA SignKeeps ==
    ASSUME RInv, NEW r \in Req, Sign(r)
    PROVE  RInv'
<1>0. [Next]_vars
    BY StepRefines, Zenon DEF RefreshNext, ReqNext
<1>1. UNCHANGED age /\ \A q \in Req : q # r => Same(q)
    BY Zenon DEF RInv, RefreshTypeOK, RequestTypeOK, Sign, Goto, Same
<1>2. RefreshTypeOK'
  <2>1. Holder(r) \in Subject /\ (pc[r] = "members" => Lineage(r) \in Family) /\ UNCHANGED vars
      BY Known, Zenon DEF Sign, At
  <2> QED
      BY <1>0, <2>1, StoreTypeKept, Zenon DEF RInv, RefreshTypeOK, RequestTypeOK, AccountTypeOK, account, history, Sign, At, Goto, PC
<1>3. Sound(r)'
    BY Zenon DEF RInv, RefreshTypeOK, RequestTypeOK, Sound, Carries, Probes, Spent, Holding, Lineage, Holder,
           WithinLifetime, vars, Sign, At, Goto
<1>4. Acquires(r)
    BY Zenon DEF RInv, RefreshTypeOK, RequestTypeOK, Acquires, Holding, Rotating, vars, Sign, At, Goto
<1>5. Sessions'
    BY <1>0, <1>2, SessionsShrink, Zenon DEF vars, account, Sign
<1> QED
    BY <1>0, <1>1, <1>2, <1>3, <1>4, <1>5, RequestStep, Zenon

\* find_family_owner reads the members.
LEMMA ListMembersKeeps ==
    ASSUME RInv, NEW r \in Req, ListMembers(r)
    PROVE  RInv'
<1>0. [Next]_vars
    BY StepRefines, Zenon DEF RefreshNext, ReqNext
<1>1. UNCHANGED age /\ \A q \in Req : q # r => Same(q)
  <2>1. \E x, y : probe' = [probe EXCEPT ![r] = x] /\ pc' = [pc EXCEPT ![r] = y]
      BY Zenon DEF ListMembers, Goto
  <2> QED
      BY <2>1, Zenon DEF RInv, RefreshTypeOK, RequestTypeOK, ListMembers, Same
<1>2. RefreshTypeOK'
  <2>1. Holder(r) \in Subject /\ (pc[r] = "members" => Lineage(r) \in Family) /\ UNCHANGED vars
      BY Known, Zenon DEF ListMembers, At
  <2>2. pc[r] = "members" => fam[Lineage(r)] \in SUBSET Hash
      BY <2>1, Zenon DEF RInv, RefreshTypeOK, TypeOK
  <2> QED
      BY <1>0, <2>1, <2>2, StoreTypeKept, AccountTypesKept, Zenon DEF RInv, RefreshTypeOK, RequestTypeOK, ListMembers, At, Goto, PC
<1>3. Sound(r)'
  <2>1. Lineage(r) \in Family /\ \A m \in fam[Lineage(r)] : rec[m] # NoRecord /\ rec[m].family = Lineage(r)
      BY Zenon DEF RInv, Sound, Probes, Owned, FamilyMembersOwn, ListMembers, At
  <2> QED
      BY <2>1, Zenon DEF RInv, RefreshTypeOK, RequestTypeOK, Sound, Carries, Probes, Spent, Holding, Lineage, Holder,
                  vars, ListMembers, At, Goto
<1>4. Acquires(r)
    BY Zenon DEF RInv, RefreshTypeOK, RequestTypeOK, Acquires, Holding, Rotating, vars, ListMembers, At, Goto
<1>5. Sessions'
    BY <1>0, <1>2, SessionsShrink, Zenon DEF vars, account, ListMembers
<1> QED
    BY <1>0, <1>1, <1>2, <1>3, <1>4, <1>5, RequestStep, Zenon

\* One GET of its loop.
LEMMA ProbeMemberKeeps ==
    ASSUME RInv, NEW r \in Req, NEW m \in Hash, ProbeMember(r, m)
    PROVE  RInv'
<1>0. [Next]_vars
    BY StepRefines, Zenon DEF RefreshNext, ReqNext
<1>1. UNCHANGED age /\ \A q \in Req : q # r => Same(q)
    BY Zenon DEF RInv, RefreshTypeOK, RequestTypeOK, ProbeMember, Goto, Same
<1>2. RefreshTypeOK'
  <2>1. m \in probe[r] /\ rec[m] \in Record
      BY Zenon DEF RInv, Sound, Probes, RefreshTypeOK, RequestTypeOK, TypeOK, ProbeMember
  <2>2. rec[m].subject \in Subject /\ UNCHANGED vars
      BY <2>1, Zenon DEF Record, ProbeMember
  <2> QED
      BY <1>0, <2>2, StoreTypeKept, AccountTypesKept, Zenon DEF RInv, RefreshTypeOK, RequestTypeOK, ProbeMember
<1>3. Sound(r)'
  <2>1. /\ pc[r] = "probe" /\ rec[tok[r]] # NoRecord /\ Lineage(r) \in Family
        /\ rec[m] # NoRecord /\ rec[m].family = Lineage(r)
      BY Zenon DEF RInv, Sound, Carries, Probes, ProbeMember, At
  <2>2. rec[m].subject = Holder(r)
    <3>1. tok[r] \in Hash /\ Lineage(r) # NoFamily
        BY <2>1, SentinelAssumption, Zenon DEF RInv, Sound, Carries
    <3> QED
        BY <2>1, <3>1, Zenon DEF RInv, Owned, FamilyHasOneOwner, Lineage, Holder
  <2>3. Sound(r) /\ UNCHANGED vars
      BY Zenon DEF RInv, ProbeMember
  <2> QED
      BY <2>1, <2>2, <2>3, Zenon DEF RInv, RefreshTypeOK, RequestTypeOK, Sound, Carries, Probes, Spent, Holding, Lineage, Holder,
                  WithinLifetime, vars, ProbeMember
<1>4. Acquires(r)
    BY Zenon DEF RInv, RefreshTypeOK, RequestTypeOK, Acquires, Holding, Rotating, vars, ProbeMember, At, Goto
<1>5. Sessions'
    BY <1>0, <1>2, SessionsShrink, Zenon DEF vars, account, ProbeMember
<1> QED
    BY <1>0, <1>1, <1>2, <1>3, <1>4, <1>5, RequestStep, Zenon

\* The minted token is verified.
LEMMA VerifyKeeps ==
    ASSUME RInv, NEW r \in Req, Verify(r)
    PROVE  RInv'
<1>0. [Next]_vars
    BY StepRefines, Zenon DEF RefreshNext, ReqNext
<1>1. UNCHANGED age /\ \A q \in Req : q # r => Same(q)
    BY Zenon DEF RInv, RefreshTypeOK, RequestTypeOK, Verify, Goto, Same
<1>2. RefreshTypeOK'
    BY <1>0, StoreTypeKept, AccountTypesKept, Zenon DEF RInv, RefreshTypeOK, RequestTypeOK, Verify, At, Goto, PC
<1>3. Sound(r)'
    BY Zenon DEF RInv, RefreshTypeOK, RequestTypeOK, Sound, Carries, Probes, Spent, Holding, Lineage, Holder,
           WithinLifetime, vars, Verify, At, Goto
<1>4. Acquires(r)
    BY Zenon DEF RInv, RefreshTypeOK, RequestTypeOK, Acquires, Holding, Rotating, vars, Verify, At, Goto
<1>5. Sessions'
    BY <1>0, <1>2, SessionsShrink, Zenon DEF vars, account, Verify
<1> QED
    BY <1>0, <1>1, <1>2, <1>3, <1>4, <1>5, RequestStep, Zenon

\* The account is read again.
LEMMA GateKeeps ==
    ASSUME RInv, NEW r \in Req, NEW status \in {"active", "blocked", "unverified"}, Gate(r, status)
    PROVE  RInv'
<1>0. [Next]_vars
    BY StepRefines, Zenon DEF RefreshNext, ReqNext
<1>1. UNCHANGED age /\ \A q \in Req : q # r => Same(q)
    BY Zenon DEF RInv, RefreshTypeOK, RequestTypeOK, Gate, Goto, Same
<1>2. RefreshTypeOK'
    BY <1>0, StoreTypeKept, AccountTypesKept, Zenon DEF RInv, RefreshTypeOK, RequestTypeOK, Gate, At, Goto, PC
<1>3. Sound(r)'
    BY Zenon DEF RInv, RefreshTypeOK, RequestTypeOK, Sound, Carries, Probes, Spent, Holding, Lineage, Holder,
           WithinLifetime, vars, Gate, At, Goto
<1>4. Acquires(r)
    BY Zenon DEF RInv, RefreshTypeOK, RequestTypeOK, Acquires, Holding, Rotating, vars, Gate, At, Goto
<1>5. Sessions'
    BY <1>0, <1>2, SessionsShrink, Zenon DEF vars, account, Gate
<1> QED
    BY <1>0, <1>1, <1>2, <1>3, <1>4, <1>5, RequestStep, Zenon

\* The token is signed again.
LEMMA GateRestampsKeeps ==
    ASSUME RInv, NEW r \in Req, GateRestamps(r)
    PROVE  RInv'
<1>0. [Next]_vars
    BY StepRefines, Zenon DEF RefreshNext, ReqNext
<1>1. UNCHANGED age /\ \A q \in Req : q # r => Same(q)
    BY Zenon DEF RInv, RefreshTypeOK, RequestTypeOK, GateRestamps, Goto, Same
<1>2. RefreshTypeOK'
  <2>1. Holder(r) \in Subject /\ (pc[r] = "members" => Lineage(r) \in Family) /\ UNCHANGED vars
      BY Known, Zenon DEF GateRestamps, At
  <2> QED
      BY <1>0, <2>1, StoreTypeKept, Zenon DEF RInv, RefreshTypeOK, RequestTypeOK, AccountTypeOK, account, history, GateRestamps, At, Goto, PC
<1>3. Sound(r)'
    BY Zenon DEF RInv, RefreshTypeOK, RequestTypeOK, Sound, Carries, Probes, Spent, Holding, Lineage, Holder,
           WithinLifetime, vars, GateRestamps, At, Goto
<1>4. Acquires(r)
    BY Zenon DEF RInv, RefreshTypeOK, RequestTypeOK, Acquires, Holding, Rotating, vars, GateRestamps, At, Goto
<1>5. Sessions'
    BY <1>0, <1>2, SessionsShrink, Zenon DEF vars, account, GateRestamps
<1> QED
    BY <1>0, <1>1, <1>2, <1>3, <1>4, <1>5, RequestStep, Zenon

\* The bump of a compensation.
LEMMA CompensateBumpKeeps ==
    ASSUME RInv, NEW r \in Req, CompensateBump(r)
    PROVE  RInv'
<1>0. [Next]_vars
    BY StepRefines, Zenon DEF RefreshNext, ReqNext
<1>1. UNCHANGED age /\ \A q \in Req : q # r => Same(q)
    BY Zenon DEF RInv, RefreshTypeOK, RequestTypeOK, CompensateBump, Goto, Same
<1>2. RefreshTypeOK'
  <2>1. Holder(r) \in Subject /\ (pc[r] = "members" => Lineage(r) \in Family) /\ UNCHANGED vars
      BY Known, Zenon DEF CompensateBump, At
  <2> QED
      BY <1>0, <2>1, StoreTypeKept DEF RInv, RefreshTypeOK, RequestTypeOK, AccountTypeOK, account, history, CompensateBump, At, Goto, PC, Bump
<1>3. Sound(r)'
    BY Zenon DEF RInv, RefreshTypeOK, RequestTypeOK, Sound, Carries, Probes, Spent, Holding, Lineage, Holder,
           WithinLifetime, vars, CompensateBump, At, Goto, Bump
<1>4. Acquires(r)
    BY Zenon DEF RInv, RefreshTypeOK, RequestTypeOK, Acquires, Holding, Rotating, vars, CompensateBump, At, Goto, Bump
<1>5. Sessions'
    BY <1>0, <1>2, SessionsShrink, Zenon DEF vars, account, CompensateBump
<1> QED
    BY <1>0, <1>1, <1>2, <1>3, <1>4, <1>5, RequestStep, Zenon

\* A request that ends between two calls.
LEMMA FailKeeps ==
    ASSUME RInv, NEW r \in Req, Fail(r)
    PROVE  RInv'
<1>0. [Next]_vars
    BY StepRefines, Zenon DEF RefreshNext, ReqNext
<1>1. UNCHANGED age /\ \A q \in Req : q # r => Same(q)
    BY Zenon DEF RInv, RefreshTypeOK, RequestTypeOK, Fail, Goto, Same
<1>2. RefreshTypeOK'
    BY <1>0, StoreTypeKept, AccountTypesKept, Zenon DEF RInv, RefreshTypeOK, RequestTypeOK, Fail, At, Goto, PC, InFlight
<1>3. Sound(r)'
    BY Zenon DEF RInv, RefreshTypeOK, RequestTypeOK, Sound, Carries, Probes, Spent, Holding, Lineage, Holder,
           WithinLifetime, vars, Fail, At, Goto, InFlight
<1>4. Acquires(r)
    BY Zenon DEF RInv, RefreshTypeOK, RequestTypeOK, Acquires, Holding, Rotating, vars, Fail, At, Goto, InFlight
<1>5. Sessions'
    BY <1>0, <1>2, SessionsShrink, Zenon DEF vars, account, Fail
<1> QED
    BY <1>0, <1>1, <1>2, <1>3, <1>4, <1>5, RequestStep, Zenon

\* Nothing has happened yet.
LEMMA RInvInit == RefreshInit => RInv
<1> SUFFICES ASSUME RefreshInit PROVE RInv
    BY Zenon
<1>1. IInv /\ Owned
    BY InitInv, OwnedInit, Zenon DEF RefreshInit
<1>2. RefreshTypeOK
  <2>1. RequestTypeOK
      BY Zenon DEF RequestTypeOK, RefreshInit, PC
  <2>2. AccountTypeOK
      BY TtlAssumption, CapAssumption DEF AccountTypeOK, RefreshInit, MaxAge
  <2> QED
      BY <1>1, <2>1, <2>2, Zenon DEF IInv, RefreshTypeOK
<1>3. \A r \in Req : Sound(r)
    BY Zenon DEF RefreshInit, Sound, Carries, Probes, Spent, Holding
<1>4. \A q, r \in Req : q # r => Exclusive(q, r)
    BY Zenon DEF RefreshInit, Exclusive, Holding, Rotating
<1>5. Sessions
    BY DEF RefreshInit, Init, Sessions, LineageEnds, RotatedSessionsPostdateSweep
<1> QED
    BY <1>1, <1>2, <1>3, <1>4, <1>5, Zenon DEF RInv

-----------------------------------------------------------------------------
(* The steps of a request that write the store.                            *)

\* The live branch of refresh_rotate.lua.
LEMMA RotatedKeeps ==
    ASSUME RInv, NEW r \in Req, NEW n \in Hash, Rotated(r, n)
    PROVE  RInv'
<1>0. [Next]_vars
    BY StepRefines, Zenon DEF RefreshNext, ReqNext
<1>1. UNCHANGED age /\ \A q \in Req : q # r => Same(q)
    BY Zenon DEF RInv, RefreshTypeOK, RequestTypeOK, Rotated, Goto, Same
<1>2. RefreshTypeOK'
  <2>1. TypeOK'
      BY <1>0, StoreTypeKept, Zenon
  <2>2. tok[r] \in Hash
      BY Known, Zenon DEF Rotated, At
  <2>3. RequestTypeOK'
      BY <2>2, Zenon DEF RInv, RefreshTypeOK, RequestTypeOK, Rotated, Goto, PC
  <2>4. AccountTypeOK'
      BY <2>2, Zenon DEF RInv, RefreshTypeOK, AccountTypeOK, account, Rotated, Inherit
  <2> QED
      BY <2>1, <2>3, <2>4, Zenon DEF RefreshTypeOK
<1>a. /\ tok[r] \in Hash /\ rec[tok[r]] \in Record /\ rec[n] = NoRecord
      /\ rt[tok[r]] > 0 /\ seed[r] = rec[tok[r]] /\ WithinLifetime(rec[tok[r]])
      /\ owner[r] \in {NoSubject, Holder(r)} /\ minted[r] = NoHash
      /\ succ[tok[r]] \notin Hash /\ n # tok[r]
  <2>1. pc[r] = "rotate" /\ rt[tok[r]] > 0 /\ rec[n] = NoRecord
      BY Zenon DEF Rotated, At, RotateLive, Fresh
  <2>2. tok[r] \in Hash /\ rec[tok[r]] \in Record /\ rec[tok[r]] # NoRecord
      BY <2>1, Known, SentinelAssumption, Zenon
  <2>3. seed[r] = rec[tok[r]] /\ WithinLifetime(seed[r]) /\ minted[r] = NoHash
        /\ owner[r] \in {NoSubject, Holder(r)}
      BY <2>1, Zenon DEF RInv, Sound, Carries, Probes
  <2>4. succ[tok[r]] \notin Hash
      BY <2>1, <2>2, TtlAssumption DEF RInv, IInv, Consumed, TypeOK, Ttl
  <2> QED
      BY <2>1, <2>2, <2>3, <2>4, Zenon
<1>b. /\ rec' = [rec EXCEPT ![n] = rec[tok[r]]]
      /\ rt' = [rt EXCEPT ![tok[r]] = 0, ![n] = RefreshTtl]
      /\ succ' = [succ EXCEPT ![tok[r]] = n]
    BY Zenon DEF Rotated, RotateLive
<1>c. /\ pc'[r] = "move" /\ minted'[r] = n /\ tok'[r] = tok[r]
      /\ owner'[r] = owner[r] /\ probe'[r] = probe[r]
    BY Zenon DEF RInv, RefreshTypeOK, RequestTypeOK, Rotated, Goto
<1>3. Sound(r)'
  <2>1. rec'[tok[r]] = rec[tok[r]] /\ rec'[n] = rec[tok[r]] /\ succ'[tok[r]] = n
      BY <1>a, <1>b, Zenon DEF RInv, RefreshTypeOK, TypeOK
  <2>2. Carries(r)'
      BY <1>a, <1>c, <2>1, SentinelAssumption, Zenon DEF Carries
  <2>3. Probes(r)'
    <3>1. \A m \in probe[r] : m \in Hash /\ rec[m] # NoRecord /\ rec[m].family = Lineage(r)
        BY Zenon DEF RInv, RefreshTypeOK, RequestTypeOK, Sound, Probes
    <3>2. \A m \in probe[r] : rec'[m] = rec[m]
        BY <1>a, <1>b, <3>1, Zenon DEF RInv, RefreshTypeOK, TypeOK
    <3> QED
        BY <1>a, <1>c, <2>1, <3>1, <3>2, Zenon DEF Probes, Lineage, Holder
  <2>4. Spent(r)'
      BY <1>c, <2>1, Zenon DEF Spent, Holding
  <2> QED
      BY <2>2, <2>3, <2>4, Zenon DEF Sound
<1>4. Acquires(r)
    BY <1>a, <1>b, <1>c, Zenon DEF RInv, RefreshTypeOK, RequestTypeOK, TypeOK, Acquires, Holding, Rotating
<1>5. Sessions'
  <2>1. /\ \A h \in Hash : rt'[h] > 0 => h = n \/ (h # n /\ rt'[h] = rt[h] /\ rec'[h] = rec[h])
        /\ rt'[n] = RefreshTtl /\ rec'[n] = rec[tok[r]]
        /\ rt[tok[r]] > 0 /\ rec[tok[r]] # NoRecord
      BY <1>a, <1>b, SentinelAssumption, TtlAssumption DEF RInv, RefreshTypeOK, TypeOK
  <2>2. LineageEnds'
    <3>1. rec[tok[r]].family # NoFamily /\ AbsoluteCap > 0
            => rec[tok[r]].family \in Family /\ age[rec[tok[r]].family] <= AbsoluteCap
        BY <1>a, SentinelAssumption, CapAssumption DEF WithinLifetime, Record
    <3>2. \A f \in Family : age[f] \in Nat
        BY TtlAssumption, CapAssumption DEF RInv, RefreshTypeOK, AccountTypeOK, MaxAge
    <3> QED
        BY <1>1, <2>1, <3>1, <3>2, TtlAssumption, CapAssumption DEF RInv, Sessions, LineageEnds
  <2>3. RotatedSessionsPostdateSweep'
    <3>1. /\ gen' = [gen EXCEPT ![n] = gen[tok[r]]] /\ UNCHANGED sweeps
          /\ tok[r] \in viaGrace => n \in viaGrace'
          /\ viaGrace \subseteq viaGrace'
        BY Zenon DEF Rotated, Inherit, account
    <3> QED
        BY <1>a, <2>1, <3>1 DEF RInv, RefreshTypeOK, AccountTypeOK, Sessions, RotatedSessionsPostdateSweep
  <2> QED
      BY <2>2, <2>3, Zenon DEF Sessions
<1> QED
    BY <1>0, <1>1, <1>2, <1>3, <1>4, <1>5, RequestStep, Zenon

\* The detail follows the session.
LEMMA MoveKeeps ==
    ASSUME RInv, NEW r \in Req, Move(r)
    PROVE  RInv'
<1>0. [Next]_vars
    BY StepRefines, Zenon DEF RefreshNext, ReqNext
<1>1. UNCHANGED age /\ \A q \in Req : q # r => Same(q)
    BY Zenon DEF RInv, RefreshTypeOK, RequestTypeOK, Move, Goto, Same
<1>2. RefreshTypeOK'
  <2>1. TypeOK'
      BY <1>0, StoreTypeKept, Zenon
  <2> QED
      BY <2>1, AccountTypesKept, Zenon DEF RInv, RefreshTypeOK, RequestTypeOK, Move, At, Goto, PC
<1>a. UNCHANGED <<rec, rt, rp, succ, tok, seed, minted, probe, owner>> /\ pc' = [pc EXCEPT ![r] = "sign"]
    BY Zenon DEF Move, MoveDetail, Goto
<1>3. Sound(r)'
    BY <1>a DEF RInv, RefreshTypeOK, RequestTypeOK, Sound, Carries, Probes, Spent, Holding, Lineage, Holder, Move, At
<1>4. Acquires(r)
    BY <1>a, Zenon DEF RInv, RefreshTypeOK, RequestTypeOK, Acquires, Holding, Rotating, Move, At
<1>5. Sessions'
    BY <1>0, <1>2, SessionsShrink, Zenon DEF Move, MoveDetail, account
<1> QED
    BY <1>0, <1>1, <1>2, <1>3, <1>4, <1>5, RequestStep, Zenon

\* The three answers of the script for a token that is not live.
LEMMA AnsweredKeeps ==
    ASSUME RInv, NEW r \in Req, Answered(r)
    PROVE  RInv'
<1>0. [Next]_vars
    BY StepRefines, Zenon DEF RefreshNext, ReqNext
<1>1. UNCHANGED age /\ \A q \in Req : q # r => Same(q)
    BY Zenon DEF RInv, RefreshTypeOK, RequestTypeOK, Answered, Goto, Same
<1>2. RefreshTypeOK'
  <2>1. TypeOK'
      BY <1>0, StoreTypeKept, Zenon
  <2> QED
      BY <2>1, AccountTypesKept, Zenon DEF RInv, RefreshTypeOK, RequestTypeOK, Answered, At, Goto, PC
<1>a. /\ UNCHANGED <<rec, rt, succ, tok, seed, minted, probe, owner>>
      /\ pc[r] = "rotate" /\ tok[r] \in Hash /\ rec[tok[r]] # NoRecord /\ rp[tok[r]] \in Nat
      /\ rp'[tok[r]] = 0 /\ minted[r] = NoHash
  <2>1. pc[r] = "rotate" /\ tok[r] \in Hash /\ rec[tok[r]] # NoRecord /\ minted[r] = NoHash
      BY Zenon DEF RInv, Sound, Carries, Answered, At
  <2>2. UNCHANGED <<rec, rt, succ, tok, seed, minted, probe, owner>>
      BY Zenon DEF Answered, SpendIfHeld, SpendPointer, vars
  <2>3. rp[tok[r]] \in Nat /\ rp'[tok[r]] = 0
      BY <2>1, TtlAssumption DEF RInv, RefreshTypeOK, RequestTypeOK, TypeOK, Ttl, Answered, SpendIfHeld, SpendPointer, vars
  <2> QED
      BY <2>1, <2>2, <2>3, Zenon
<1>b. /\ pc'[r] = IF GraceHit(tok[r]) THEN "family" ELSE IF ReuseHit(tok[r]) THEN "members" ELSE "refused"
      /\ GraceHit(tok[r]) => rp[tok[r]] > 0 /\ succ[tok[r]] \in Hash
      /\ ReuseHit(tok[r]) => Lineage(r) \in Family
  <2>1. pc'[r] = IF GraceHit(tok[r]) THEN "family" ELSE IF ReuseHit(tok[r]) THEN "members" ELSE "refused"
      BY Zenon DEF RInv, RefreshTypeOK, RequestTypeOK, Answered, Goto
  <2>2. GraceHit(tok[r]) => rp[tok[r]] > 0 /\ succ[tok[r]] \in Hash
      BY <1>a, Zenon DEF RInv, IInv, GracePointerIndexed, GraceHit
  <2>3. ReuseHit(tok[r]) => Lineage(r) # NoFamily
      BY <1>a, Zenon DEF RInv, Owned, MarkersHaveFamily, ReuseHit, Lineage
  <2> QED
      BY <1>a, <2>1, <2>2, <2>3, Known, Zenon
<1>3. Sound(r)'
    BY <1>a, <1>b, Zenon DEF RInv, RefreshTypeOK, RequestTypeOK, Sound, Carries, Probes, Spent, Holding, Lineage, Holder
<1>4. Acquires(r)
    BY <1>a, <1>b, Zenon DEF Acquires, Holding, Rotating
<1>5. Sessions'
    BY <1>0, <1>1, <1>2, <1>a, SessionsShrink, Zenon DEF Answered, account
<1> QED
    BY <1>0, <1>1, <1>2, <1>3, <1>4, <1>5, RequestStep, Zenon

\* recover_grace.lua mints.
LEMMA RecoverKeeps ==
    ASSUME RInv, NEW r \in Req, NEW n \in Hash, Recover(r, n)
    PROVE  RInv'
<1>0. [Next]_vars
    BY StepRefines, Zenon DEF RefreshNext, ReqNext
<1>1. UNCHANGED age /\ \A q \in Req : q # r => Same(q)
    BY Zenon DEF RInv, RefreshTypeOK, RequestTypeOK, Recover, Goto, Same
<1>2. RefreshTypeOK'
  <2>1. TypeOK'
      BY <1>0, StoreTypeKept, Zenon
  <2>2. tok[r] \in Hash
      BY Known, Zenon DEF Recover, At
  <2>3. RequestTypeOK'
      BY <2>2, Zenon DEF RInv, RefreshTypeOK, RequestTypeOK, Recover, Goto, PC
  <2>4. AccountTypeOK'
      BY <2>2, Zenon DEF RInv, RefreshTypeOK, AccountTypeOK, account, Recover, Inherit
  <2> QED
      BY <2>1, <2>3, <2>4, Zenon DEF RefreshTypeOK
<1>a. /\ tok[r] \in Hash /\ rec[tok[r]] \in Record /\ rec[n] = NoRecord
      /\ WithinLifetime(rec[tok[r]]) /\ owner[r] \in {NoSubject, Holder(r)}
      /\ pc[r] = "recover" /\ minted[r] = NoHash /\ n # tok[r]
      /\ succ[tok[r]] \in Hash /\ rp[tok[r]] = 0 /\ n # succ[tok[r]]
  <2>1. pc[r] = "recover" /\ rec[n] = NoRecord
      BY Zenon DEF Recover, At, RecoverGrace, Fresh
  <2>2. tok[r] \in Hash /\ rec[tok[r]] \in Record /\ rec[tok[r]] # NoRecord
      BY <2>1, Known, SentinelAssumption, Zenon
  <2>3. WithinLifetime(rec[tok[r]]) /\ minted[r] = NoHash
        /\ owner[r] \in {NoSubject, Holder(r)} /\ succ[tok[r]] \in Hash /\ rp[tok[r]] = 0
      BY <2>1, Zenon DEF RInv, Sound, Carries, Probes, Spent, Holding
  <2>4. n # succ[tok[r]]
      BY <2>1, <2>2, <2>3, Zenon DEF RInv, IInv, Recorded
  <2> QED
      BY <2>1, <2>2, <2>3, <2>4, Zenon
<1>b. /\ rec' = [rec EXCEPT ![n] = rec[tok[r]]]
      /\ rt' = [rt EXCEPT ![n] = RefreshTtl]
      /\ UNCHANGED <<succ, rp>>
    BY Zenon DEF Recover, RecoverGrace
<1>c. /\ pc'[r] = "sign" /\ minted'[r] = n /\ tok'[r] = tok[r]
      /\ owner'[r] = owner[r] /\ probe'[r] = probe[r]
    BY Zenon DEF RInv, RefreshTypeOK, RequestTypeOK, Recover, Goto
<1>3. Sound(r)'
  <2>1. rec'[tok[r]] = rec[tok[r]] /\ rec'[n] = rec[tok[r]]
      BY <1>a, <1>b, Zenon DEF RInv, RefreshTypeOK, TypeOK
  <2>2. Carries(r)'
      BY <1>a, <1>b, <1>c, <2>1, SentinelAssumption, Zenon DEF Carries
  <2>3. Probes(r)'
    <3>1. \A m \in probe[r] : m \in Hash /\ rec[m] # NoRecord /\ rec[m].family = Lineage(r)
        BY Zenon DEF RInv, RefreshTypeOK, RequestTypeOK, Sound, Probes
    <3>2. \A m \in probe[r] : rec'[m] = rec[m]
        BY <1>a, <1>b, <3>1, Zenon DEF RInv, RefreshTypeOK, TypeOK
    <3> QED
        BY <1>a, <1>c, <2>1, <3>1, <3>2, Zenon DEF Probes, Lineage, Holder
  <2>4. Spent(r)'
      BY <1>a, <1>b, <1>c, Zenon DEF Spent
  <2> QED
      BY <2>2, <2>3, <2>4, Zenon DEF Sound
<1>4. Acquires(r)
    BY <1>a, <1>b, <1>c, Zenon DEF Acquires, Holding, Rotating
<1>5. Sessions'
  <2>1. /\ \A h \in Hash : rt'[h] > 0 => h = n \/ (h # n /\ rt'[h] = rt[h] /\ rec'[h] = rec[h])
        /\ rt'[n] = RefreshTtl /\ rec'[n] = rec[tok[r]]
      BY <1>a, <1>b, SentinelAssumption, TtlAssumption, Zenon DEF RInv, RefreshTypeOK, TypeOK
  <2>2. LineageEnds'
    <3>1. rec[tok[r]].family # NoFamily /\ AbsoluteCap > 0
            => rec[tok[r]].family \in Family /\ age[rec[tok[r]].family] <= AbsoluteCap
        BY <1>a, SentinelAssumption, CapAssumption DEF WithinLifetime, Record
    <3>2. \A f \in Family : age[f] \in Nat
        BY TtlAssumption, CapAssumption DEF RInv, RefreshTypeOK, AccountTypeOK, MaxAge
    <3>3. LineageEnds
        BY Zenon DEF RInv, Sessions
    <3> QED
        BY <1>1, <2>1, <3>1, <3>2, <3>3, TtlAssumption, CapAssumption DEF LineageEnds
  <2>3. RotatedSessionsPostdateSweep'
    <3>1. gen' = [gen EXCEPT ![n] = gen[tok[r]]] /\ UNCHANGED sweeps /\ viaGrace' = viaGrace \cup {n}
        BY Zenon DEF Recover, Inherit, account
    <3>2. gen \in [Hash -> Nat] /\ RotatedSessionsPostdateSweep
        BY Zenon DEF RInv, RefreshTypeOK, AccountTypeOK, Sessions
    <3> QED
        BY <1>a, <2>1, <3>1, <3>2, Zenon DEF RotatedSessionsPostdateSweep
  <2> QED
      BY <2>2, <2>3, Zenon DEF Sessions
<1> QED
    BY <1>0, <1>1, <1>2, <1>3, <1>4, <1>5, RequestStep, Zenon

\* revoke_family.
LEMMA LockoutKeeps ==
    ASSUME RInv, NEW r \in Req, Lockout(r)
    PROVE  RInv'
<1>0. [Next]_vars
    BY StepRefines, Zenon DEF RefreshNext, ReqNext
<1>1. UNCHANGED age /\ \A q \in Req : q # r => Same(q)
    BY Zenon DEF RInv, RefreshTypeOK, RequestTypeOK, Lockout, Goto, Same
<1>2. RefreshTypeOK'
  <2>1. TypeOK'
      BY <1>0, StoreTypeKept, Zenon
  <2> QED
      BY <2>1, AccountTypesKept, Zenon DEF RInv, RefreshTypeOK, RequestTypeOK, Lockout, At, Goto, PC
<1>a. /\ UNCHANGED <<rec, rp, succ, tok, seed, minted, probe, owner>>
      /\ pc' = [pc EXCEPT ![r] = "refused"] /\ pc[r] = "probe"
    BY Zenon DEF Lockout, RevokeFamily, Goto, At
<1>3. Sound(r)'
    BY <1>a, Zenon DEF RInv, RefreshTypeOK, RequestTypeOK, Sound, Carries, Probes, Spent, Holding, Lineage, Holder
<1>4. Acquires(r)
  <2>1. pc'[r] = "refused"
      BY <1>a, Zenon DEF RInv, RefreshTypeOK, RequestTypeOK
  <2> QED
      BY <1>a, <2>1, Zenon DEF Acquires, Holding, Rotating
<1>5. Sessions'
    BY <1>0, <1>2, <1>a, SessionsShrink, Zenon DEF Lockout, account
<1> QED
    BY <1>0, <1>1, <1>2, <1>3, <1>4, <1>5, RequestStep, Zenon

\* A sweep of an account leaves none of its sessions (SessionsAreIndexed).
LEMMA SweepSessions ==
    ASSUME RInv, NEW s \in Subject, Sweep(s), UNCHANGED <<age, history>>
    PROVE  Sessions'
<1>1. \A h \in Hash : rt'[h] > 0 => rt'[h] = rt[h] /\ rec[h].subject # s /\ rec[h] # NoRecord
    BY TtlAssumption DEF RInv, IInv, TypeOK, Ttl, LiveSessionIndexed, Recorded, Sweep, RevokeAll
<1>2. UNCHANGED <<rec, age, gen, viaGrace>> /\ sweeps' = [sweeps EXCEPT ![s] = @ + 1]
    BY Zenon DEF Sweep, RevokeAll, history
<1>3. LineageEnds'
    BY <1>1, <1>2, Zenon DEF RInv, Sessions, LineageEnds
<1>4. RotatedSessionsPostdateSweep'
  <2>1. \A h \in Hash : rec[h] # NoRecord => rec[h].subject \in Subject
      BY Zenon DEF RInv, RefreshTypeOK, RequestTypeOK, TypeOK, Record
  <2> QED
      BY <1>1, <1>2, <2>1, Zenon DEF RInv, RefreshTypeOK, AccountTypeOK, Sessions, RotatedSessionsPostdateSweep
<1> QED
    BY <1>3, <1>4, Zenon DEF Sessions

\* The sweep of a compensation.
LEMMA CompensateKeeps ==
    ASSUME RInv, NEW r \in Req, Compensate(r)
    PROVE  RInv'
<1>0. [Next]_vars
    BY StepRefines, Zenon DEF RefreshNext, ReqNext
<1>1. UNCHANGED age /\ \A q \in Req : q # r => Same(q)
    BY Zenon DEF RInv, RefreshTypeOK, RequestTypeOK, Compensate, Goto, Same
<1>2. RefreshTypeOK'
  <2>1. TypeOK'
      BY <1>0, StoreTypeKept, Zenon
  <2>2. Holder(r) \in Subject
      BY Known, Zenon DEF Compensate, At
  <2>3. RequestTypeOK'
      BY <2>2, Zenon DEF RInv, RefreshTypeOK, RequestTypeOK, Compensate, Goto, PC
  <2>4. AccountTypeOK'
      BY <2>2 DEF RInv, RefreshTypeOK, AccountTypeOK, history, Compensate, Sweep
  <2> QED
      BY <2>1, <2>3, <2>4, Zenon DEF RefreshTypeOK
<1>a. /\ UNCHANGED <<rec, succ, tok, seed, minted, probe, owner>>
      /\ pc' = [pc EXCEPT ![r] = "bump"] /\ pc[r] = "sweep"
    BY Zenon DEF Compensate, Sweep, RevokeAll, Goto, At
<1>b. \A h \in Hash : rp[h] = 0 => rp'[h] = 0
    BY Zenon DEF Compensate, Sweep, RevokeAll
<1>c. Sound(r) /\ pc'[r] = "bump" /\ tok[r] \in Hash
    BY <1>a, Known, Zenon DEF RInv, RefreshTypeOK, RequestTypeOK
<1>3. Sound(r)'
  <2>1. Carries(r)'
      BY <1>a, <1>c, Zenon DEF Sound, Carries
  <2>2. Probes(r)'
      BY <1>a, <1>c, Zenon DEF Sound, Probes, Lineage, Holder
  <2>3. Spent(r)'
      BY <1>a, <1>b, <1>c, Zenon DEF Sound, Spent, Holding
  <2> QED
      BY <2>1, <2>2, <2>3, Zenon DEF Sound
<1>4. Acquires(r)
    BY <1>a, <1>c, Zenon DEF Acquires, Holding, Rotating
<1>5. Sessions'
    BY Known, SweepSessions, Zenon DEF Compensate, At
<1> QED
    BY <1>0, <1>1, <1>2, <1>3, <1>4, <1>5, RequestStep, Zenon

-----------------------------------------------------------------------------
(* The other flows.                                                        *)

\* issue_tokens.
LEMMA LoginKeeps ==
    ASSUME RInv, NEW s \in Subject, NEW h \in Hash, NEW f \in Family \cup {NoFamily}, Login(s, h, f)
    PROVE  RInv'
<1>0. [Next]_vars
    BY StepRefines, Zenon DEF RefreshNext
<1>a. \A g \in Family : age[g] \in Nat
    BY TtlAssumption, CapAssumption DEF RInv, RefreshTypeOK, AccountTypeOK, MaxAge
<1>b. age' = IF f = NoFamily THEN age ELSE [age EXCEPT ![f] = 0]
    BY Zenon DEF Login
<1>c. \A g \in Family : age'[g] <= age[g] /\ age'[g] \in Nat /\ (g = f => age'[g] = 0)
  <2>1. age \in [Family -> 0..MaxAge]
      BY Zenon DEF RInv, RefreshTypeOK, AccountTypeOK
  <2> QED
      BY <1>a, <1>b, <2>1, SentinelAssumption
<1>1. UNCHANGED local /\ \A q \in Req : NoOlder(q)
    BY <1>c, Zenon DEF Login, NoOlder
<1>2. RefreshTypeOK'
  <2>1. TypeOK'
      BY <1>0, StoreTypeKept, Zenon
  <2>2. age' \in [Family -> 0..MaxAge]
      BY <1>b, TtlAssumption, CapAssumption DEF RInv, RefreshTypeOK, AccountTypeOK, MaxAge
  <2> QED
      BY <2>1, <2>2, RequestTypesKept, Zenon DEF RInv, RefreshTypeOK, AccountTypeOK, account, Login
<1>3. Sessions'
  <2>1. /\ \A g \in Hash : rt'[g] > 0 => g = h \/ (g # h /\ rt'[g] = rt[g] /\ rec'[g] = rec[g] /\ rec[g] # NoRecord)
        /\ rt'[h] = RefreshTtl /\ rec'[h] = [subject |-> s, family |-> f]
      BY TtlAssumption, Zenon DEF RInv, IInv, Recorded, TypeOK, Login, CreateSession
  <2>2. LineageEnds'
    <3> SUFFICES ASSUME AbsoluteCap > 0, NEW g \in Hash, rt'[g] > 0, rec'[g].family # NoFamily
                 PROVE  age'[rec'[g].family] + rt'[g] <= AbsoluteCap + RefreshTtl
        BY Zenon DEF LineageEnds
    <3>1. CASE g = h
      <4>0. rec'[g] = [subject |-> s, family |-> f] /\ rt'[g] = RefreshTtl
          BY <2>1, <3>1, Zenon
      <4>1. rec'[g].family = f /\ f \in Family
          BY <4>0
      <4>2. age'[rec'[g].family] = 0
          BY <1>c, <4>1, Zenon
      <4> QED
          BY <4>0, <4>2, TtlAssumption, CapAssumption
    <3>2. CASE g # h
      <4>1. rt'[g] = rt[g] /\ rec'[g] = rec[g] /\ rec[g] # NoRecord
          BY <2>1, <3>2, Zenon
      <4>2. rt[g] \in Nat /\ rec[g] \in Record \cup {NoRecord}
          BY StoreTypes, Zenon
      <4>3. rec[g].family \in Family
          BY <4>1, <4>2, Zenon DEF Record
      <4>4. age[rec[g].family] + rt[g] <= AbsoluteCap + RefreshTtl
          BY <4>1, Zenon DEF RInv, Sessions, LineageEnds
      <4>5. /\ age'[rec[g].family] <= age[rec[g].family]
            /\ age[rec[g].family] \in Nat /\ age'[rec[g].family] \in Nat
          BY <1>a, <1>c, <4>3, Zenon
      <4> QED
          BY <4>1, <4>2, <4>4, <4>5, TtlAssumption, CapAssumption
    <3> QED
        BY <3>1, <3>2, Zenon
  <2>3. RotatedSessionsPostdateSweep'
    <3>1. gen' = [gen EXCEPT ![h] = sweeps[s]] /\ UNCHANGED <<sweeps, viaGrace>>
        BY Zenon DEF Login, account
    <3> QED
        BY <2>1, <3>1 DEF RInv, RefreshTypeOK, AccountTypeOK, Sessions, RotatedSessionsPostdateSweep
  <2> QED
      BY <2>2, <2>3, Zenon DEF Sessions
<1> QED
    BY <1>0, <1>1, <1>2, <1>3, OtherStep, Zenon

\* The sweep of revoke_all_sessions.
LEMMA RevokeAllSessionsKeeps ==
    ASSUME RInv, NEW s \in Subject, RevokeAllSessions(s)
    PROVE  RInv'
<1>0. [Next]_vars
    BY StepRefines, Zenon DEF RefreshNext
<1>1. UNCHANGED local /\ \A q \in Req : NoOlder(q)
  <2>1. UNCHANGED <<local, age>>
      BY Zenon DEF RevokeAllSessions
  <2>2. \A f \in Family : age[f] \in Nat
      BY TtlAssumption, CapAssumption DEF RInv, RefreshTypeOK, AccountTypeOK, MaxAge
  <2> QED
      BY <2>1, <2>2 DEF NoOlder
<1>2. RefreshTypeOK'
  <2>1. TypeOK'
      BY <1>0, StoreTypeKept, Zenon
  <2> QED
      BY <2>1, RequestTypesKept DEF RInv, RefreshTypeOK, AccountTypeOK, history, RevokeAllSessions, Sweep
<1>3. Sessions'
    BY SweepSessions, Zenon DEF RevokeAllSessions
<1> QED
    BY <1>0, <1>1, <1>2, <1>3, OtherStep, Zenon

\* Its bump, or the failure before it.
LEMMA RevokeAllSessionsEndsKeeps ==
    ASSUME RInv, NEW s \in Subject, NEW bumped \in BOOLEAN, RevokeAllSessionsEnds(s, bumped)
    PROVE  RInv'
<1>0. [Next]_vars
    BY StepRefines, Zenon DEF RefreshNext
<1>1. UNCHANGED local /\ \A q \in Req : NoOlder(q)
  <2>1. UNCHANGED <<local, age>>
      BY Zenon DEF RevokeAllSessionsEnds
  <2>2. \A f \in Family : age[f] \in Nat
      BY TtlAssumption, CapAssumption DEF RInv, RefreshTypeOK, AccountTypeOK, MaxAge
  <2> QED
      BY <2>1, <2>2 DEF NoOlder
<1>2. RefreshTypeOK'
  <2>1. owed' \in [Subject -> Nat]
      BY DEF RInv, RefreshTypeOK, AccountTypeOK, RevokeAllSessionsEnds
  <2>2. epoch' \in [Subject -> Nat]
      BY DEF RInv, RefreshTypeOK, AccountTypeOK, RevokeAllSessionsEnds, Bump
  <2>3. UNCHANGED <<vars, local, sweeps, age, history>>
      BY Zenon DEF RevokeAllSessionsEnds
  <2> QED
      BY <1>0, <2>1, <2>2, <2>3, StoreTypeKept, RequestTypesKept, Zenon DEF RInv, RefreshTypeOK, AccountTypeOK, history
<1>3. Sessions'
    BY <1>0, <1>2, SessionsShrink, Zenon DEF vars, RevokeAllSessionsEnds
<1> QED
    BY <1>0, <1>1, <1>2, <1>3, OtherStep, Zenon

\* logout.
LEMMA CloseSessionKeeps ==
    ASSUME RInv, NEW s \in Subject, NEW h \in Hash, CloseSession(s, h)
    PROVE  RInv'
<1>0. [Next]_vars
    BY StepRefines, Zenon DEF RefreshNext
<1>1. UNCHANGED local /\ \A q \in Req : NoOlder(q)
  <2>1. UNCHANGED <<local, age>>
      BY Zenon DEF CloseSession
  <2>2. \A f \in Family : age[f] \in Nat
      BY TtlAssumption, CapAssumption DEF RInv, RefreshTypeOK, AccountTypeOK, MaxAge
  <2> QED
      BY <2>1, <2>2 DEF NoOlder
<1>2. RefreshTypeOK'
  <2>1. TypeOK'
      BY <1>0, StoreTypeKept, Zenon
  <2> QED
      BY <2>1, RequestTypesKept, AccountTypesKept, Zenon DEF RefreshTypeOK, CloseSession
<1>3. Sessions'
    BY <1>0, <1>2, SessionsShrink, Zenon DEF CloseSession, RevokeSession, account
<1> QED
    BY <1>0, <1>1, <1>2, <1>3, OtherStep, Zenon

\* A pointer deleted by itself.
LEMMA ClosePointerKeeps ==
    ASSUME RInv, NEW h \in Hash, ClosePointer(h)
    PROVE  RInv'
<1>0. [Next]_vars
    BY StepRefines, Zenon DEF RefreshNext
<1>1. UNCHANGED local /\ \A q \in Req : NoOlder(q)
  <2>1. UNCHANGED <<local, age>>
      BY Zenon DEF ClosePointer
  <2>2. \A f \in Family : age[f] \in Nat
      BY TtlAssumption, CapAssumption DEF RInv, RefreshTypeOK, AccountTypeOK, MaxAge
  <2> QED
      BY <2>1, <2>2 DEF NoOlder
<1>2. RefreshTypeOK'
  <2>1. TypeOK'
      BY <1>0, StoreTypeKept, Zenon
  <2> QED
      BY <2>1, RequestTypesKept, AccountTypesKept, Zenon DEF RefreshTypeOK, ClosePointer
<1>3. Sessions'
    BY <1>0, <1>2, SessionsShrink, Zenon DEF ClosePointer, DeleteGracePointer, account
<1> QED
    BY <1>0, <1>1, <1>2, <1>3, OtherStep, Zenon

\* A listing prunes the index.
LEMMA ListKeeps ==
    ASSUME RInv, NEW s \in Subject, List(s)
    PROVE  RInv'
<1>0. [Next]_vars
    BY StepRefines, Zenon DEF RefreshNext
<1>1. UNCHANGED local /\ \A q \in Req : NoOlder(q)
  <2>1. UNCHANGED <<local, age>>
      BY Zenon DEF List
  <2>2. \A f \in Family : age[f] \in Nat
      BY TtlAssumption, CapAssumption DEF RInv, RefreshTypeOK, AccountTypeOK, MaxAge
  <2> QED
      BY <2>1, <2>2 DEF NoOlder
<1>2. RefreshTypeOK'
  <2>1. TypeOK'
      BY <1>0, StoreTypeKept, Zenon
  <2> QED
      BY <2>1, RequestTypesKept, AccountTypesKept, Zenon DEF RefreshTypeOK, List
<1>3. Sessions'
    BY <1>0, <1>2, SessionsShrink, Zenon DEF List, PruneDead, account
<1> QED
    BY <1>0, <1>1, <1>2, <1>3, OtherStep, Zenon

\* Time passes for sessions and lineages alike.
LEMMA RefreshTickKeeps ==
    ASSUME RInv, RefreshTick
    PROVE  RInv'
<1>0. [Next]_vars
    BY StepRefines, Zenon DEF RefreshNext
<1>a. \A f \in Family : age[f] \in 0..MaxAge /\ age'[f] = IF age[f] < MaxAge THEN age[f] + 1 ELSE MaxAge
    BY Zenon DEF RInv, RefreshTypeOK, AccountTypeOK, RefreshTick
<1>b. MaxAge \in Nat
    BY TtlAssumption, CapAssumption DEF MaxAge
<1>c. \A f \in Family : age'[f] <= age[f] + 1 /\ age'[f] \in Nat /\ age[f] \in Nat
    BY <1>a, <1>b
<1>1. UNCHANGED local /\ \A q \in Req : NoOlder(q)
    BY Zenon DEF RefreshTick, NoOlder, InFlight
<1>2. RefreshTypeOK'
  <2>1. TypeOK'
      BY <1>0, StoreTypeKept, Zenon
  <2>2. age' \in [Family -> 0..MaxAge]
      BY <1>a, <1>b DEF RefreshTick
  <2> QED
      BY <2>1, <2>2, RequestTypesKept, Zenon DEF RInv, RefreshTypeOK, AccountTypeOK, account, history, RefreshTick
<1>3. Sessions'
  <2>1. /\ \A h \in Hash : rt'[h] > 0 => rt[h] > 0 /\ rt'[h] + 1 = rt[h] /\ rec[h] \in Record
        /\ UNCHANGED rec
    <3>1. \A h \in Hash : rt[h] \in Nat /\ rec[h] \in Record \cup {NoRecord}
        BY StoreTypes, Zenon
    <3>2. \A h \in Hash : rt[h] > 0 => rec[h] # NoRecord
        BY Zenon DEF RInv, IInv, Recorded
    <3> QED
        BY <3>1, <3>2 DEF RefreshTick, Tick, Dec
  <2>2. LineageEnds'
    <3>1. SUFFICES ASSUME AbsoluteCap > 0, NEW h \in Hash, rt'[h] > 0, rec[h].family # NoFamily
                   PROVE  age'[rec[h].family] + rt'[h] <= AbsoluteCap + RefreshTtl
        BY <2>1, Zenon DEF LineageEnds
    <3>2. rec[h].family \in Family /\ rt[h] \in Nat /\ rt'[h] + 1 = rt[h] /\ rt'[h] \in Nat
      <4>1. rec[h] \in Record /\ rt'[h] + 1 = rt[h] /\ rt[h] > 0 /\ rt[h] \in Nat
          BY <2>1, <3>1, StoreTypes, Zenon
      <4>2. rt'[h] \in Nat
          BY <1>2, TtlAssumption DEF RefreshTypeOK, RequestTypeOK, TypeOK, Ttl
      <4>3. rec[h].family \in Family
          BY <3>1, <4>1, Zenon DEF Record
      <4> QED
          BY <4>1, <4>2, <4>3, Zenon
    <3>3. age[rec[h].family] + rt[h] <= AbsoluteCap + RefreshTtl
        BY <2>1, <3>1, Zenon DEF RInv, Sessions, LineageEnds
    <3>4. age'[rec[h].family] <= age[rec[h].family] + 1 /\ age'[rec[h].family] \in Nat
          /\ age[rec[h].family] \in Nat
        BY <1>c, <3>2, Zenon
    <3> QED
        BY <3>2, <3>3, <3>4, TtlAssumption, CapAssumption
  <2>3. RotatedSessionsPostdateSweep'
      BY <2>1, Zenon DEF RInv, Sessions, RotatedSessionsPostdateSweep, RefreshTick, account, history
  <2> QED
      BY <2>2, <2>3, Zenon DEF Sessions
<1> QED
    BY <1>0, <1>1, <1>2, <1>3, OtherStep, Zenon

-----------------------------------------------------------------------------
(* The theorems.                                                           *)

\* Every step keeps the invariant.
LEMMA RInvNext == RInv /\ [RefreshNext]_refreshVars => RInv'
<1> SUFFICES ASSUME RInv, [RefreshNext]_refreshVars PROVE RInv'
    BY Zenon
<1>1. CASE UNCHANGED refreshVars
  <2>1. UNCHANGED <<vars, local, account, age, history>>
      BY <1>1, Zenon DEF refreshVars
  <2>2. RefreshTypeOK'
      BY <2>1, StoreTypeKept, RequestTypesKept, AccountTypesKept, Zenon DEF RefreshTypeOK
  <2>3. Sessions'
      BY <2>1, <2>2, SessionsShrink, Zenon DEF vars, account
  <2>4. \A q \in Req : NoOlder(q)
      BY <2>1, TtlAssumption, CapAssumption DEF RInv, RefreshTypeOK, AccountTypeOK, MaxAge, NoOlder
  <2> QED
      BY <2>1, <2>2, <2>3, <2>4, OtherStep, Zenon
<1>2. CASE \E r \in Req : ReqNext(r)
    BY <1>2, BeginKeeps, RotatedKeeps, MoveKeeps, AnsweredKeeps,
       CheckRecoveredKeeps, RecoverKeeps, RecoverRefusedKeeps, SignKeeps,
       ListMembersKeeps, ProbeMemberKeeps, LockoutKeeps, VerifyKeeps,
       GateKeeps, GateRestampsKeeps, CompensateKeeps, CompensateBumpKeeps,
       FailKeeps, Zenon DEF ReqNext
<1>3. CASE \/ \E s \in Subject, h \in Hash, f \in Family \cup {NoFamily} : Login(s, h, f)
           \/ \E s \in Subject : RevokeAllSessions(s)
           \/ \E s \in Subject, bumped \in BOOLEAN : RevokeAllSessionsEnds(s, bumped)
           \/ \E s \in Subject, h \in Hash : CloseSession(s, h)
           \/ \E h \in Hash : ClosePointer(h)
           \/ \E s \in Subject : List(s)
           \/ RefreshTick
    BY <1>3, LoginKeeps, RevokeAllSessionsKeeps, RevokeAllSessionsEndsKeeps,
       CloseSessionKeeps, ClosePointerKeeps, ListKeeps, RefreshTickKeeps, Zenon
<1> QED
    BY <1>1, <1>2, <1>3, Zenon DEF RefreshNext

\* The invariant holds throughout.
THEOREM RefreshInvariance == RefreshSpec => []RInv
    BY RInvInit, RInvNext, PTL DEF RefreshSpec

\* A refresh implements the session store: RefreshSpec refines Spec of
\* SessionStore under the identity mapping.
THEOREM RefreshImplementsStore == RefreshSpec => ImplementsStore
<1>1. RefreshInit => Init
    BY Zenon DEF RefreshInit
<1> QED
    BY <1>1, StepRefines, RefreshInvariance, PTL DEF RefreshSpec, ImplementsStore, Spec

\* The variables of a refresh keep their types.
THEOREM RefreshTypeCorrect == RefreshSpec => []RefreshTypeOK
<1>1. RInv => RefreshTypeOK
    BY Zenon DEF RInv
<1> QED
    BY <1>1, RefreshInvariance, PTL

\* refresh_rotate.lua never rotates under a placeholder's identity.
THEOREM RotationsNameOwner == RefreshSpec => []RotationNamesOwner
<1>1. RInv => RotationNamesOwner
    BY Zenon DEF RInv, Sound, Carries, RotationNamesOwner, At
<1> QED
    BY <1>1, RefreshInvariance, PTL

\* A token mints at most one session by rotation and one by recovery, for any
\* number of requests that present it.
THEOREM TokenMintsTwiceAtMost == RefreshSpec => []MintsPerToken
<1>1. RInv => MintsPerToken
    BY Zenon DEF RInv, Exclusive, Holding, Rotating, MintsPerToken
<1> QED
    BY <1>1, RefreshInvariance, PTL

\* The absolute cap bounds every lineage, whatever cap and lifetime are set.
THEOREM LineagesEnd == RefreshSpec => []LineageEnds
<1>1. RInv => LineageEnds
    BY Zenon DEF RInv, Sessions
<1> QED
    BY <1>1, RefreshInvariance, PTL

\* Rotation never carries a session across a revoke-all.
THEOREM RotationNeverOutlivesSweep == RefreshSpec => []RotatedSessionsPostdateSweep
<1>1. RInv => RotatedSessionsPostdateSweep
    BY Zenon DEF RInv, Sessions
<1> QED
    BY <1>1, RefreshInvariance, PTL
=============================================================================
