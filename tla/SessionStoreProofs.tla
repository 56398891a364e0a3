------------------------- MODULE SessionStoreProofs -------------------------
(***************************************************************************)
(* Machine-checked proofs about SessionStore, for every number of tokens,  *)
(* accounts and lineages and every pair of lifetimes the configuration     *)
(* accepts (TtlAssumption).                                                *)
(*                                                                         *)
(* The invariants of SessionStore are not inductive on their own.  Three   *)
(* facts about the history of a token close the induction: what the store  *)
(* holds about a hash implies that its record was written (Recorded), a    *)
(* rotated token is never live again and its marker outlives its successor *)
(* (Consumed), and a revoked family has lost its set and is not fresh      *)
(* (DeadFamilies).                                                         *)
(***************************************************************************)
EXTENDS SessionStore, TLAPS

\* Every key about a hash was written after the hash's record.
Recorded ==
    \A h \in Hash :
        /\ (rt[h] > 0 \/ rp[h] > 0 \/ succ[h] # NoHash \/ h \in moving) => rec[h] # NoRecord
        /\ h \in moving => succ[h] \in Hash
        /\ succ[h] \in Hash => rec[succ[h]] # NoRecord

\* A rotated token has no live session, and its consumed marker outlives the
\* session that replaced it.
Consumed ==
    \A h \in Hash : succ[h] \in Hash =>
        /\ rt[h] = 0
        /\ rec[h].family # NoFamily => rt[succ[h]] <= cf[h]

\* A revoked family has no set, and its name is taken.
DeadFamilies ==
    \A f \in dead :
        /\ fam[f] = {}
        /\ \E h \in Hash : rec[h] # NoRecord /\ rec[h].family = f

IInv ==
    /\ TypeOK
    /\ Recorded
    /\ Consumed
    /\ LiveSessionIndexed
    /\ GracePointerIndexed
    /\ LiveSessionInFamily
    /\ DeadFamilies

-----------------------------------------------------------------------------
\* The empty store satisfies the inductive invariant.
LEMMA InitInv == Init => IInv
<1> SUFFICES ASSUME Init PROVE IInv
    BY Zenon
<1> USE TtlAssumption, SentinelAssumption
<1>1. TypeOK
    BY DEF Init, TypeOK, Ttl
<1>2. Recorded /\ Consumed
    BY DEF Init, Recorded, Consumed
<1>3. LiveSessionIndexed /\ GracePointerIndexed /\ LiveSessionInFamily
    BY DEF Init, LiveSessionIndexed, GracePointerIndexed, LiveSessionInFamily
<1>4. DeadFamilies
    BY Zenon DEF Init, DeadFamilies
<1> QED
    BY <1>1, <1>2, <1>3, <1>4, Zenon DEF IInv

\* create_session keeps the invariant.
LEMMA CreateInv ==
    ASSUME IInv, NEW s \in Subject, NEW h \in Hash, NEW f \in Family \cup {NoFamily},
           CreateSession(s, h, f)
    PROVE  IInv'
<1> USE TtlAssumption, SentinelAssumption DEF IInv, TypeOK, Ttl
<1>1. TypeOK'
    BY DEF CreateSession, Reindex, Refamily, Record, Member, RtMember
<1>2. Recorded'
    BY DEF CreateSession, Recorded, Record
<1>3. Consumed'
    BY DEF CreateSession, Fresh, Consumed, Recorded
<1>4. LiveSessionIndexed'
    BY DEF CreateSession, Reindex, LiveSessionIndexed
<1>5. GracePointerIndexed'
    BY DEF CreateSession, Reindex, Fresh, GracePointerIndexed, Recorded
<1>6. LiveSessionInFamily'
    BY DEF CreateSession, Refamily, LiveSessionInFamily, Recorded, Record
<1>7. DeadFamilies'
    BY Zenon DEF CreateSession, Refamily, Fresh, FreshFamily, DeadFamilies
<1> QED
    BY <1>1, <1>2, <1>3, <1>4, <1>5, <1>6, <1>7, Zenon

\* The live branch of refresh_rotate keeps the invariant.
LEMMA RotateInv ==
    ASSUME IInv, NEW h \in Hash, NEW n \in Hash, NEW grace \in {0, GraceTtl},
           RotateLive(h, n, grace)
    PROVE  IInv'
<1> USE TtlAssumption, SentinelAssumption DEF IInv, TypeOK, Ttl
<1>0. rec[h] \in Record
    BY Zenon DEF RotateLive, Recorded
<1>1. TypeOK'
  <2>1. rec' \in [Hash -> Record \cup {NoRecord}]
      BY <1>0, Zenon DEF RotateLive
  <2>2. /\ rt' \in [Hash -> Ttl] /\ rp' \in [Hash -> Ttl] /\ cf' \in [Hash -> Ttl]
        /\ sd' \in [Hash -> Ttl] /\ succ' \in [Hash -> Hash \cup {NoHash}]
        /\ moving' \in SUBSET Hash /\ dead' \in SUBSET Family
      BY DEF RotateLive, ConsumedTtl
  <2>3. fam' \in [Family -> SUBSET Hash] /\ famTtl' \in [Family -> Ttl]
      BY <1>0 DEF RotateLive, Refamily
  <2>4. sess' \in [Subject -> SUBSET Member] /\ sessTtl' \in [Subject -> Ttl]
      BY <1>0 DEF RotateLive, RotatedMembers, Reindex, Record, Member, RtMember, RpMember
  <2> QED
      BY <2>1, <2>2, <2>3, <2>4, Zenon
<1>2. Recorded'
    BY Zenon DEF RotateLive, Recorded
<1>3. Consumed'
    BY DEF RotateLive, Fresh, ConsumedTtl, Consumed, Recorded
<1>4. LiveSessionIndexed'
    BY DEF RotateLive, RotatedMembers, Reindex, LiveSessionIndexed, Recorded, Record, RtMember
<1>5. GracePointerIndexed'
    BY DEF RotateLive, RotatedMembers, Reindex, Fresh, GracePointerIndexed, Recorded, Record, RtMember, RpMember
<1>6. LiveSessionInFamily'
    BY DEF RotateLive, Refamily, Fresh, LiveSessionInFamily, Recorded, Record
<1>7. DeadFamilies'
    BY DEF RotateLive, Refamily, Fresh, DeadFamilies, LiveSessionInFamily
<1> QED
    BY <1>1, <1>2, <1>3, <1>4, <1>5, <1>6, <1>7, Zenon

\* Moving the detail after a rotation keeps the invariant.
LEMMA MoveInv ==
    ASSUME IInv, NEW h \in Hash,
           MoveDetail(h)
    PROVE  IInv'
<1> USE TtlAssumption, SentinelAssumption DEF IInv, TypeOK, Ttl
<1>1. TypeOK'
    BY DEF MoveDetail, Recorded
<1>2. Recorded'
    BY Zenon DEF MoveDetail, Recorded
<1>3. Consumed'
    BY Zenon DEF MoveDetail, Consumed
<1>4. LiveSessionIndexed'
    BY Zenon DEF MoveDetail, LiveSessionIndexed
<1>5. GracePointerIndexed'
    BY Zenon DEF MoveDetail, GracePointerIndexed
<1>6. LiveSessionInFamily'
    BY Zenon DEF MoveDetail, LiveSessionInFamily
<1>7. DeadFamilies'
    BY Zenon DEF MoveDetail, DeadFamilies
<1> QED
    BY <1>1, <1>2, <1>3, <1>4, <1>5, <1>6, <1>7, Zenon

\* Spending a grace pointer keeps the invariant.
LEMMA SpendInv ==
    ASSUME IInv, NEW h \in Hash,
           SpendPointer(h)
    PROVE  IInv'
<1> USE TtlAssumption, SentinelAssumption DEF IInv, TypeOK, Ttl
<1>1. TypeOK'
    BY Zenon DEF SpendPointer
<1>2. Recorded'
    BY Zenon DEF SpendPointer, Recorded
<1>3. Consumed'
    BY Zenon DEF SpendPointer, Consumed
<1>4. LiveSessionIndexed'
    BY Zenon DEF SpendPointer, LiveSessionIndexed
<1>5. GracePointerIndexed'
    BY DEF SpendPointer, GracePointerIndexed
<1>6. LiveSessionInFamily'
    BY Zenon DEF SpendPointer, LiveSessionInFamily
<1>7. DeadFamilies'
    BY Zenon DEF SpendPointer, DeadFamilies
<1> QED
    BY <1>1, <1>2, <1>3, <1>4, <1>5, <1>6, <1>7, Zenon

\* recover_grace keeps the invariant.
LEMMA RecoverInv ==
    ASSUME IInv, NEW h \in Hash, NEW n \in Hash,
           RecoverGrace(h, n)
    PROVE  IInv'
<1> USE TtlAssumption, SentinelAssumption DEF IInv, TypeOK, Ttl
<1>0. rec[h] \in Record
    BY Zenon DEF RecoverGrace
<1>1. TypeOK'
    BY <1>0 DEF RecoverGrace, Reindex, Refamily, Record, Member, RtMember
<1>2. Recorded'
    BY Zenon DEF RecoverGrace, Recorded
<1>3. Consumed'
    BY Zenon DEF RecoverGrace, Fresh, Consumed, Recorded
<1>4. LiveSessionIndexed'
    BY DEF RecoverGrace, Reindex, LiveSessionIndexed, Record
<1>5. GracePointerIndexed'
    BY DEF RecoverGrace, Reindex, Fresh, GracePointerIndexed, Recorded
<1>6. LiveSessionInFamily'
    BY DEF RecoverGrace, Refamily, LiveSessionInFamily, Recorded, Record
<1>7. DeadFamilies'
    BY DEF RecoverGrace, RecoverySwept, Refamily, Fresh, DeadFamilies
<1> QED
    BY <1>1, <1>2, <1>3, <1>4, <1>5, <1>6, <1>7, Zenon

\* session_revoke keeps the invariant.
LEMMA RevokeInv ==
    ASSUME IInv, NEW s \in Subject, NEW h \in Hash,
           RevokeSession(s, h)
    PROVE  IInv'
<1> USE TtlAssumption, SentinelAssumption DEF IInv, TypeOK, Ttl
<1>1. TypeOK'
    BY DEF RevokeSession, Unindex
<1>2. Recorded'
    BY DEF RevokeSession, Recorded
<1>3. Consumed'
    BY DEF RevokeSession, Consumed
<1>4. LiveSessionIndexed'
    BY DEF RevokeSession, Unindex, LiveSessionIndexed, RtMember
<1>5. GracePointerIndexed'
    BY DEF RevokeSession, Unindex, GracePointerIndexed, RtMember, RpMember
<1>6. LiveSessionInFamily'
    BY DEF RevokeSession, LiveSessionInFamily
<1>7. DeadFamilies'
    BY Zenon DEF RevokeSession, DeadFamilies
<1> QED
    BY <1>1, <1>2, <1>3, <1>4, <1>5, <1>6, <1>7, Zenon

\* invalidate_user_sessions keeps the invariant.
LEMMA RevokeAllInv ==
    ASSUME IInv, NEW s \in Subject,
           RevokeAll(s)
    PROVE  IInv'
<1> USE TtlAssumption, SentinelAssumption DEF IInv, TypeOK, Ttl
<1>1. TypeOK'
    BY DEF RevokeAll, Unindex
<1>2. Recorded'
    BY DEF RevokeAll, Recorded
<1>3. Consumed'
    BY DEF RevokeAll, Consumed
<1>4. LiveSessionIndexed'
    BY DEF RevokeAll, Unindex, LiveSessionIndexed
<1>5. GracePointerIndexed'
    BY DEF RevokeAll, Unindex, GracePointerIndexed
<1>6. LiveSessionInFamily'
    BY DEF RevokeAll, LiveSessionInFamily
<1>7. DeadFamilies'
    BY Zenon DEF RevokeAll, DeadFamilies
<1> QED
    BY <1>1, <1>2, <1>3, <1>4, <1>5, <1>6, <1>7, Zenon

\* revoke_family keeps the invariant.
LEMMA RevokeFamilyInv ==
    ASSUME IInv, NEW f \in Family, NEW h \in Hash, rec[h] # NoRecord, rec[h].family = f,
           NEW s \in Subject \cup {NoSubject},
           RevokeFamily(f, s)
    PROVE  IInv'
<1> USE TtlAssumption, SentinelAssumption DEF IInv, TypeOK, Ttl
<1>1. TypeOK'
    BY DEF RevokeFamily, Unindex
<1>2. Recorded'
    BY DEF RevokeFamily, Recorded
<1>3. Consumed'
    BY DEF RevokeFamily, Consumed
<1>4. LiveSessionIndexed'
    BY DEF RevokeFamily, Unindex, LiveSessionIndexed, Recorded, Record, RtMember
<1>5. GracePointerIndexed'
    BY DEF RevokeFamily, Unindex, GracePointerIndexed, Recorded, Record, RtMember, RpMember
<1>6. LiveSessionInFamily'
    BY DEF RevokeFamily, LiveSessionInFamily
<1>7. DeadFamilies'
    BY DEF RevokeFamily, DeadFamilies
<1> QED
    BY <1>1, <1>2, <1>3, <1>4, <1>5, <1>6, <1>7, Zenon

\* delete_grace_pointer keeps the invariant.
LEMMA DeleteInv ==
    ASSUME IInv, NEW h \in Hash,
           DeleteGracePointer(h)
    PROVE  IInv'
<1> USE TtlAssumption, SentinelAssumption DEF IInv, TypeOK, Ttl
<1>1. TypeOK'
    BY DEF DeleteGracePointer
<1>2. Recorded'
    BY Zenon DEF DeleteGracePointer, Recorded
<1>3. Consumed'
    BY Zenon DEF DeleteGracePointer, Consumed
<1>4. LiveSessionIndexed'
    BY Zenon DEF DeleteGracePointer, LiveSessionIndexed
<1>5. GracePointerIndexed'
    BY DEF DeleteGracePointer, GracePointerIndexed
<1>6. LiveSessionInFamily'
    BY Zenon DEF DeleteGracePointer, LiveSessionInFamily
<1>7. DeadFamilies'
    BY Zenon DEF DeleteGracePointer, DeadFamilies
<1> QED
    BY <1>1, <1>2, <1>3, <1>4, <1>5, <1>6, <1>7, Zenon

\* Pruning dead index members keeps the invariant.
LEMMA PruneInv ==
    ASSUME IInv, NEW s \in Subject, NEW C \in SUBSET sess[s],
           PruneDead(s, C)
    PROVE  IInv'
<1> USE TtlAssumption, SentinelAssumption DEF IInv, TypeOK, Ttl
<1>1. TypeOK'
    BY DEF PruneDead, Unindex
<1>2. Recorded'
    BY Zenon DEF PruneDead, Recorded
<1>3. Consumed'
    BY Zenon DEF PruneDead, Consumed
<1>4. LiveSessionIndexed'
    BY DEF PruneDead, Unindex, KeyGone, LiveSessionIndexed, RtMember
<1>5. GracePointerIndexed'
    BY DEF PruneDead, Unindex, KeyGone, GracePointerIndexed, RpMember
<1>6. LiveSessionInFamily'
    BY Zenon DEF PruneDead, LiveSessionInFamily
<1>7. DeadFamilies'
    BY Zenon DEF PruneDead, DeadFamilies
<1> QED
    BY <1>1, <1>2, <1>3, <1>4, <1>5, <1>6, <1>7, Zenon

\* The passage of time keeps the invariant.
LEMMA TickInv ==
    ASSUME IInv, Tick
    PROVE  IInv'
<1> USE TtlAssumption, SentinelAssumption DEF IInv, TypeOK, Ttl
<1>1. TypeOK'
    BY DEF Tick, Dec
<1>2. Recorded'
    BY DEF Tick, Dec, Recorded
<1>3. Consumed'
    BY DEF Tick, Dec, Consumed
<1>4. LiveSessionIndexed'
    BY DEF Tick, Dec, LiveSessionIndexed, Recorded, Record
<1>5. GracePointerIndexed'
    BY DEF Tick, Dec, GracePointerIndexed, Recorded, Record
<1>6. LiveSessionInFamily'
    BY DEF Tick, Dec, LiveSessionInFamily, Recorded, Record
<1>7. DeadFamilies'
    BY Zenon DEF Tick, DeadFamilies
<1> QED
    BY <1>1, <1>2, <1>3, <1>4, <1>5, <1>6, <1>7, Zenon

-----------------------------------------------------------------------------
\* Every step of the store, and every stuttering step, keeps the invariant.
LEMMA NextInv == IInv /\ [Next]_vars => IInv'
<1> SUFFICES ASSUME IInv, [Next]_vars PROVE IInv'
    BY Zenon
<1>1. CASE UNCHANGED vars
    BY <1>1, Zenon DEF vars, IInv, TypeOK, Recorded, Consumed, LiveSessionIndexed,
                GracePointerIndexed, LiveSessionInFamily, DeadFamilies
<1>2. CASE \E s \in Subject, h \in Hash, f \in Family \cup {NoFamily} : CreateSession(s, h, f)
    BY <1>2, CreateInv, Zenon
<1>3. CASE \E h, n \in Hash, grace \in {0, GraceTtl} : RotateLive(h, n, grace)
    BY <1>3, RotateInv, Zenon
<1>4. CASE \E h \in Hash : MoveDetail(h)
    BY <1>4, MoveInv, Zenon
<1>5. CASE \E h \in Hash : SpendPointer(h)
    BY <1>5, SpendInv, Zenon
<1>6. CASE \E h, n \in Hash : RecoverGrace(h, n)
    BY <1>6, RecoverInv, Zenon
<1>7. CASE \E s \in Subject, h \in Hash : RevokeSession(s, h)
    BY <1>7, RevokeInv, Zenon
<1>8. CASE \E s \in Subject : RevokeAll(s)
    BY <1>8, RevokeAllInv, Zenon
<1>9. CASE \E f \in Family, h \in Hash : rec[h] # NoRecord /\ rec[h].family = f
                /\ \E s \in {rec[h].subject, NoSubject} : RevokeFamily(f, s)
  <2>1. PICK f \in Family, h \in Hash :
            /\ rec[h] # NoRecord /\ rec[h].family = f
            /\ \E s \in {rec[h].subject, NoSubject} : RevokeFamily(f, s)
      BY <1>9, Zenon
  <2>2. PICK s \in {rec[h].subject, NoSubject} : RevokeFamily(f, s)
      BY <2>1, Zenon
  <2>3. s \in Subject \cup {NoSubject}
      BY <2>1, Zenon DEF IInv, TypeOK, Record
  <2> QED
      BY <2>1, <2>2, <2>3, RevokeFamilyInv, Zenon
<1>10. CASE \E h \in Hash : DeleteGracePointer(h)
    BY <1>10, DeleteInv, Zenon
<1>11. CASE \E s \in Subject : \E candidates \in SUBSET sess[s] : PruneDead(s, candidates)
    BY <1>11, PruneInv, Zenon
<1>12. CASE Tick
    BY <1>12, TickInv, Zenon
<1> QED
    BY <1>1, <1>2, <1>3, <1>4, <1>5, <1>6, <1>7, <1>8, <1>9, <1>10, <1>11, <1>12, Zenon DEF Next

\* The inductive invariant holds in every reachable state of the store.
THEOREM Invariance == Spec => []IInv
    BY InitInv, NextInv, PTL DEF Spec

\* Every value of the keyspace stays in its type: in particular no lifetime is
\* ever negative or longer than the refresh lifetime.
THEOREM TypeCorrect == Spec => []TypeOK
<1>1. IInv => TypeOK
    BY Zenon DEF IInv
<1> QED
    BY <1>1, Invariance, PTL

\* Every live session is in its owner's index, which outlives it.
THEOREM SessionsAreIndexed == Spec => []LiveSessionIndexed
<1>1. IInv => LiveSessionIndexed
    BY Zenon DEF IInv
<1> QED
    BY <1>1, Invariance, PTL

\* Every live grace pointer is in the index of the account it could recover.
THEOREM PointersAreIndexed == Spec => []GracePointerIndexed
<1>1. IInv => GracePointerIndexed
    BY Zenon DEF IInv
<1> QED
    BY <1>1, Invariance, PTL

\* Every live session of a lineage is in the set revoke_family works from.
THEOREM FamiliesAreComplete == Spec => []LiveSessionInFamily
<1>1. IInv => LiveSessionInFamily
    BY Zenon DEF IInv
<1> QED
    BY <1>1, Invariance, PTL

\* A consumed token is recognised for as long as its successor lives.
THEOREM ReplayIsRecognised == Spec => []ReplayRecognised
<1>1. IInv => ReplayRecognised
  <2> SUFFICES ASSUME IInv, NEW h \in Hash, succ[h] # NoHash,
                      rec[h].family # NoFamily, rt[succ[h]] > 0
               PROVE  GraceHit(h) \/ ReuseHit(h)
      BY Zenon DEF ReplayRecognised
  <2>1. succ[h] \in Hash
      BY Zenon DEF IInv, TypeOK
  <2>2. rt[h] = 0 /\ rt[succ[h]] <= cf[h]
      BY <2>1, Zenon DEF IInv, Consumed
  <2>3. cf[h] > 0
      BY <2>1, <2>2, TtlAssumption DEF IInv, TypeOK, Ttl
  <2> QED
      BY <2>2, <2>3, Zenon DEF ReuseHit
<1> QED
    BY <1>1, Invariance, PTL

\* A revoked lineage has no live session and no grace recovery, for ever.
THEOREM RevokedFamiliesStayDead == Spec => []RevokedFamilyStaysDead
<1>1. IInv => RevokedFamilyStaysDead
  <2> SUFFICES ASSUME IInv, NEW h \in Hash, rec[h] # NoRecord, rec[h].family \in dead
               PROVE  rt[h] = 0 /\ ~GraceHit(h)
      BY Zenon DEF RevokedFamilyStaysDead
  <2>1. \A k \in Hash : (rec[k] # NoRecord /\ rec[k].family \in dead) => rt[k] = 0
    <3> SUFFICES ASSUME NEW k \in Hash, rec[k] # NoRecord, rec[k].family \in dead
                 PROVE  rt[k] = 0
        BY Zenon
    <3>1. fam[rec[k].family] = {}
        BY Zenon DEF IInv, DeadFamilies
    <3>2. rec[k].family # NoFamily
        BY SentinelAssumption, Zenon DEF IInv, TypeOK
    <3>3. ~(rt[k] > 0)
        BY <3>1, <3>2, Zenon DEF IInv, LiveSessionInFamily
    <3> QED
        BY <3>3, TtlAssumption DEF IInv, TypeOK, Ttl
  <2>2. GraceHit(h) => succ[h] \in Hash /\ rec[succ[h]] = rec[h]
      BY Zenon DEF GraceHit, IInv, GracePointerIndexed
  <2>3. ~GraceHit(h)
      BY <2>1, <2>2 DEF GraceHit
  <2> QED
      BY <2>1, <2>3, Zenon
<1> QED
    BY <1>1, Invariance, PTL

\* A revoke-all leaves the account with no session and no grace pointer.
THEOREM SweepsAreTotal == Spec => SweepIsTotal
<1> DEFINE Total == \A s \in Subject : RevokeAll(s) =>
                      \A h \in Hash : (rec[h] # NoRecord /\ rec[h].subject = s)
                          => rt'[h] = 0 /\ rp'[h] = 0
<1>1. IInv => Total
  <2> SUFFICES ASSUME IInv, NEW s \in Subject, RevokeAll(s), NEW h \in Hash,
                      rec[h] # NoRecord, rec[h].subject = s
               PROVE  rt'[h] = 0 /\ rp'[h] = 0
      BY Zenon
  <2>1. rt'[h] = 0
      BY TtlAssumption DEF RevokeAll, IInv, TypeOK, Ttl, LiveSessionIndexed
  <2>2. rp'[h] = 0
      BY TtlAssumption DEF RevokeAll, IInv, TypeOK, Ttl, GracePointerIndexed
  <2> QED
      BY <2>1, <2>2, Zenon
<1>2. Spec => [][Total]_vars
    BY <1>1, Invariance, PTL
<1> QED
    BY <1>2, Zenon DEF SweepIsTotal

-----------------------------------------------------------------------------
(* Who owns what: the second inductive invariant, on top of the first.     *)

\* A member of fam:f was recorded under f.
FamilyMembersOwn ==
    \A f \in Family : \A h \in fam[f] : rec[h] # NoRecord /\ rec[h].family = f

\* One login, one account.
FamilyHasOneOwner ==
    \A g, h \in Hash :
        (/\ rec[g] # NoRecord /\ rec[h] # NoRecord
         /\ rec[g].family = rec[h].family /\ rec[g].family # NoFamily)
            => rec[g].subject = rec[h].subject

\* A consumed marker names a family.
MarkersHaveFamily ==
    \A h \in Hash : cf[h] > 0 => rec[h] # NoRecord /\ rec[h].family # NoFamily

\* A member of sess:s was recorded for s.
IndexNamesOwner ==
    \A s \in Subject, h \in Hash : (RtMember(h) \in sess[s] \/ RpMember(h) \in sess[s])
        => rec[h] # NoRecord /\ rec[h].subject = s

Owned ==
    /\ FamilyMembersOwn
    /\ FamilyHasOneOwner
    /\ MarkersHaveFamily
    /\ IndexNamesOwner

\* Every operation keeps ownership.
LEMMA OwnedNext == IInv /\ Owned /\ [Next]_vars => Owned'
<1> SUFFICES ASSUME IInv, Owned, [Next]_vars PROVE Owned'
    BY Zenon
<1> USE TtlAssumption, SentinelAssumption DEF IInv, TypeOK, Owned, Ttl
<1>0. CASE UNCHANGED vars
    BY <1>0 DEF vars, FamilyMembersOwn, FamilyHasOneOwner, MarkersHaveFamily, IndexNamesOwner
<1>1. CASE \E s \in Subject, h \in Hash, f \in Family \cup {NoFamily} : CreateSession(s, h, f)
  <2>0. PICK s \in Subject, h \in Hash, f \in Family \cup {NoFamily} : CreateSession(s, h, f)
      BY <1>1, Zenon
  <2>1. FamilyMembersOwn'
      BY <2>0 DEF CreateSession, Fresh, FreshFamily, Reindex, Refamily, Record, RtMember, RpMember, FamilyMembersOwn
  <2>2. FamilyHasOneOwner'
      BY <2>0 DEF CreateSession, Fresh, FreshFamily, Reindex, Refamily, Record, RtMember, RpMember, FamilyHasOneOwner
  <2>3. MarkersHaveFamily'
      BY <2>0, Zenon DEF CreateSession, Fresh, FreshFamily, Reindex, Refamily, Record, RtMember, RpMember, MarkersHaveFamily
  <2>4. IndexNamesOwner'
      BY <2>0 DEF CreateSession, Fresh, FreshFamily, Reindex, Refamily, Record, RtMember, RpMember, IndexNamesOwner
  <2> QED
      BY <2>1, <2>2, <2>3, <2>4, Zenon
<1>2. CASE \E h, n \in Hash, grace \in {0, GraceTtl} : RotateLive(h, n, grace)
  <2>0. PICK h \in Hash, n \in Hash, grace \in {0, GraceTtl} : RotateLive(h, n, grace)
      BY <1>2, Zenon
  <2>r. rec[h] \in Record
      BY <2>0, Zenon DEF RotateLive, Recorded
  <2>1. FamilyMembersOwn'
      BY <2>0, <2>r DEF RotateLive, Fresh, Refamily, Record, FamilyMembersOwn
  <2>2. FamilyHasOneOwner'
      BY <2>0, <2>r, Zenon DEF RotateLive, Fresh, FamilyHasOneOwner
  <2>3. MarkersHaveFamily'
      BY <2>0, <2>r, Zenon DEF RotateLive, Fresh, RotatedMembers, Reindex, Refamily, Record, RtMember, RpMember, ConsumedTtl, MarkersHaveFamily
  <2>4. IndexNamesOwner'
      BY <2>0, <2>r DEF RotateLive, Fresh, RotatedMembers, Reindex, Refamily, Record, RtMember, RpMember, IndexNamesOwner
  <2> QED
      BY <2>1, <2>2, <2>3, <2>4, Zenon
<1>3. CASE \E h \in Hash : MoveDetail(h)
  <2>1. FamilyMembersOwn'
      BY <1>3, Zenon DEF MoveDetail, Record, RtMember, RpMember, FamilyMembersOwn
  <2>2. FamilyHasOneOwner'
      BY <1>3 DEF MoveDetail, Record, RtMember, RpMember, FamilyHasOneOwner
  <2>3. MarkersHaveFamily'
      BY <1>3, Zenon DEF MoveDetail, Record, RtMember, RpMember, MarkersHaveFamily
  <2>4. IndexNamesOwner'
      BY <1>3, Zenon DEF MoveDetail, Record, RtMember, RpMember, IndexNamesOwner
  <2> QED
      BY <2>1, <2>2, <2>3, <2>4, Zenon
<1>4. CASE \E h \in Hash : SpendPointer(h)
  <2>1. FamilyMembersOwn'
      BY <1>4, Zenon DEF SpendPointer, Record, RtMember, RpMember, FamilyMembersOwn
  <2>2. FamilyHasOneOwner'
      BY <1>4 DEF SpendPointer, Record, RtMember, RpMember, FamilyHasOneOwner
  <2>3. MarkersHaveFamily'
      BY <1>4, Zenon DEF SpendPointer, Record, RtMember, RpMember, MarkersHaveFamily
  <2>4. IndexNamesOwner'
      BY <1>4, Zenon DEF SpendPointer, Record, RtMember, RpMember, IndexNamesOwner
  <2> QED
      BY <2>1, <2>2, <2>3, <2>4, Zenon
<1>5. CASE \E h, n \in Hash : RecoverGrace(h, n)
  <2>0. PICK h \in Hash, n \in Hash : RecoverGrace(h, n)
      BY <1>5, Zenon
  <2>r. rec[h] \in Record
      BY <2>0, Zenon DEF RecoverGrace, Recorded
  <2>1. FamilyMembersOwn'
      BY <2>0, <2>r DEF RecoverGrace, Fresh, Reindex, Refamily, Record, RtMember, RpMember, FamilyMembersOwn
  <2>2. FamilyHasOneOwner'
      BY <2>0, <2>r DEF RecoverGrace, Fresh, Reindex, Refamily, Record, RtMember, RpMember, FamilyHasOneOwner
  <2>3. MarkersHaveFamily'
      BY <2>0, <2>r, Zenon DEF RecoverGrace, Fresh, Reindex, Refamily, Record, RtMember, RpMember, MarkersHaveFamily
  <2>4. IndexNamesOwner'
      BY <2>0, <2>r DEF RecoverGrace, Fresh, Reindex, Refamily, Record, RtMember, RpMember, IndexNamesOwner
  <2> QED
      BY <2>1, <2>2, <2>3, <2>4, Zenon
<1>6. CASE \E s \in Subject, h \in Hash : RevokeSession(s, h)
  <2>1. FamilyMembersOwn'
      BY <1>6, Zenon DEF RevokeSession, Unindex, Record, RtMember, RpMember, FamilyMembersOwn
  <2>2. FamilyHasOneOwner'
      BY <1>6 DEF RevokeSession, Unindex, Record, RtMember, RpMember, FamilyHasOneOwner
  <2>3. MarkersHaveFamily'
      BY <1>6, Zenon DEF RevokeSession, Unindex, Record, RtMember, RpMember, MarkersHaveFamily
  <2>4. IndexNamesOwner'
      BY <1>6 DEF RevokeSession, Unindex, Record, RtMember, RpMember, IndexNamesOwner
  <2> QED
      BY <2>1, <2>2, <2>3, <2>4, Zenon
<1>7. CASE \E s \in Subject : RevokeAll(s)
  <2>1. FamilyMembersOwn'
      BY <1>7, Zenon DEF RevokeAll, Unindex, Record, RtMember, RpMember, FamilyMembersOwn
  <2>2. FamilyHasOneOwner'
      BY <1>7 DEF RevokeAll, Unindex, Record, RtMember, RpMember, FamilyHasOneOwner
  <2>3. MarkersHaveFamily'
      BY <1>7, Zenon DEF RevokeAll, Unindex, Record, RtMember, RpMember, MarkersHaveFamily
  <2>4. IndexNamesOwner'
      BY <1>7 DEF RevokeAll, Unindex, Record, RtMember, RpMember, IndexNamesOwner
  <2> QED
      BY <2>1, <2>2, <2>3, <2>4, Zenon
<1>8. CASE \E f \in Family, s \in Subject \cup {NoSubject} : RevokeFamily(f, s)
  <2>1. FamilyMembersOwn'
      BY <1>8 DEF RevokeFamily, Unindex, Record, RtMember, RpMember, FamilyMembersOwn
  <2>2. FamilyHasOneOwner'
      BY <1>8 DEF RevokeFamily, Unindex, Record, RtMember, RpMember, FamilyHasOneOwner
  <2>3. MarkersHaveFamily'
      BY <1>8, Zenon DEF RevokeFamily, Unindex, Record, RtMember, RpMember, MarkersHaveFamily
  <2>4. IndexNamesOwner'
      BY <1>8 DEF RevokeFamily, Unindex, Record, RtMember, RpMember, IndexNamesOwner
  <2> QED
      BY <2>1, <2>2, <2>3, <2>4, Zenon
<1>9. CASE \E h \in Hash : DeleteGracePointer(h)
  <2>1. FamilyMembersOwn'
      BY <1>9, Zenon DEF DeleteGracePointer, Record, RtMember, RpMember, FamilyMembersOwn
  <2>2. FamilyHasOneOwner'
      BY <1>9 DEF DeleteGracePointer, Record, RtMember, RpMember, FamilyHasOneOwner
  <2>3. MarkersHaveFamily'
      BY <1>9, Zenon DEF DeleteGracePointer, Record, RtMember, RpMember, MarkersHaveFamily
  <2>4. IndexNamesOwner'
      BY <1>9, Zenon DEF DeleteGracePointer, Record, RtMember, RpMember, IndexNamesOwner
  <2> QED
      BY <2>1, <2>2, <2>3, <2>4, Zenon
<1>10. CASE \E s \in Subject : \E candidates \in SUBSET sess[s] : PruneDead(s, candidates)
  <2>1. FamilyMembersOwn'
      BY <1>10, Zenon DEF PruneDead, Unindex, Record, RtMember, RpMember, FamilyMembersOwn
  <2>2. FamilyHasOneOwner'
      BY <1>10 DEF PruneDead, Unindex, Record, RtMember, RpMember, FamilyHasOneOwner
  <2>3. MarkersHaveFamily'
      BY <1>10, Zenon DEF PruneDead, Unindex, Record, RtMember, RpMember, MarkersHaveFamily
  <2>4. IndexNamesOwner'
      BY <1>10 DEF PruneDead, Unindex, Record, RtMember, RpMember, IndexNamesOwner
  <2> QED
      BY <2>1, <2>2, <2>3, <2>4, Zenon
<1>11. CASE Tick
  <2>1. FamilyMembersOwn'
      BY <1>11, Zenon DEF Tick, Record, RtMember, RpMember, Dec, FamilyMembersOwn
  <2>2. FamilyHasOneOwner'
      BY <1>11, Zenon DEF Tick, Record, RtMember, RpMember, Dec, FamilyHasOneOwner
  <2>3. MarkersHaveFamily'
      BY <1>11 DEF Tick, Record, RtMember, RpMember, Dec, MarkersHaveFamily
  <2>4. IndexNamesOwner'
      BY <1>11, Zenon DEF Tick, Record, RtMember, RpMember, Dec, IndexNamesOwner
  <2> QED
      BY <2>1, <2>2, <2>3, <2>4, Zenon
<1>12. CASE \E f \in Family, h \in Hash : rec[h] # NoRecord /\ rec[h].family = f
                /\ \E s \in {rec[h].subject, NoSubject} : RevokeFamily(f, s)
    BY <1>8, <1>12, Zenon DEF Record
<1> QED
    BY <1>0, <1>1, <1>2, <1>3, <1>4, <1>5, <1>6, <1>7, <1>9, <1>10, <1>11, <1>12, Zenon DEF Next

\* The empty store satisfies it.
LEMMA OwnedInit == Init => Owned
    BY SentinelAssumption DEF Init, Owned, FamilyMembersOwn, FamilyHasOneOwner,
                              MarkersHaveFamily, IndexNamesOwner

\* Ownership holds in every reachable state of the store.
THEOREM Ownership == Spec => [](IInv /\ Owned)
    BY InitInv, OwnedInit, NextInv, OwnedNext, PTL DEF Spec

\* A revocation for one account never touches another's.
THEOREM RevocationsStayHome == Spec => RevocationStaysHome
<1> DEFINE Home == \A s \in Subject : (RevokeAll(s) \/ \E g \in Hash : RevokeSession(s, g)) =>
                     \A h \in Hash : (rec[h] # NoRecord /\ rec[h].subject # s)
                         => rt'[h] = rt[h] /\ rp'[h] = rp[h]
<1>1. IInv /\ Owned => Home
  <2> SUFFICES ASSUME IInv, Owned, NEW s \in Subject, NEW h \in Hash,
                      rec[h] # NoRecord, rec[h].subject # s,
                      RevokeAll(s) \/ \E g \in Hash : RevokeSession(s, g)
               PROVE  rt'[h] = rt[h] /\ rp'[h] = rp[h]
      BY Zenon
  <2>1. RtMember(h) \notin sess[s] /\ RpMember(h) \notin sess[s]
      BY Zenon DEF Owned, IndexNamesOwner
  <2>2. CASE RevokeAll(s)
      BY <2>1, <2>2, Zenon DEF RevokeAll, IInv, TypeOK
  <2>3. CASE \E g \in Hash : RevokeSession(s, g)
      BY <2>1, <2>3, Zenon DEF RevokeSession, IInv, TypeOK
  <2> QED
      BY <2>2, <2>3, Zenon
<1>2. Spec => [][Home]_vars
    BY <1>1, Ownership, PTL
<1> QED
    BY <1>2, Zenon DEF RevocationStaysHome

-----------------------------------------------------------------------------
\* What no step of the store does to a hash that has been recorded.
Frame ==
    \A h \in Hash : rec[h] # NoRecord =>
        /\ rec'[h] = rec[h]
        /\ rt'[h] <= rt[h]
        /\ succ[h] \in Hash => succ'[h] = succ[h] /\ (rp[h] = 0 => rp'[h] = 0)

\* Every operation of the store respects the frame.
LEMMA StoreFrame == IInv /\ [Next]_vars => Frame
<1> SUFFICES ASSUME IInv, [Next]_vars, NEW h \in Hash, rec[h] # NoRecord
             PROVE  /\ rec'[h] = rec[h]
                    /\ rt'[h] <= rt[h]
                    /\ succ[h] \in Hash => succ'[h] = succ[h] /\ (rp[h] = 0 => rp'[h] = 0)
    BY Zenon DEF Frame
<1> USE TtlAssumption DEF IInv, TypeOK, Ttl
<1>0. CASE UNCHANGED vars
    BY <1>0 DEF vars
<1>1. CASE \E s \in Subject, g \in Hash, f \in Family \cup {NoFamily} : CreateSession(s, g, f)
    BY <1>1 DEF CreateSession, Fresh
<1>2. CASE \E g, n \in Hash, grace \in {0, GraceTtl} : RotateLive(g, n, grace)
    BY <1>2 DEF RotateLive, Fresh, Consumed
<1>3. CASE \E g \in Hash : MoveDetail(g)
    BY <1>3 DEF MoveDetail
<1>4. CASE \E g \in Hash : SpendPointer(g)
    BY <1>4 DEF SpendPointer
<1>5. CASE \E g, n \in Hash : RecoverGrace(g, n)
    BY <1>5 DEF RecoverGrace, Fresh
<1>6. CASE \E s \in Subject, g \in Hash : RevokeSession(s, g)
    BY <1>6 DEF RevokeSession
<1>7. CASE \E s \in Subject : RevokeAll(s)
    BY <1>7 DEF RevokeAll
<1>8. CASE \E f, s : RevokeFamily(f, s)
    BY <1>8 DEF RevokeFamily
<1>9. CASE \E g \in Hash : DeleteGracePointer(g)
    BY <1>9 DEF DeleteGracePointer
<1>10. CASE \E s, candidates : PruneDead(s, candidates)
    BY <1>10 DEF PruneDead
<1>11. CASE Tick
    BY <1>11 DEF Tick, Dec
<1> QED
    BY <1>0, <1>1, <1>2, <1>3, <1>4, <1>5, <1>6, <1>7, <1>8, <1>9, <1>10, <1>11, Zenon DEF Next

-----------------------------------------------------------------------------
(* The store implements TokenService.                                      *)

\* A window is open only for a token that was rotated, into a recorded hash.
LEMMA GraceIsRotated ==
    ASSUME IInv, NEW h \in Hash, GraceHit(h)
    PROVE  succ[h] \in Hash /\ rec[h] # NoRecord /\ rec[succ[h]] # NoRecord
    BY Zenon DEF IInv, GraceHit, GracePointerIndexed, Recorded

\* A step that adds no session, pointer or marker and moves no history is an
\* ending, whatever it deletes.
LEMMA DeletionsAreEnds ==
    ASSUME IInv, UNCHANGED <<rec, succ>>,
           \A h \in Hash : /\ rt'[h] > 0 => rt[h] > 0
                           /\ rp'[h] > 0 => rp[h] > 0
                           /\ cf'[h] > 0 => cf[h] > 0
    PROVE  Tokens!Ends
<1>1. {h \in Hash : rt[h] > 0}' \subseteq {h \in Hash : rt[h] > 0}
    BY Zenon
<1>2. {h \in Hash : cf[h] > 0}' \subseteq {h \in Hash : cf[h] > 0}
    BY Zenon
<1>3. \A h \in Hash : GraceHit(h)' => GraceHit(h) /\ rt'[succ[h]] > 0
  <2> SUFFICES ASSUME NEW h \in Hash, GraceHit(h)' PROVE GraceHit(h) /\ rt'[succ[h]] > 0
      BY Zenon
  <2>1. rp[h] > 0 /\ rt'[succ[h]] > 0
      BY Zenon DEF GraceHit
  <2>2. succ[h] \in Hash
      BY <2>1, Zenon DEF IInv, GracePointerIndexed
  <2>3. rt[h] = 0
      BY <2>2, Zenon DEF IInv, Consumed
  <2> QED
      BY <2>1, <2>2, <2>3, Zenon DEF GraceHit
<1>4. \A h \in Hash : GraceHit(h) => succ[h] \in Hash
    BY GraceIsRotated, Zenon
<1>5. {h \in Hash : GraceHit(h)}' \subseteq
          {p \in {h \in Hash : GraceHit(h)} : succ[p] \in {h \in Hash : rt[h] > 0}'}
    BY <1>3, <1>4, Zenon
<1> QED
    BY <1>1, <1>2, <1>5, Zenon DEF Tokens!Ends

\* create_session and recover_grace open a session of a lineage.
LEMMA AdditionsOpen ==
    ASSUME IInv, NEW n \in Hash, Fresh(n), NEW r \in Record,
           rec' = [rec EXCEPT ![n] = r],
           rt' = [rt EXCEPT ![n] = RefreshTtl],
           UNCHANGED <<rp, cf, succ>>
    PROVE  Tokens!Open(n, r.family)
<1> USE TtlAssumption, SentinelAssumption
<1>1. Tokens!Fresh(n)
    BY Zenon DEF Fresh, Tokens!Fresh
<1>2. [h \in Hash |-> IF rec[h] = NoRecord THEN NoRecord ELSE rec[h].family]' =
          [[h \in Hash |-> IF rec[h] = NoRecord THEN NoRecord ELSE rec[h].family]
              EXCEPT ![n] = r.family]
  <2>1. r # NoRecord
      BY Zenon
  <2>2. \A h \in Hash : rec'[h] = IF h = n THEN r ELSE rec[h]
      BY Zenon DEF IInv, TypeOK
  <2> QED
      BY ONLY <2>1, <2>2, n \in Hash, Zenon
<1>3. {h \in Hash : rt[h] > 0}' = {h \in Hash : rt[h] > 0} \cup {n}
    BY DEF IInv, TypeOK, Ttl
<1>4. \A h \in Hash : GraceHit(h)' <=> GraceHit(h)
  <2> SUFFICES ASSUME NEW h \in Hash PROVE GraceHit(h)' <=> GraceHit(h)
      BY Zenon
  <2>1. CASE rp[h] > 0
    <3>1. rec[h] # NoRecord /\ succ[h] \in Hash /\ rec[succ[h]] # NoRecord
        BY <2>1, Zenon DEF IInv, Recorded, GracePointerIndexed
    <3>2. h # n /\ succ[h] # n
        BY <3>1, Zenon DEF Fresh
    <3> QED
        BY <3>1, <3>2, Zenon DEF GraceHit, IInv, TypeOK
  <2>2. CASE ~(rp[h] > 0)
      BY <2>2, Zenon DEF GraceHit
  <2> QED
      BY <2>1, <2>2, Zenon
<1>5. {h \in Hash : GraceHit(h)}' = {h \in Hash : GraceHit(h)}
    BY <1>4, Zenon
<1> QED
    BY <1>1, <1>2, <1>3, <1>5, Zenon DEF Tokens!Open

\* refresh_rotate's live branch is an exchange: the window of the consumed
\* token opens when the pointer has a lifetime, and the windows of the tokens it
\* had replaced close.
LEMMA RotationsExchange ==
    ASSUME IInv, NEW h \in Hash, NEW n \in Hash, NEW grace \in {0, GraceTtl},
           RotateLive(h, n, grace)
    PROVE  Tokens!Exchange(h, n)
<1> USE TtlAssumption, SentinelAssumption
<1> DEFINE pointer == IF grace > 0 THEN {h} ELSE {}
           marker == IF rec[h].family = NoFamily THEN {} ELSE {h}
<1>0. rec[h] \in Record /\ rec[h] # NoRecord /\ h # n
    BY Zenon DEF RotateLive, Fresh, IInv, TypeOK, Recorded
<1>t. /\ rt \in [Hash -> Ttl] /\ rp \in [Hash -> Ttl]
      /\ succ \in [Hash -> Hash \cup {NoHash}]
    BY Zenon DEF IInv, TypeOK
<1>a. /\ rt' = [rt EXCEPT ![h] = 0, ![n] = RefreshTtl]
      /\ rp' = [rp EXCEPT ![h] = grace]
      /\ succ' = [succ EXCEPT ![h] = n]
    BY Zenon DEF RotateLive
<1>d. h \in Hash /\ n \in Hash
    BY Zenon
<1>f. /\ rt'[h] = 0 /\ rt'[n] = RefreshTtl
      /\ rp'[h] = grace
      /\ succ'[h] = n
    BY ONLY <1>0, <1>a, <1>d, <1>t, Zenon
<1>g. /\ \A g \in Hash : g # h /\ g # n => rt'[g] = rt[g]
      /\ \A g \in Hash : g # h => rp'[g] = rp[g] /\ succ'[g] = succ[g]
    BY ONLY <1>a, <1>d, <1>t, Zenon
<1>1. h \in {g \in Hash : rt[g] > 0}
    BY Zenon DEF RotateLive
<1>2. Tokens!Fresh(n)
    BY Zenon DEF RotateLive, Fresh, Tokens!Fresh
<1>3. [g \in Hash |-> IF rec[g] = NoRecord THEN NoRecord ELSE rec[g].family]' =
          [[g \in Hash |-> IF rec[g] = NoRecord THEN NoRecord ELSE rec[g].family]
              EXCEPT ![n] = [g \in Hash |-> IF rec[g] = NoRecord THEN NoRecord ELSE rec[g].family][h]]
  <2>1. \A g \in Hash : rec'[g] = IF g = n THEN rec[h] ELSE rec[g]
      BY Zenon DEF RotateLive, IInv, TypeOK
  <2> QED
      BY ONLY <1>0, <2>1, h \in Hash, n \in Hash, Zenon
<1>4. {g \in Hash : rt[g] > 0}' = ({g \in Hash : rt[g] > 0} \ {h}) \cup {n}
  <2>1. \A g \in Hash : rt'[g] > 0 <=> (rt[g] > 0 /\ g # h) \/ g = n
      BY <1>f, <1>g
  <2> QED
      BY ONLY <2>1, <1>d, Zenon
<1>5. {g \in Hash : GraceHit(g)}' =
          {p \in {g \in Hash : GraceHit(g)} : succ[p] # h} \cup pointer
  <2>1. ASSUME NEW g \in Hash, g # h
        PROVE  GraceHit(g)' <=> GraceHit(g) /\ succ[g] # h
    <3>1. rp'[g] = rp[g] /\ succ'[g] = succ[g]
        BY ONLY <1>g, <2>1, g \in Hash, Zenon
    <3>2. CASE rp[g] > 0
      <4>1. rec[g] # NoRecord /\ succ[g] \in Hash /\ rec[succ[g]] # NoRecord
          BY <3>2, Zenon DEF IInv, Recorded, GracePointerIndexed
      <4>2. g # n /\ succ[g] # n
          BY <4>1, Zenon DEF RotateLive, Fresh
      <4>3. rt'[g] = rt[g]
          BY ONLY <1>g, <2>1, <4>2, g \in Hash, Zenon
      <4>4. rt'[succ[g]] = IF succ[g] = h THEN 0 ELSE rt[succ[g]]
          BY ONLY <1>f, <1>g, <4>1, <4>2, Zenon
      <4> QED
          BY <3>1, <4>3, <4>4 DEF GraceHit
    <3>3. CASE ~(rp[g] > 0)
        BY <3>1, <3>3, Zenon DEF GraceHit
    <3> QED
        BY <3>2, <3>3, Zenon
  <2>2. ~GraceHit(h)
      BY DEF RotateLive, GraceHit
  <2>3. GraceHit(h)' <=> grace > 0
    <3>1. rt'[h] = 0 /\ rp'[h] = grace /\ succ'[h] = n /\ rt'[n] = RefreshTtl
        BY ONLY <1>f, Zenon
    <3> QED
        BY <3>1 DEF GraceHit
  <2>4. pointer \subseteq {h} /\ (h \in pointer <=> grace > 0)
      BY Zenon
  <2> HIDE DEF pointer
  <2>5. \A g \in Hash : GraceHit(g)' <=> (GraceHit(g) /\ succ[g] # h) \/ g \in pointer
      BY ONLY <2>1, <2>2, <2>3, <2>4, Zenon
  <2> QED
      BY ONLY <2>4, <2>5, <1>d, Zenon
<1>6. {g \in Hash : cf[g] > 0}' = {g \in Hash : cf[g] > 0} \cup marker
    BY DEF RotateLive, ConsumedTtl, IInv, TypeOK, Ttl
<1>7. succ' = [succ EXCEPT ![h] = n]
    BY Zenon DEF RotateLive
<1>8. pointer \in {{}, {h}} /\ marker \in {{}, {h}}
    BY Zenon
<1> HIDE DEF pointer, marker
<1>9. /\ {g \in Hash : GraceHit(g)}' \in
             {{p \in {g \in Hash : GraceHit(g)} : succ[p] # h},
              {p \in {g \in Hash : GraceHit(g)} : succ[p] # h} \cup {h}}
      /\ {g \in Hash : cf[g] > 0}' \in
             {{g \in Hash : cf[g] > 0}, {g \in Hash : cf[g] > 0} \cup {h}}
    BY ONLY <1>5, <1>6, <1>8, Zenon
<1> QED
    BY <1>1, <1>2, <1>3, <1>4, <1>7, <1>9, Zenon DEF Tokens!Exchange

\* Every step of the store is a step of the token service, or changes nothing
\* a client can tell.
LEMMA ServiceStep == IInv /\ [Next]_vars => [Tokens!ServiceNext]_(Tokens!service)
<1> SUFFICES ASSUME IInv, [Next]_vars PROVE [Tokens!ServiceNext]_(Tokens!service)
    BY Zenon
<1> USE TtlAssumption, SentinelAssumption
<1>e. Tokens!Ends => Tokens!ServiceNext
    BY Zenon DEF Tokens!ServiceNext
<1>0. CASE UNCHANGED vars
    BY <1>0, <1>e, DeletionsAreEnds, Zenon DEF vars
<1>1. CASE \E s \in Subject, h \in Hash, f \in Family \cup {NoFamily} : CreateSession(s, h, f)
  <2>1. PICK s \in Subject, h \in Hash, f \in Family \cup {NoFamily} : CreateSession(s, h, f)
      BY <1>1, Zenon
  <2>2. [subject |-> s, family |-> f] \in Record
      BY Zenon DEF Record
  <2>3. Tokens!Open(h, [subject |-> s, family |-> f].family)
      BY <2>1, <2>2, AdditionsOpen, Zenon DEF CreateSession
  <2>4. Tokens!Open(h, f)
      BY <2>3, Zenon
  <2> QED
      BY <2>4, Zenon DEF Tokens!ServiceNext
<1>2. CASE \E h, n \in Hash, grace \in {0, GraceTtl} : RotateLive(h, n, grace)
  <2>1. PICK h \in Hash, n \in Hash, grace \in {0, GraceTtl} : RotateLive(h, n, grace)
      BY <1>2, Zenon
  <2>2. Tokens!Exchange(h, n)
      BY <2>1, RotationsExchange, Zenon
  <2> QED
      BY <2>2, Zenon DEF Tokens!ServiceNext
<1>3. CASE \E h \in Hash : MoveDetail(h)
    BY <1>3, <1>e, DeletionsAreEnds, Zenon DEF MoveDetail
<1>4. CASE \E h \in Hash : SpendPointer(h)
    BY <1>4, <1>e, DeletionsAreEnds, Zenon DEF SpendPointer, IInv, TypeOK, Ttl
<1>5. CASE \E h, n \in Hash : RecoverGrace(h, n)
  <2>1. PICK h \in Hash, n \in Hash : RecoverGrace(h, n)
      BY <1>5, Zenon
  <2>2. rec[h] \in Record
      BY <2>1, Zenon DEF RecoverGrace, IInv, TypeOK
  <2>3. PICK r \in Record : r = rec[h]
      BY <2>2, Zenon
  <2>4. /\ Fresh(n)
        /\ rec' = [rec EXCEPT ![n] = r]
        /\ rt' = [rt EXCEPT ![n] = RefreshTtl]
        /\ UNCHANGED <<rp, cf, succ>>
      BY <2>1, <2>3, Zenon DEF RecoverGrace
  <2>5. Tokens!Open(n, r.family)
      BY <2>4, AdditionsOpen, Zenon
  <2>6. PICK l \in Family \cup {NoFamily} : l = r.family
      BY Zenon DEF Record
  <2>7. Tokens!Open(n, l)
      BY <2>5, <2>6, Zenon
  <2> QED
      BY <2>7, Zenon DEF Tokens!ServiceNext
<1>6. CASE \E s \in Subject, h \in Hash : RevokeSession(s, h)
    BY <1>6, <1>e, DeletionsAreEnds DEF RevokeSession, IInv, TypeOK, Ttl
<1>7. CASE \E s \in Subject : RevokeAll(s)
    BY <1>7, <1>e, DeletionsAreEnds DEF RevokeAll, IInv, TypeOK, Ttl
<1>8. CASE \E f \in Family, h \in Hash : rec[h] # NoRecord /\ rec[h].family = f
                /\ \E s \in {rec[h].subject, NoSubject} : RevokeFamily(f, s)
    BY <1>8, <1>e, DeletionsAreEnds DEF RevokeFamily, IInv, TypeOK, Ttl
<1>9. CASE \E h \in Hash : DeleteGracePointer(h)
    BY <1>9, <1>e, DeletionsAreEnds, Zenon DEF DeleteGracePointer, IInv, TypeOK, Ttl
<1>10. CASE \E s \in Subject : \E candidates \in SUBSET sess[s] : PruneDead(s, candidates)
    BY <1>10, <1>e, DeletionsAreEnds, Zenon DEF PruneDead
<1>11. CASE Tick
    BY <1>11, <1>e, DeletionsAreEnds DEF Tick, Dec, IInv, TypeOK, Ttl
<1> QED
    BY <1>0, <1>1, <1>2, <1>3, <1>4, <1>5, <1>6, <1>7, <1>8, <1>9, <1>10, <1>11, Zenon DEF Next

\* The Redis store implements the token service the clients are written against.
THEOREM TokensAreServed == Spec => ServesTokens
<1>1. Init => Tokens!ServiceInit
    BY DEF Init, GraceHit, Tokens!ServiceInit
<1> QED
    BY <1>1, Invariance, ServiceStep, PTL DEF Spec, ServesTokens, Tokens!ServiceSpec
=============================================================================
