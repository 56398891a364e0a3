---------------------------- MODULE ServiceProofs ----------------------------
(***************************************************************************)
(* Machine-checked proofs about the two services that hold an account to a *)
(* number: SessionService, its sessions to the cap, and Lockout, its       *)
(* failures to the limit; for any number of calls, attempts, sessions and  *)
(* accounts.  SessionService implements the store, so the theorems of      *)
(* SessionStoreProofs hold with its calls in flight.                       *)
(***************************************************************************)
EXTENDS MCSessionService, Lockout, SessionStoreProofs, FiniteSetTheorems

-----------------------------------------------------------------------------
(* The failure counter.  GuessBudget is not inductive: an attempt that     *)
(* passed the gate and has not counted its failure yet is a failure still  *)
(* to come, so Budget counts it with the failures already in the counter.  *)

Budget == \A i \in Id : fails[i] + Cardinality(Judging(i)) <= MaxAttempts - 1 + Cardinality(Attempt)

LockoutInv == LockoutTypeOK /\ Budget /\ LockIsAnnounced

\* The attempts in flight are some of the attempts.
LEMMA JudgingFinite ==
    ASSUME LockoutTypeOK, NEW i \in Id
    PROVE  /\ IsFiniteSet(Judging(i))
           /\ Cardinality(Judging(i)) \in Nat
           /\ Cardinality(Judging(i)) <= Cardinality(Attempt)
           /\ Cardinality(Attempt) \in Nat
<1>1. Judging(i) \subseteq Attempt
  BY Zenon DEF Judging
<1> QED BY <1>1, LockoutAssumption, FS_Subset, FS_CardinalityType, Zenon

\* An attempt that leaves the judging stage frees its place in the budget, and
\* touches no other identifier's.
LEMMA Leaves ==
    ASSUME LockoutTypeOK, LockoutTypeOK', NEW a \in Attempt, step[a] = "judging",
           NEW p, p # "judging", Advance(a, p), ident' = ident
    PROVE  /\ Cardinality(Judging(ident[a]))' = Cardinality(Judging(ident[a])) - 1
           /\ \A i \in Id : i # ident[a] => Judging(i)' = Judging(i)
<1>1. Judging(ident[a])' = Judging(ident[a]) \ {a}
  BY Zenon DEF Judging, Advance, LockoutTypeOK
<1>2. a \in Judging(ident[a]) /\ ident[a] \in Id
  BY Zenon DEF Judging, LockoutTypeOK
<1>3. Cardinality(Judging(ident[a])) - 1 = Cardinality(Judging(ident[a]) \ {a})
  BY <1>2, JudgingFinite, FS_RemoveElement, Zenon
<1>4. ASSUME NEW i \in Id, i # ident[a] PROVE Judging(i)' = Judging(i)
  BY <1>4, Zenon DEF Judging, Advance, LockoutTypeOK
<1> QED BY <1>1, <1>3, <1>4, Zenon

\* Init establishes the invariant.
LEMMA InitIInv == LockoutInit => LockoutInv
<1> SUFFICES ASSUME LockoutInit PROVE LockoutInv
  BY Zenon
<1>1. LockoutTypeOK
  BY LockoutAssumption DEF LockoutInit, LockoutTypeOK
<1>2. Budget
  <2>1. ASSUME NEW i \in Id PROVE Judging(i) = {}
    BY Zenon DEF LockoutInit, Judging
  <2>2. Cardinality(Attempt) \in Nat
    BY LockoutAssumption, FS_CardinalityType, Zenon
  <2>3. ASSUME NEW i \in Id
        PROVE  fails[i] + Cardinality(Judging(i)) <= MaxAttempts - 1 + Cardinality(Attempt)
    <3>1. fails[i] = 0 /\ Cardinality(Judging(i)) = 0
      BY <2>1, FS_EmptySet, Zenon DEF LockoutInit
    <3> QED BY <2>2, <3>1, LockoutAssumption
  <2> QED BY <2>3, Zenon DEF Budget
<1>3. LockIsAnnounced
  BY LockoutAssumption DEF LockoutInit, LockIsAnnounced, Locked
<1> QED BY <1>1, <1>2, <1>3, Zenon DEF LockoutInv

\* The types are kept by every step.
LEMMA TypeStep == LockoutTypeOK /\ [LockoutNext]_lockoutVars => LockoutTypeOK'
<1> SUFFICES ASSUME LockoutTypeOK, [LockoutNext]_lockoutVars PROVE LockoutTypeOK'
  BY Zenon
<1> USE LockoutAssumption DEF LockoutTypeOK
<1>1. ASSUME NEW a \in Attempt, NEW i \in Id, Enter(a, i) PROVE LockoutTypeOK'
  BY <1>1, Zenon DEF Enter, Advance
<1>2. ASSUME NEW a \in Attempt, Reject(a) PROVE LockoutTypeOK'
  BY <1>2 DEF Reject, Advance, Increment
<1>3. ASSUME NEW a \in Attempt, Announce(a) \/ AnnounceFails(a) \/ TurnAway(a) PROVE LockoutTypeOK'
  BY <1>3, Zenon DEF Announce, AnnounceFails, TurnAway, Advance
<1>4. ASSUME NEW a \in Attempt, Accept(a) PROVE LockoutTypeOK'
  BY <1>4 DEF Accept, Advance, Clear
<1>5. ASSUME NEW i \in Id, Unlock(i) PROVE LockoutTypeOK'
  BY <1>5 DEF Unlock, Clear
<1>6. CASE LockoutTick
  BY <1>6 DEF LockoutTick
<1>7. CASE UNCHANGED lockoutVars
  BY <1>7, Zenon DEF lockoutVars
<1> QED BY <1>1, <1>2, <1>3, <1>4, <1>5, <1>6, <1>7, Zenon DEF LockoutNext

\* So is the budget.
LEMMA BudgetStep == LockoutTypeOK /\ LockoutTypeOK' /\ Budget /\ [LockoutNext]_lockoutVars => Budget'
<1> SUFFICES ASSUME LockoutTypeOK, LockoutTypeOK', Budget, [LockoutNext]_lockoutVars, NEW j \in Id
             PROVE  (fails[j] + Cardinality(Judging(j)) <= MaxAttempts - 1 + Cardinality(Attempt))'
  BY Zenon DEF Budget
<1> USE LockoutAssumption
<1>0. /\ fails[j] + Cardinality(Judging(j)) <= MaxAttempts - 1 + Cardinality(Attempt)
      /\ fails[j] \in Nat /\ fails'[j] \in Nat
      /\ Cardinality(Judging(j)) \in Nat
      /\ Cardinality(Judging(j))' \in Nat
      /\ Cardinality(Judging(j))' <= Cardinality(Attempt)
      /\ Cardinality(Attempt) \in Nat
  <2>1. Judging(j)' \subseteq Attempt
    BY Zenon DEF Judging
  <2>2. /\ Cardinality(Judging(j))' \in Nat
        /\ Cardinality(Judging(j))' <= Cardinality(Attempt)
    BY <2>1, FS_Subset, FS_CardinalityType, Zenon
  <2> QED BY <2>2, JudgingFinite, Zenon DEF Budget, LockoutTypeOK
<1>1. ASSUME NEW a \in Attempt, NEW i \in Id, Enter(a, i)
      PROVE  fails'[j] + Cardinality(Judging(j))' <= MaxAttempts - 1 + Cardinality(Attempt)
  <2>1. CASE i = j
    BY <1>0, <1>1, <2>1 DEF Enter, Locked
  <2>2. CASE i # j
    <3>1. Judging(j)' = Judging(j)
      BY <1>1, <2>2, Zenon DEF Enter, Advance, Judging, LockoutTypeOK
    <3> QED BY <1>0, <1>1, <3>1, Zenon DEF Enter
  <2> QED BY <2>1, <2>2, Zenon
<1>2. ASSUME NEW a \in Attempt, Reject(a)
      PROVE  fails'[j] + Cardinality(Judging(j))' <= MaxAttempts - 1 + Cardinality(Attempt)
  <2> DEFINE p == IF ident[a] \in LoginId THEN "reading" ELSE "idle"
  <2>1. step[a] = "judging" /\ Advance(a, p) /\ ident' = ident /\ Increment(ident[a])
    BY <1>2, Zenon DEF Reject
  <2>2. p # "judging"
    BY Zenon
  <2> HIDE DEF p
  <2>3. /\ Cardinality(Judging(ident[a]))' = Cardinality(Judging(ident[a])) - 1
        /\ \A i \in Id : i # ident[a] => Judging(i)' = Judging(i)
    BY <2>1, <2>2, Leaves, Zenon
  <2>4. CASE ident[a] = j
    <3>1. fails'[j] = fails[j] + 1
      BY <2>1, <2>4, Zenon DEF Increment, LockoutTypeOK
    <3>2. Cardinality(Judging(j))' = Cardinality(Judging(j)) - 1
      BY <2>1, <2>3, <2>4, Zenon DEF Judging
    <3> QED BY <1>0, <3>1, <3>2
  <2>5. CASE ident[a] # j
    <3>1. fails'[j] = fails[j]
      BY <2>1, <2>5, Zenon DEF Increment, LockoutTypeOK
    <3> QED BY <1>0, <2>3, <2>5, <3>1, Zenon
  <2> QED BY <2>4, <2>5, Zenon
<1>3. ASSUME NEW a \in Attempt, Accept(a) \/ TurnAway(a)
      PROVE  fails'[j] + Cardinality(Judging(j))' <= MaxAttempts - 1 + Cardinality(Attempt)
  <2>1. fails'[j] <= fails[j]
    BY <1>3 DEF Accept, TurnAway, Clear, LockoutTypeOK
  <2>2. Judging(j)' \subseteq Judging(j)
    BY <1>3, Zenon DEF Accept, TurnAway, Advance, Judging, LockoutTypeOK
  <2>3. Cardinality(Judging(j))' <= Cardinality(Judging(j))
    BY <2>2, JudgingFinite, FS_Subset, Zenon
  <2> QED BY <1>0, <2>1, <2>3
<1>4. ASSUME NEW a \in Attempt, Announce(a) \/ AnnounceFails(a)
      PROVE  fails'[j] + Cardinality(Judging(j))' <= MaxAttempts - 1 + Cardinality(Attempt)
  <2>1. Judging(j)' = Judging(j)
    BY <1>4, Zenon DEF Announce, AnnounceFails, Advance, Judging, LockoutTypeOK
  <2> QED BY <1>0, <1>4, <2>1, Zenon DEF Announce, AnnounceFails
<1>5. ASSUME NEW i \in Id, Unlock(i)
      PROVE  fails'[j] + Cardinality(Judging(j))' <= MaxAttempts - 1 + Cardinality(Attempt)
  <2>1. Judging(j)' = Judging(j) /\ fails'[j] <= fails[j]
    BY <1>5 DEF Unlock, Clear, Judging, LockoutTypeOK
  <2> QED BY <1>0, <2>1
<1>6. ASSUME LockoutTick
      PROVE  fails'[j] + Cardinality(Judging(j))' <= MaxAttempts - 1 + Cardinality(Attempt)
  <2>1. Judging(j)' = Judging(j) /\ fails'[j] <= fails[j]
    BY <1>6 DEF LockoutTick, Judging, LockoutTypeOK
  <2> QED BY <1>0, <2>1
<1>7. ASSUME UNCHANGED lockoutVars
      PROVE  fails'[j] + Cardinality(Judging(j))' <= MaxAttempts - 1 + Cardinality(Attempt)
  BY <1>0, <1>7, Zenon DEF lockoutVars, Judging
<1> QED BY <1>1, <1>2, <1>3, <1>4, <1>5, <1>6, <1>7, Zenon DEF LockoutNext

\* And every lock stays announced, or about to be.
LEMMA AnnouncedStep == LockoutTypeOK /\ LockIsAnnounced /\ [LockoutNext]_lockoutVars => LockIsAnnounced'
<1> SUFFICES ASSUME LockoutTypeOK, LockIsAnnounced, [LockoutNext]_lockoutVars, NEW j \in LoginId, Locked(j)'
             PROVE  \/ j \in announced' \cup silent'
                    \/ \E b \in Attempt : step'[b] = "reading" /\ ident'[b] = j
  BY Zenon DEF LockIsAnnounced
<1> DEFINE Goal == \/ j \in announced' \cup silent'
                   \/ \E b \in Attempt : step'[b] = "reading" /\ ident'[b] = j
<1> USE LockoutAssumption DEF LockoutTypeOK
<1>0. j \in Id
  BY Zenon
<1>1. ASSUME NEW a \in Attempt, NEW i \in Id, Enter(a, i) PROVE Goal
  BY <1>0, <1>1, Zenon DEF Enter, Advance, LockIsAnnounced, Locked
<1>2. ASSUME NEW a \in Attempt, Reject(a) PROVE Goal
  <2>1. CASE ident[a] = j
    <3>1. step'[a] = "reading" /\ ident'[a] = j
      BY <1>0, <1>2, <2>1, Zenon DEF Reject, Advance
    <3> QED BY <3>1, Zenon
  <2>2. CASE ident[a] # j
    <3>1. fails'[j] = fails[j]
      BY <1>0, <1>2, <2>2, Zenon DEF Reject, Increment
    <3>2. Locked(j)
      BY <3>1, Zenon DEF Locked
    <3>3. CASE j \in announced \cup silent
      BY <1>2, <3>3, Zenon DEF Reject
    <3>4. ASSUME NEW b \in Attempt, step[b] = "reading", ident[b] = j PROVE Goal
      <4>1. step'[b] = "reading" /\ ident'[b] = j
        BY <1>2, <3>4, Zenon DEF Reject, Advance
      <4> QED BY <4>1, Zenon
    <3> QED BY <3>2, <3>3, <3>4, Zenon DEF LockIsAnnounced
  <2> QED BY <2>1, <2>2, Zenon
<1>3. ASSUME NEW a \in Attempt, Announce(a) \/ AnnounceFails(a) PROVE Goal
  <2>1. Locked(j)
    BY <1>3, Zenon DEF Announce, AnnounceFails, Locked
  <2>2. CASE j \in announced \cup silent
    BY <1>3, <2>2, Zenon DEF Announce, AnnounceFails
  <2>3. ASSUME NEW b \in Attempt, step[b] = "reading", ident[b] = j PROVE Goal
    <3>1. CASE b = a
      BY <1>3, <2>1, <2>3, <3>1, Zenon DEF Announce, AnnounceFails
    <3>2. CASE b # a
      <4>1. step'[b] = "reading" /\ ident'[b] = j
        BY <1>3, <2>3, <3>2, Zenon DEF Announce, AnnounceFails, Advance
      <4> QED BY <4>1, Zenon
    <3> QED BY <3>1, <3>2, Zenon
  <2> QED BY <2>1, <2>2, <2>3, Zenon DEF LockIsAnnounced
<1>4. ASSUME NEW a \in Attempt, Accept(a) \/ TurnAway(a) PROVE Goal
  <2>1. Locked(j) /\ (Accept(a) => ident[a] # j)
    BY <1>0, <1>4 DEF Accept, TurnAway, Clear, Locked
  <2>2. CASE j \in announced \cup silent
    BY <1>4, <2>1, <2>2, Zenon DEF Accept, TurnAway, Clear
  <2>3. ASSUME NEW b \in Attempt, step[b] = "reading", ident[b] = j PROVE Goal
    <3>1. step'[b] = "reading" /\ ident'[b] = j
      BY <1>4, <2>3, Zenon DEF Accept, TurnAway, Advance
    <3> QED BY <3>1, Zenon
  <2> QED BY <2>1, <2>2, <2>3, Zenon DEF LockIsAnnounced
<1>5. ASSUME NEW i \in Id, Unlock(i) PROVE Goal
  <2>1. Locked(j) /\ i # j
    BY <1>0, <1>5 DEF Unlock, Clear, Locked
  <2> QED BY <1>5, <2>1, Zenon DEF Unlock, Clear, LockIsAnnounced
<1>6. ASSUME LockoutTick PROVE Goal
  <2>1. Locked(j) /\ ttl[j] # 1
    BY <1>0, <1>6 DEF LockoutTick, Locked
  <2> QED BY <1>6, <2>1, Zenon DEF LockoutTick, LockIsAnnounced
<1>7. ASSUME UNCHANGED lockoutVars PROVE Goal
  BY <1>7, Zenon DEF lockoutVars, LockIsAnnounced, Locked
<1> QED BY <1>1, <1>2, <1>3, <1>4, <1>5, <1>6, <1>7 DEF LockoutNext

\* The inductive invariant holds in every reachable state.
THEOREM LockoutInvariance == LockoutSpec => []LockoutInv
<1>1. LockoutInv /\ [LockoutNext]_lockoutVars => LockoutInv'
  BY TypeStep, BudgetStep, AnnouncedStep, Zenon DEF LockoutInv
<1> QED BY InitIInv, <1>1, PTL DEF LockoutSpec

\* The counters and the attempts keep their types.
THEOREM LockoutTypeCorrect == LockoutSpec => []LockoutTypeOK
<1>1. LockoutInv => LockoutTypeOK
  BY Zenon DEF LockoutInv
<1> QED BY LockoutInvariance, <1>1, PTL

\* No window ever holds more failures than the limit and the other attempts in
\* flight, whatever the concurrency.
THEOREM GuessesAreBounded == LockoutSpec => []GuessBudget
<1>1. LockoutInv => GuessBudget
  <2> SUFFICES ASSUME LockoutInv, NEW i \in Id
               PROVE  fails[i] <= MaxAttempts - 1 + Cardinality(Attempt)
    BY Zenon DEF GuessBudget
  <2>1. /\ LockoutTypeOK
        /\ fails[i] + Cardinality(Judging(i)) <= MaxAttempts - 1 + Cardinality(Attempt)
    BY Zenon DEF LockoutInv, Budget
  <2>2. Cardinality(Judging(i)) \in Nat /\ Cardinality(Attempt) \in Nat /\ fails[i] \in Nat
    BY <2>1, JudgingFinite, Zenon DEF LockoutTypeOK
  <2> QED BY <2>1, <2>2, LockoutAssumption
<1> QED BY LockoutInvariance, <1>1, PTL

\* Every lock in force was announced, is about to be, or its announcement failed
\* with the store.
THEOREM LocksAreAnnounced == LockoutSpec => []LockIsAnnounced
<1>1. LockoutInv => LockIsAnnounced
  BY Zenon DEF LockoutInv
<1> QED BY LockoutInvariance, <1>1, PTL

-----------------------------------------------------------------------------
(* Listings.  A call that lists an account's sessions and revokes some of  *)
(* them accounts for every session that was live when it began             *)
(* (Accounted), because a recorded session can only end (StoreFrame).      *)

\* Where a call waits, and what for.
Phase == {"idle", "members", "details", "pointer", "revoke", "sweep", "unindex"}
Task == {"cap", "resolve", "others"}

\* The locals of every call, and that a call in progress acts for an account.
CallsTyped ==
    /\ phase \in [Call -> Phase]
    /\ task \in [Call -> Task]
    /\ account \in [Call -> Subject \cup {NoSubject}]
    /\ self \in [Call -> Hash \cup {NoHash}]
    /\ unread \in [Call -> SUBSET Hash]
    /\ listed \in [Call -> SUBSET Hash]
    /\ bare \in [Call -> SUBSET Hash]
    /\ points \in [Call -> SUBSET Hash]
    /\ victims \in [Call -> SUBSET Hash]
    /\ target \in [Call -> SUBSET Hash]
    /\ \A c \in Call : phase[c] # "idle" => account[c] \in Subject

\* No call has started.
LEMMA CallsTypedInit == ServiceInit => CallsTyped
    BY DEF ServiceInit, CallsTyped, Phase, Task

\* Entering a phase with fresh locals.
LEMMA SetTyped ==
    ASSUME CallsTyped, NEW c \in Call, NEW p \in Phase, NEW what \in Task,
           NEW s \in Subject \cup {NoSubject}, NEW h \in Hash \cup {NoHash},
           p # "idle" => s \in Subject,
           Set(c, p, what, s, h)
    PROVE  CallsTyped'
    BY DEF CallsTyped, Set, Goto

\* A step of one call that keeps its account.
LEMMA LocalTyped ==
    ASSUME CallsTyped, NEW c \in Call, NEW p \in Phase,
           phase[c] # "idle", phase' = [phase EXCEPT ![c] = p],
           account' = account, self' = self,
           task' \in [Call -> Task],
           unread' \in [Call -> SUBSET Hash], listed' \in [Call -> SUBSET Hash],
           bare' \in [Call -> SUBSET Hash], points' \in [Call -> SUBSET Hash],
           victims' \in [Call -> SUBSET Hash], target' \in [Call -> SUBSET Hash]
    PROVE  CallsTyped'
    BY Zenon DEF CallsTyped

\* A step that leaves every call alone.
LEMMA CallsTypedFrame ==
    ASSUME CallsTyped, UNCHANGED <<callVars, target>>
    PROVE  CallsTyped'
    BY Zenon DEF CallsTyped, callVars

\* Every step keeps the locals typed.
LEMMA CallsTypedNext == CallsTyped /\ [ServiceNext]_serviceVars => CallsTyped'
<1> SUFFICES ASSUME CallsTyped, [ServiceNext]_serviceVars PROVE CallsTyped'
    BY Zenon
<1>0. CASE UNCHANGED serviceVars
    BY <1>0, CallsTypedFrame, Zenon DEF serviceVars
<1>1. ASSUME NEW c \in Call, CapNext(c) PROVE CallsTyped'
  <2>1. ASSUME NEW s \in Subject, NEW h \in Hash, NEW f \in Family, Login(c, s, h, f)
        PROVE  CallsTyped'
      BY <2>1, SetTyped DEF Login, Start, Phase, Task
  <2>2. CASE ListMembers(c)
      BY <2>2, LocalTyped, Zenon DEF ListMembers, At, Goto, Phase, CallsTyped, LiveMembers, PointerMembers, Live
  <2>3. ASSUME NEW h \in Hash, ReadDetail(c, h) PROVE CallsTyped'
      BY <2>3 DEF ReadDetail, CallsTyped
  <2>4. CASE ChooseVictims(c)
    <3>1. PICK v \in EvictChoices(c) : victims' = [victims EXCEPT ![c] = v]
        BY <2>4, Zenon DEF ChooseVictims
    <3>2. v \subseteq Hash
        BY <3>1 DEF EvictChoices, Entries, CallsTyped
    <3> QED
        BY <2>4, <3>1, <3>2, LocalTyped, Zenon DEF ChooseVictims, ListingPrune, At, Goto, Phase, CallsTyped
  <2>5. ASSUME NEW v \in Hash, RevokeVictim(c, v) PROVE CallsTyped'
      BY <2>5 DEF RevokeVictim, CallsTyped
  <2>6. CASE Enforced(c)
      BY <2>6, SetTyped DEF Enforced, Return, Phase, Task
  <2> QED
      BY <1>1, <2>1, <2>2, <2>3, <2>4, <2>5, <2>6, Zenon DEF CapNext
<1>2. ASSUME NEW c \in Call, OthersNext(c) PROVE CallsTyped'
  <2>1. ASSUME NEW s \in Subject, NEW h \in Hash, RevokeAllExceptCurrent(c, s, h)
        PROVE  CallsTyped'
      BY <2>1, SetTyped DEF RevokeAllExceptCurrent, Start, Phase, Task
  <2>2. CASE Resolve(c)
    <3>1. Entries(c) \subseteq Hash
        BY Zenon DEF Entries, CallsTyped
    <3>2. task' \in [Call -> Task] /\ \E p \in Phase : phase' = [phase EXCEPT ![c] = p]
        BY <2>2 DEF Resolve, Goto, Phase, Task, CallsTyped
    <3> QED
        BY <2>2, <3>1, <3>2, LocalTyped DEF Resolve, ListingPrune, At, CallsTyped
  <2>3. CASE ResolvePointer(c)
    <3>1. CASE rp[self[c]] > 0 /\ succ[self[c]] \in listed[c]
      <4>1. account[c] \in Subject /\ succ[self[c]] \in Hash
          BY <2>3, <3>1 DEF ResolvePointer, At, CallsTyped
      <4> QED
          BY <2>3, <3>1, <4>1, SetTyped DEF ResolvePointer, Phase, Task
    <3>2. CASE ~(rp[self[c]] > 0 /\ succ[self[c]] \in listed[c])
        BY <2>3, <3>2, SetTyped DEF ResolvePointer, Return, Phase, Task
    <3> QED
        BY <3>1, <3>2, Zenon
  <2>4. CASE ChooseOthers(c)
    <3>1. Entries(c) \subseteq Hash
        BY Zenon DEF Entries, CallsTyped
    <3> QED
        BY <2>4, <3>1, LocalTyped, Zenon DEF ChooseOthers, ListingPrune, At, Goto, Phase, CallsTyped
  <2>5. CASE OthersRevoked(c)
      BY <2>5, LocalTyped, Zenon DEF OthersRevoked, At, Goto, Phase, CallsTyped, PointerMembers
  <2>6. ASSUME NEW h \in Hash, SweepPointer(c, h) PROVE CallsTyped'
      BY <2>6, LocalTyped, Zenon DEF SweepPointer, At, Goto, Phase, CallsTyped
  <2>7. CASE UnindexPointer(c)
      BY <2>7, LocalTyped, Zenon DEF UnindexPointer, At, Goto, Phase, CallsTyped
  <2>8. CASE Swept(c)
      BY <2>8, SetTyped DEF Swept, Return, Phase, Task
  <2> QED
      BY <1>2, <2>1, <2>2, <2>3, <2>4, <2>5, <2>6, <2>7, <2>8, Zenon DEF OthersNext
<1>3. ASSUME NEW c \in Call, Fail(c) PROVE CallsTyped'
    BY <1>3, SetTyped DEF Fail, Return, Phase, Task
<1>4. ASSUME NEW c \in Call, NEW v \in Hash, EvictionFails(c, v) PROVE CallsTyped'
    BY <1>4 DEF EvictionFails, CallsTyped
<1>5. CASE RefreshStep
    BY <1>5, CallsTypedFrame, Zenon DEF RefreshStep, RefreshRotates, RefreshMoves, RefreshIsGrace,
                                        RefreshRecovers, RefreshEnds
<1>6. ASSUME NEW s \in Subject, NEW h \in Hash, Logout(s, h) PROVE CallsTyped'
    BY <1>6, CallsTypedFrame, Zenon DEF Logout
<1>7. CASE ServiceTick
    BY <1>7, CallsTypedFrame, Zenon DEF ServiceTick
<1> QED
    BY <1>0, <1>1, <1>2, <1>3, <1>4, <1>5, <1>6, <1>7, Zenon DEF ServiceNext

-----------------------------------------------------------------------------
(* Every step is a step of the store.                                      *)

\* Candidates that have left the index make no difference to a prune.
LEMMA PruneIsStore ==
    ASSUME NEW s \in Subject, NEW C, PruneDead(s, C)
    PROVE  \E candidates \in SUBSET sess[s] : PruneDead(s, candidates)
<1> DEFINE K == {m \in C : m \in sess[s]}
<1>1. sess[s] \ {m \in C : KeyGone(m)} = sess[s] \ {m \in K : KeyGone(m)}
    BY Zenon
<1>2. sess[s] \subseteq {m \in C : KeyGone(m)} <=> sess[s] \subseteq {m \in K : KeyGone(m)}
    BY Zenon
<1>3. PruneDead(s, K)
    BY <1>1, <1>2, Zenon DEF PruneDead, Unindex
<1> QED
    BY <1>3, Zenon

\* What a listing drops from the index, the store may prune.
LEMMA ListingIsStore == ASSUME CallsTyped, NEW c \in Call, ListingPrune(c) PROVE Next
<1>1. account[c] \in Subject
    BY DEF ListingPrune, At, CallsTyped
<1> QED
    BY <1>1, PruneIsStore, Zenon DEF ListingPrune, Next

\* Every step of the service is a step of the store, or leaves it alone: the one
\* fact it needs of a call is that it acts for an account.
LEMMA StoreStep == CallsTyped /\ [ServiceNext]_serviceVars => [Next]_vars
<1> SUFFICES ASSUME CallsTyped, [ServiceNext]_serviceVars PROVE [Next]_vars
    BY Zenon
<1>0. CASE UNCHANGED serviceVars
    BY <1>0, Zenon DEF serviceVars
<1>b. ASSUME NEW c \in Call, phase[c] # "idle" PROVE account[c] \in Subject
    BY <1>b, Zenon DEF CallsTyped
<1>1. ASSUME NEW c \in Call, CapNext(c) PROVE [Next]_vars
  <2>1. ASSUME NEW s \in Subject, NEW h \in Hash, NEW f \in Family, Login(c, s, h, f)
        PROVE  Next
      BY <2>1, Zenon DEF Login, Next
  <2>2. ASSUME NEW v \in Hash, RevokeVictim(c, v) PROVE [Next]_vars
    <3>1. account[c] \in Subject
        BY <1>b, <2>2 DEF RevokeVictim, At
    <3> QED
        BY <2>2, <3>1, Zenon DEF RevokeVictim, Next
  <2> QED
      BY <1>1, <2>1, <2>2, ListingIsStore, Zenon DEF CapNext, ListMembers, ReadDetail, ChooseVictims, Enforced
<1>2. ASSUME NEW c \in Call, OthersNext(c) PROVE [Next]_vars
  <2>1. ASSUME NEW h \in Hash, SweepPointer(c, h) PROVE [Next]_vars
      BY <2>1, Zenon DEF SweepPointer, Next
  <2>2. CASE UnindexPointer(c)
    <3>1. account[c] \in Subject
        BY <1>b, <2>2 DEF UnindexPointer, At
    <3> QED
        BY <2>2, <3>1, PruneIsStore, Zenon DEF UnindexPointer, Next
  <2> QED
      BY <1>2, <2>1, <2>2, ListingIsStore, Zenon
      DEF OthersNext, RevokeAllExceptCurrent, Resolve, ResolvePointer, ChooseOthers, OthersRevoked, Swept
<1>3. ASSUME NEW c \in Call, Fail(c) \/ \E v \in Hash : EvictionFails(c, v) PROVE UNCHANGED vars
    BY <1>3, Zenon DEF Fail, EvictionFails
<1>4. CASE RefreshStep
  <2>1. ASSUME NEW h \in Hash, NEW n \in Hash, RefreshRotates(h, n) PROVE Next
      BY <2>1, Zenon DEF RefreshRotates, Next
  <2>2. ASSUME NEW h \in Hash, RefreshMoves(h) \/ RefreshIsGrace(h) PROVE Next
      BY <2>2, Zenon DEF RefreshMoves, RefreshIsGrace, Next
  <2>3. ASSUME NEW h \in Hash, NEW n \in Hash, RefreshRecovers(h, n) PROVE Next
      BY <2>3, Zenon DEF RefreshRecovers, Next
  <2> QED
      BY <1>4, <2>1, <2>2, <2>3, Zenon DEF RefreshStep, RefreshEnds
<1>5. ASSUME NEW s \in Subject, NEW h \in Hash, Logout(s, h) PROVE Next
    BY <1>5, Zenon DEF Logout, Next
<1>6. CASE ServiceTick
    BY <1>6, Zenon DEF ServiceTick, Next
<1> QED
    BY <1>0, <1>1, <1>2, <1>3, <1>4, <1>5, <1>6, Zenon DEF ServiceNext

\* Listing, eviction and sign-out implement the session store, for any number of
\* calls and sessions.
THEOREM ServiceImplementsStore == ServiceSpec => ImplementsStore
<1>1. ServiceInit => Init
    BY Zenon DEF ServiceInit
<1> QED
    BY <1>1, CallsTypedInit, CallsTypedNext, StoreStep, PTL DEF ServiceSpec, ImplementsStore, Spec

\* Beside the service's own revocations the keyspace still serves tokens as
\* TokenService promises a client.
THEOREM ServiceServesTokens == ServiceSpec => ServesTokens
    BY ServiceImplementsStore, TokensAreServed, PTL DEF ImplementsStore

\* What the store's proofs keep of it holds beside the service.
LEMMA ServiceStore == ServiceSpec => [](CallsTyped /\ IInv /\ Owned)
<1>1. ServiceSpec => []CallsTyped
    BY CallsTypedInit, CallsTypedNext, PTL DEF ServiceSpec
<1> QED
    BY <1>1, ServiceImplementsStore, Ownership, PTL DEF ImplementsStore

-----------------------------------------------------------------------------
(* "Log out everywhere else".                                              *)

\* What a call knows of the sessions that were live when its listing began: they
\* are its account's; one that is still live has been listed or will be read;
\* once the victims are chosen it is one of them, or the session the call keeps;
\* and once the victims are revoked there is none.
Accounted(c) ==
    /\ \A h \in target[c] : rec[h] # NoRecord /\ rec[h].subject = account[c]
    /\ phase[c] = "details" =>
         \A h \in target[c] : rt[h] > 0 => h \in unread[c] \cup listed[c] \cup bare[c]
    /\ phase[c] = "revoke" /\ task[c] = "others" =>
         \A h \in target[c] : rt[h] > 0 => h \in victims[c] \cup {self[c]}
    /\ phase[c] \in {"sweep", "unindex"} =>
         \A h \in target[c] : rt[h] > 0 => h = self[c]

\* A call that is not stepping.
Still(d) ==
    /\ phase'[d] = phase[d] /\ task'[d] = task[d] /\ account'[d] = account[d] /\ self'[d] = self[d]
    /\ unread'[d] = unread[d] /\ listed'[d] = listed[d] /\ bare'[d] = bare[d]
    /\ victims'[d] = victims[d] /\ target'[d] = target[d]

\* A recorded session keeps its record and, once it has ended, stays ended.
Falls == \A h \in Hash : rec[h] # NoRecord => rec'[h] = rec[h] /\ (rt'[h] > 0 => rt[h] > 0)

\* StoreFrame, as the service uses it.
LEMMA LifetimesFall == IInv /\ IInv' /\ [Next]_vars => Falls
<1> SUFFICES ASSUME IInv, IInv', Frame PROVE Falls
    BY StoreFrame, Zenon
<1>1. ASSUME NEW h \in Hash PROVE rt[h] \in Nat /\ rt'[h] \in Nat
    BY DEF IInv, TypeOK, Ttl
<1>2. ASSUME NEW h \in Hash, rec[h] # NoRecord, rt'[h] > 0 PROVE rt[h] > 0
    BY <1>1, <1>2 DEF Frame
<1> QED
    BY <1>2, Zenon DEF Falls, Frame

\* A call that waits goes on accounting for its sessions: they can only end.
LEMMA StillAccounted ==
    ASSUME CallsTyped, Falls, NEW d \in Call, Accounted(d), Still(d)
    PROVE  Accounted(d)'
<1>1. target[d] \subseteq Hash
    BY Zenon DEF CallsTyped
<1>2. \A h \in target[d] : rec[h] # NoRecord /\ rec'[h] = rec[h] /\ (rt'[h] > 0 => rt[h] > 0)
    BY <1>1, Zenon DEF Accounted, Falls
<1> QED
    BY <1>2, Zenon DEF Accounted, Still

\* Entering a call, or leaving one, forgets the listing.
LEMMA SetAccounted ==
    ASSUME CallsTyped, NEW c \in Call, NEW p, NEW what, NEW s, NEW h, Set(c, p, what, s, h)
    PROVE  Accounted(c)' /\ \A d \in Call \ {c} : Still(d)
<1>1. target'[c] = {}
    BY Zenon DEF CallsTyped, Set
<1>2. Accounted(c)'
    BY <1>1, Zenon DEF Accounted
<1>3. \A d \in Call \ {c} : Still(d)
    BY Zenon DEF CallsTyped, Set, Goto, Still
<1> QED
    BY <1>2, <1>3, Zenon

\* One call steps and the others are still.
LEMMA OneSteps ==
    ASSUME CallsTyped, Falls, \A d \in Call : Accounted(d), NEW c \in Call,
           Accounted(c)', \A d \in Call \ {c} : Still(d)
    PROVE  \A d \in Call : Accounted(d)'
    BY StillAccounted, Zenon

\* The sessions a call listed stay its account's.
LEMMA TargetKept ==
    ASSUME CallsTyped, Falls, NEW c \in Call, Accounted(c), target'[c] = target[c], account'[c] = account[c]
    PROVE  \A h \in target'[c] : /\ rec'[h] # NoRecord /\ rec'[h].subject = account'[c]
                                 /\ rt'[h] > 0 => rt[h] > 0
<1>1. target[c] \subseteq Hash
    BY Zenon DEF CallsTyped
<1> QED
    BY <1>1, Zenon DEF Accounted, Falls

\* The index a listing reads names every live session of the account.
LEMMA ListMembersAccounts ==
    ASSUME CallsTyped, IInv, NEW c \in Call, ListMembers(c)
    PROVE  Accounted(c)'
<1>1. target'[c] = Live(account[c]) /\ unread'[c] = LiveMembers(account[c]) /\ phase'[c] = "details"
    BY Zenon DEF CallsTyped, ListMembers, Goto
<1>2. UNCHANGED <<rec, rt, account>>
    BY Zenon DEF ListMembers, vars
<1>3. ASSUME NEW h \in Live(account[c])
      PROVE  rec[h] # NoRecord /\ rec[h].subject = account[c] /\ h \in LiveMembers(account[c])
    BY Zenon DEF IInv, Recorded, LiveSessionIndexed, Live, LiveMembers
<1>4. ~("details" = "revoke") /\ "details" \notin {"sweep", "unindex"}
    OBVIOUS
<1> QED
    BY <1>1, <1>2, <1>3, <1>4, Zenon DEF Accounted

\* A member read is listed, with a detail or bare.
LEMMA ReadDetailAccounts ==
    ASSUME CallsTyped, Falls, NEW c \in Call, Accounted(c), NEW h \in Hash, ReadDetail(c, h)
    PROVE  Accounted(c)'
<1>1. /\ phase[c] = "details" /\ UNCHANGED <<phase, account, target, rt>>
      /\ unread'[c] = unread[c] \ {h}
      /\ listed'[c] = (IF sd[h] > 0 THEN listed[c] \cup {h} ELSE listed[c])
      /\ bare'[c] = (IF sd[h] > 0 THEN bare[c] ELSE bare[c] \cup {h})
    BY Zenon DEF CallsTyped, ReadDetail, At, vars
<1>2. unread[c] \cup listed[c] \cup bare[c] \subseteq unread'[c] \cup listed'[c] \cup bare'[c]
    BY <1>1, Zenon
<1>3. ~("details" = "revoke") /\ "details" \notin {"sweep", "unindex"}
    OBVIOUS
<1> QED
    BY <1>1, <1>2, <1>3, TargetKept, Zenon DEF Accounted

\* The victims are the entries, and an entry is any listed member still live.
LEMMA ChooseOthersAccounts ==
    ASSUME CallsTyped, Falls, NEW c \in Call, Accounted(c), ChooseOthers(c)
    PROVE  Accounted(c)'
<1>1. /\ phase[c] = "details" /\ unread[c] = {} /\ UNCHANGED <<account, target, self, rt>>
      /\ phase'[c] = "revoke" /\ victims'[c] = Entries(c) \ {self[c]}
    BY Zenon DEF CallsTyped, ChooseOthers, ListingPrune, PruneDead, At, Goto
<1>2. \A h \in target[c] : rt[h] > 0 => h \in Entries(c)
    BY <1>1, Zenon DEF Accounted, Entries
<1>3. ~("revoke" = "details") /\ "revoke" \notin {"sweep", "unindex"}
    OBVIOUS
<1> QED
    BY <1>1, <1>2, <1>3, TargetKept, Zenon DEF Accounted

\* A victim that is not in the index any more is not live.
LEMMA RevokeVictimAccounts ==
    ASSUME CallsTyped, IInv, Falls, NEW c \in Call, Accounted(c), NEW v \in Hash, RevokeVictim(c, v)
    PROVE  Accounted(c)'
<1>1. /\ phase[c] = "revoke" /\ UNCHANGED <<phase, task, account, target, self>>
      /\ victims'[c] = victims[c] \ {v}
    BY Zenon DEF CallsTyped, RevokeVictim, At
<1>2. ~("revoke" = "details") /\ "revoke" \notin {"sweep", "unindex"}
    OBVIOUS
<1>3. ASSUME v \in target[c] PROVE ~(rt'[v] > 0)
  <2>1. ~(0 > 0)
      OBVIOUS
  <2>2. CASE RtMember(v) \in sess[account[c]]
      BY <2>1, <2>2, Zenon DEF RevokeVictim, RevokeSession, IInv, TypeOK
  <2>3. CASE RtMember(v) \notin sess[account[c]]
    <3>1. rec[v].subject = account[c] /\ rt' = rt
        BY <1>3, <2>3, Zenon DEF Accounted, RevokeVictim, vars
    <3> QED
        BY <2>3, <3>1, Zenon DEF IInv, LiveSessionIndexed
  <2> QED
      BY <2>2, <2>3, Zenon
<1>4. \A h \in target[c] : rt'[h] > 0 => h # v /\ rt[h] > 0
    BY <1>1, <1>3, TargetKept, Zenon
<1> QED
    BY <1>1, <1>2, <1>4, TargetKept, Zenon DEF Accounted

\* The steps of a call after the choice, and those between its listings.
LEMMA OtherStepsAccount ==
    ASSUME CallsTyped, Falls, NEW c \in Call, Accounted(c),
           \/ ChooseVictims(c) \/ Resolve(c) \/ OthersRevoked(c) \/ UnindexPointer(c)
           \/ \E h \in Hash : SweepPointer(c, h) \/ EvictionFails(c, h)
    PROVE  Accounted(c)'
<1>0. UNCHANGED <<account, target, self>>
    BY Zenon DEF ChooseVictims, Resolve, OthersRevoked, UnindexPointer, SweepPointer, EvictionFails
<1>1. CASE ChooseVictims(c) \/ \E h \in Hash : EvictionFails(c, h)
  <2>1. phase'[c] = "revoke" /\ task'[c] = "cap"
      BY <1>1, Zenon DEF CallsTyped, ChooseVictims, EvictionFails, At, Goto
  <2>2. "revoke" # "details" /\ "cap" # "others" /\ "revoke" \notin {"sweep", "unindex"}
      OBVIOUS
  <2> QED
      BY <1>0, <2>1, <2>2, TargetKept, Zenon DEF Accounted
<1>2. CASE Resolve(c)
  <2>1. phase'[c] \in {"members", "pointer"}
      BY <1>2, Zenon DEF CallsTyped, Resolve, Goto
  <2>2. phase'[c] # "details" /\ phase'[c] # "revoke" /\ phase'[c] \notin {"sweep", "unindex"}
      BY <2>1
  <2> QED
      BY <1>0, <2>2, TargetKept, Zenon DEF Accounted
<1>3. CASE OthersRevoked(c) \/ UnindexPointer(c) \/ \E h \in Hash : SweepPointer(c, h)
  <2>1. phase'[c] \in {"sweep", "unindex"}
      BY <1>3, Zenon DEF CallsTyped, OthersRevoked, UnindexPointer, SweepPointer, Goto
  <2>2. phase'[c] # "details" /\ phase'[c] # "revoke"
      BY <2>1
  <2>3. \A h \in target[c] : rt[h] > 0 => h = self[c]
      BY <1>3, Zenon DEF Accounted, OthersRevoked, UnindexPointer, SweepPointer, At
  <2> QED
      BY <1>0, <2>2, <2>3, TargetKept, Zenon DEF Accounted
<1> QED
    BY <1>1, <1>2, <1>3, Zenon

\* No step loses account of a session that was live when a listing began.
LEMMA AccountedNext ==
    ASSUME CallsTyped, IInv, IInv', \A d \in Call : Accounted(d), [ServiceNext]_serviceVars
    PROVE  \A d \in Call : Accounted(d)'
<1>f. Falls
    BY StoreStep, LifetimesFall, Zenon
<1>s. ASSUME \A d \in Call : Still(d) PROVE \A d \in Call : Accounted(d)'
    BY <1>f, <1>s, StillAccounted, Zenon
<1>q. ASSUME UNCHANGED <<callVars, target>> PROVE \A d \in Call : Accounted(d)'
    BY <1>q, <1>s, Zenon DEF callVars, Still
<1>0. CASE UNCHANGED serviceVars
    BY <1>0, <1>q, Zenon DEF serviceVars
<1>1. ASSUME NEW c \in Call, CapNext(c) PROVE \A d \in Call : Accounted(d)'
  <2>1. ASSUME NEW s \in Subject, NEW h \in Hash, NEW f \in Family, Login(c, s, h, f)
        PROVE  \A d \in Call : Accounted(d)'
      BY <1>f, <2>1, SetAccounted, OneSteps, Zenon DEF Login, Start
  <2>2. CASE ListMembers(c)
    <3>1. \A d \in Call \ {c} : Still(d)
        BY <2>2, Zenon DEF CallsTyped, ListMembers, Goto, Still
    <3> QED
        BY <1>f, <2>2, <3>1, ListMembersAccounts, OneSteps, Zenon
  <2>3. ASSUME NEW h \in Hash, ReadDetail(c, h) PROVE \A d \in Call : Accounted(d)'
    <3>1. \A d \in Call \ {c} : Still(d)
        BY <2>3, Zenon DEF CallsTyped, ReadDetail, Still
    <3> QED
        BY <1>f, <2>3, <3>1, ReadDetailAccounts, OneSteps, Zenon
  <2>4. CASE ChooseVictims(c)
    <3>1. \A d \in Call \ {c} : Still(d)
        BY <2>4, Zenon DEF CallsTyped, ChooseVictims, Goto, Still
    <3> QED
        BY <1>f, <2>4, <3>1, OtherStepsAccount, OneSteps, Zenon
  <2>5. ASSUME NEW v \in Hash, RevokeVictim(c, v) PROVE \A d \in Call : Accounted(d)'
    <3>1. \A d \in Call \ {c} : Still(d)
        BY <2>5, Zenon DEF CallsTyped, RevokeVictim, Still
    <3> QED
        BY <1>f, <2>5, <3>1, RevokeVictimAccounts, OneSteps, Zenon
  <2>6. CASE Enforced(c)
      BY <1>f, <2>6, SetAccounted, OneSteps, Zenon DEF Enforced, Return
  <2> QED
      BY <1>1, <2>1, <2>2, <2>3, <2>4, <2>5, <2>6, Zenon DEF CapNext
<1>2. ASSUME NEW c \in Call, OthersNext(c) \/ \E v \in Hash : EvictionFails(c, v)
      PROVE  \A d \in Call : Accounted(d)'
  <2>1. CASE \/ \E s \in Subject, h \in Hash : RevokeAllExceptCurrent(c, s, h)
             \/ ResolvePointer(c) \/ Swept(c)
      BY <1>f, <2>1, SetAccounted, OneSteps, Zenon DEF RevokeAllExceptCurrent, Start, ResolvePointer, Swept, Return
  <2>2. CASE ChooseOthers(c)
    <3>1. \A d \in Call \ {c} : Still(d)
        BY <2>2, Zenon DEF CallsTyped, ChooseOthers, Goto, Still
    <3> QED
        BY <1>f, <2>2, <3>1, ChooseOthersAccounts, OneSteps, Zenon
  <2>3. CASE \/ Resolve(c) \/ OthersRevoked(c) \/ UnindexPointer(c)
             \/ \E h \in Hash : SweepPointer(c, h) \/ EvictionFails(c, h)
    <3>1. \A d \in Call \ {c} : Still(d)
      <4>1. CASE Resolve(c)
          BY <4>1, Zenon DEF CallsTyped, Resolve, Goto, Still
      <4>2. CASE OthersRevoked(c) \/ UnindexPointer(c)
          BY <4>2, Zenon DEF CallsTyped, OthersRevoked, UnindexPointer, Goto, Still
      <4>3. CASE \E h \in Hash : SweepPointer(c, h) \/ EvictionFails(c, h)
          BY <4>3, Zenon DEF CallsTyped, SweepPointer, EvictionFails, Goto, Still
      <4> QED
          BY <2>3, <4>1, <4>2, <4>3, Zenon
    <3> QED
        BY <1>f, <2>3, <3>1, OtherStepsAccount, OneSteps, Zenon
  <2> QED
      BY <1>2, <2>1, <2>2, <2>3, Zenon DEF OthersNext
<1>3. ASSUME NEW c \in Call, Fail(c) PROVE \A d \in Call : Accounted(d)'
    BY <1>f, <1>3, SetAccounted, OneSteps, Zenon DEF Fail, Return
<1>4. CASE RefreshStep
    BY <1>4, <1>q, Zenon DEF RefreshStep, RefreshRotates, RefreshMoves, RefreshIsGrace, RefreshRecovers, RefreshEnds
<1>5. CASE (\E s \in Subject, h \in Hash : Logout(s, h)) \/ ServiceTick
    BY <1>5, <1>q, Zenon DEF Logout, ServiceTick
<1> QED
    BY <1>0, <1>1, <1>2, <1>3, <1>4, <1>5, Zenon DEF ServiceNext

\* What every reachable state knows of its listings.
LEMMA ListingsAccounted == ServiceSpec => [](CallsTyped /\ IInv /\ \A d \in Call : Accounted(d))
<1>1. ServiceInit => \A d \in Call : Accounted(d)
    BY Zenon DEF ServiceInit, Accounted
<1>2. CallsTyped /\ IInv /\ IInv' /\ (\A d \in Call : Accounted(d)) /\ [ServiceNext]_serviceVars
        => (\A d \in Call : Accounted(d))'
    BY AccountedNext, Zenon
<1> QED
    BY <1>1, <1>2, ServiceStore, PTL DEF ServiceSpec

\* "Log out everywhere else" ends every session that was live when its last
\* listing began, but for the one it keeps, for any number of calls and sessions.
THEOREM ListedSessionsAreEnded == ServiceSpec => ListedSessionsEnded
<1> DEFINE Ended == \A c \in Call : Swept(c) => \A h \in target[c] \ {self[c]} : rt[h] = 0
<1>1. CallsTyped /\ IInv /\ (\A d \in Call : Accounted(d)) => Ended
  <2> SUFFICES ASSUME CallsTyped, IInv, \A d \in Call : Accounted(d), NEW c \in Call, Swept(c),
                      NEW h \in target[c], h # self[c]
               PROVE  rt[h] = 0
      BY Zenon
  <2>1. ~(rt[h] > 0) /\ h \in Hash
      BY Zenon DEF Swept, At, Accounted, CallsTyped
  <2> QED
      BY <2>1 DEF IInv, TypeOK, Ttl
<1>2. ServiceSpec => [][Ended]_serviceVars
    BY <1>1, ListingsAccounted, PTL
<1> QED
    BY <1>2, Zenon DEF ListedSessionsEnded

-----------------------------------------------------------------------------
(* The session cap, when nothing but logins runs.  An account over its cap *)
(* is always covered by a login that will still bring it within (Covers).  *)

\* The hashes a session was ever written under.
Known == {h \in Hash : rec[h] # NoRecord}

\* A call that will bring the account within its cap: it has still to list, or
\* what it is listing holds every live session, or what its victims leave fits.
Covers(c, s) ==
    /\ account[c] = s
    /\ \/ phase[c] = "members"
       \/ phase[c] = "details" /\ Live(s) \subseteq unread[c] \cup listed[c] \cup bare[c]
       \/ phase[c] = "revoke" /\ Cardinality(Live(s) \ victims[c]) <= Cap

\* The account has no more live sessions than its cap.
WithinCap(s) == Cardinality(Live(s)) <= Cap

\* An account is within its cap, or a login in flight sees to it.
CapInv ==
    /\ IsFiniteSet(Known)
    /\ \A c \in Call : task[c] = "cap" /\ unread[c] \cup listed[c] \cup bare[c] \subseteq Known
    /\ \A s \in Subject : WithinCap(s) \/ \E c \in Call : Covers(c, s)

\* The live sessions are among the finitely many ever written, so their number
\* is a number, whether or not Hash is finite.
LEMMA LiveIsFinite ==
    ASSUME IInv, IsFiniteSet(Known), NEW s
    PROVE  /\ Live(s) \subseteq Known
           /\ \A T \in SUBSET Live(s) : IsFiniteSet(T) /\ Cardinality(T) \in Nat
<1>1. Live(s) \subseteq Known
    BY Zenon DEF IInv, Recorded, Live, Known
<1>2. ASSUME NEW T \in SUBSET Live(s) PROVE IsFiniteSet(T) /\ Cardinality(T) \in Nat
  <2>1. T \in SUBSET Known
      BY <1>1, Zenon
  <2> QED
      BY <2>1, FS_Subset, FS_CardinalityType, Zenon
<1> QED
    BY <1>1, <1>2, Zenon

\* A resolved cap of 0 is taken as 1.
LEMMA CapIsNat == Cap \in Nat /\ 1 <= Cap
    BY LimitAssumption DEF Cap

\* Fewer sessions fit where more did.
LEMMA FewerFit ==
    ASSUME NEW S, NEW T \in SUBSET S, IsFiniteSet(S), Cardinality(S) <= Cap
    PROVE  Cardinality(T) <= Cap
<1>1. Cardinality(T) <= Cardinality(S) /\ Cardinality(S) \in Nat /\ Cardinality(T) \in Nat
    BY FS_Subset, FS_CardinalityType, Zenon
<1> QED
    BY <1>1, CapIsNat

\* While the sessions of an account only end, whoever covers it still does.
LEMMA StillCovered ==
    ASSUME IInv, CapInv, NEW s \in Subject, Live(s)' \subseteq Live(s)
    PROVE  /\ WithinCap(s) => WithinCap(s)'
           /\ \A d \in Call : Covers(d, s) /\ Still(d) => Covers(d, s)'
<1>1. \A T \in SUBSET Live(s) : IsFiniteSet(T)
    BY LiveIsFinite, Zenon DEF CapInv
<1>2. WithinCap(s) => WithinCap(s)'
    BY <1>1, FewerFit, Zenon DEF WithinCap
<1>3. ASSUME NEW d \in Call, Covers(d, s), Still(d) PROVE Covers(d, s)'
  <2>1. ASSUME Cardinality(Live(s) \ victims[d]) <= Cap PROVE Cardinality(Live(s)' \ victims'[d]) <= Cap
    <3>1. Live(s) \ victims[d] \in SUBSET Live(s) /\ Live(s)' \ victims'[d] \in SUBSET (Live(s) \ victims[d])
        BY <1>3, Zenon DEF Still
    <3> QED
        BY <1>1, <2>1, <3>1, FewerFit, Zenon
  <2> QED
      BY <1>3, <2>1, Zenon DEF Covers, Still
<1> QED
    BY <1>2, <1>3, Zenon

\* A listing that holds every live session leaves no more than the cap.
LEMMA EvictionFits ==
    ASSUME CallsTyped, NEW c \in Call, NEW S, S \subseteq Entries(c), IsFiniteSet(Entries(c)),
           NEW v \in EvictChoices(c)
    PROVE  Cardinality(S \ v) <= Cap
<1> DEFINE E == Entries(c)
           O == E \ {self[c]}
           n == Cardinality(E)
           o == Cardinality(O)
<1>1. v \in SUBSET O /\ Cardinality(v) = (IF Over(n) < o THEN Over(n) ELSE o)
    BY Zenon DEF EvictChoices
<1>2. /\ n \in Nat /\ o \in Nat /\ IsFiniteSet(O) /\ IsFiniteSet(v) /\ Cardinality(v) \in Nat
      /\ IsFiniteSet(E \ v) /\ Cardinality(E \ v) = n - Cardinality(E \cap v) /\ E \cap v = v
      /\ n <= o + 1
  <2>1. IsFiniteSet(O) /\ o = (IF self[c] \in E THEN n - 1 ELSE n)
      BY FS_RemoveElement, Zenon
  <2>2. IsFiniteSet(v)
      BY <1>1, <2>1, FS_Subset, Zenon
  <2>3. n \in Nat /\ o \in Nat /\ Cardinality(v) \in Nat
      BY <2>1, <2>2, FS_CardinalityType, Zenon
  <2>4. IsFiniteSet(E \ v) /\ Cardinality(E \ v) = n - Cardinality(E \cap v)
      BY FS_Difference, Zenon
  <2>5. E \cap v = v
      BY <1>1, Zenon
  <2>6. n <= o + 1
      BY <2>1, <2>3
  <2> QED
      BY <2>1, <2>2, <2>3, <2>4, <2>5, <2>6, Zenon
<1> HIDE DEF E, O, n, o
<1>3. Cardinality(E \ v) <= Cap
    BY <1>1, <1>2, CapIsNat DEF Over
<1>4. S \ v \in SUBSET (E \ v)
    BY Zenon DEF E
<1> QED
    BY <1>2, <1>3, <1>4, FewerFit, Zenon

\* Where no session is written, the sessions of an account only end.
LEMMA SessionsOnlyEnd ==
    ASSUME IInv', Falls, rec' = rec
    PROVE  Known' = Known /\ \A s \in Subject : Live(s)' \subseteq Live(s)
<1>1. Known' = Known
    BY Zenon DEF Known
<1>2. ASSUME NEW s \in Subject, NEW h \in Hash, rt'[h] > 0, rec'[h].subject = s
      PROVE  rt[h] > 0 /\ rec[h].subject = s
    BY <1>2, Zenon DEF IInv, Recorded, Falls
<1> QED
    BY <1>1, <1>2, Zenon DEF Live

\* A step of one login that writes no session: whom it covered it still covers,
\* or the account is within its cap.
LEMMA CapSteps ==
    ASSUME IInv, IInv', CapInv, Falls, rec' = rec, NEW c \in Call,
           \A d \in Call \ {c} : Still(d), task'[c] = "cap",
           unread'[c] \cup listed'[c] \cup bare'[c] \subseteq Known,
           \A s \in Subject : Covers(c, s) => Covers(c, s)' \/ WithinCap(s)'
    PROVE  CapInv'
<1>1. Known' = Known /\ \A s \in Subject : Live(s)' \subseteq Live(s)
    BY SessionsOnlyEnd, Zenon
<1>2. ASSUME NEW d \in Call
      PROVE  task'[d] = "cap" /\ unread'[d] \cup listed'[d] \cup bare'[d] \subseteq Known
    BY Zenon DEF CapInv, Still
<1>3. ASSUME NEW s \in Subject PROVE WithinCap(s)' \/ \E d \in Call : Covers(d, s)'
    BY <1>1, StillCovered, Zenon DEF CapInv
<1> QED
    BY <1>1, <1>2, <1>3, Zenon DEF CapInv

\* No login steps, and no session is written.
LEMMA CapRests ==
    ASSUME IInv, IInv', CapInv, Falls, rec' = rec, UNCHANGED <<callVars, target>>
    PROVE  CapInv'
<1>0. UNCHANGED <<phase, task, account, self, unread, listed, bare, victims, target>>
    BY Zenon DEF callVars
<1>1. Known' = Known /\ \A s \in Subject : Live(s)' \subseteq Live(s)
    BY SessionsOnlyEnd, Zenon
<1>2. \A d \in Call : Still(d)
    BY <1>0, Zenon DEF Still
<1>3. ASSUME NEW s \in Subject PROVE WithinCap(s)' \/ \E d \in Call : Covers(d, s)'
    BY <1>1, <1>2, StillCovered, Zenon DEF CapInv
<1> QED
    BY <1>0, <1>1, <1>3, Zenon DEF CapInv

\* A login covers the account it wrote a session for.
LEMMA LoginCovers ==
    ASSUME CallsTyped, IInv, CapInv, NEW c \in Call, NEW t \in Subject, NEW h \in Hash, NEW f \in Family,
           Login(c, t, h, f)
    PROVE  CapInv'
<1>1. /\ phase[c] = "idle" /\ phase'[c] = "members" /\ task'[c] = "cap" /\ account'[c] = t
      /\ unread'[c] = {} /\ listed'[c] = {} /\ bare'[c] = {}
    BY Zenon DEF Login, Start, Set, At, Goto, CallsTyped
<1>2. \A d \in Call \ {c} : Still(d)
    BY SetAccounted, Zenon DEF Login, Start
<1>3. /\ rec[h] = NoRecord /\ rec'[h].subject = t /\ \A g \in Hash \ {h} : rec'[g] = rec[g] /\ rt'[g] = rt[g]
  <2>1. rec' = [rec EXCEPT ![h] = [subject |-> t, family |-> f]] /\ rt' = [rt EXCEPT ![h] = RefreshTtl]
      BY Zenon DEF Login, CreateSession
  <2>2. rec[h] = NoRecord
      BY Zenon DEF Login, CreateSession, Fresh
  <2>3. rec'[h] = [subject |-> t, family |-> f] /\ \A g \in Hash \ {h} : rec'[g] = rec[g] /\ rt'[g] = rt[g]
      BY <2>1, Zenon DEF IInv, TypeOK
  <2>4. rec'[h].subject = t
      BY <2>3
  <2> QED
      BY <2>2, <2>3, <2>4, Zenon
<1>4. Known \subseteq Known' /\ Known' \subseteq Known \cup {h}
    BY <1>3, Zenon DEF Known
<1>5. IsFiniteSet(Known')
  <2>1. IsFiniteSet(Known \cup {h})
      BY FS_AddElement, Zenon DEF CapInv
  <2> QED
      BY <1>4, <2>1, FS_Subset, Zenon
<1>6. ASSUME NEW d \in Call
      PROVE  task'[d] = "cap" /\ unread'[d] \cup listed'[d] \cup bare'[d] \subseteq Known'
    BY <1>1, <1>2, <1>4, Zenon DEF CapInv, Still
<1>7. ASSUME NEW s \in Subject PROVE WithinCap(s)' \/ \E d \in Call : Covers(d, s)'
  <2>1. CASE s = t
      BY <1>1, <2>1, Zenon DEF Covers
  <2>2. CASE s # t
    <3>1. Live(s)' \subseteq Live(s)
        BY <1>3, <2>2, Zenon DEF Live
    <3>2. ~Covers(c, s)
      <4>1. "idle" # "members" /\ "idle" # "details" /\ "idle" # "revoke"
          OBVIOUS
      <4> QED
          BY <1>1, <4>1, Zenon DEF Covers
    <3> QED
        BY <1>2, <3>1, <3>2, StillCovered, Zenon DEF CapInv
  <2> QED
      BY <2>1, <2>2, Zenon
<1> QED
    BY <1>5, <1>6, <1>7, Zenon DEF CapInv

\* The index a login lists names every live session of the account.
LEMMA ListMembersCovers ==
    ASSUME CallsTyped, IInv, IInv', Owned, CapInv, Falls, NEW c \in Call, ListMembers(c)
    PROVE  CapInv'
<1>1. /\ phase[c] = "members" /\ phase'[c] = "details" /\ UNCHANGED <<task, account, rec, rt>>
      /\ unread'[c] = LiveMembers(account[c]) /\ listed'[c] = {} /\ bare'[c] = {}
    BY Zenon DEF CallsTyped, ListMembers, At, Goto, vars
<1>2. \A d \in Call \ {c} : Still(d)
    BY Zenon DEF CallsTyped, ListMembers, Goto, Still
<1>3. account[c] \in Subject
  <2>1. "members" # "idle"
      OBVIOUS
  <2> QED
      BY <1>1, <2>1, Zenon DEF CallsTyped
<1>4. unread'[c] \cup listed'[c] \cup bare'[c] \subseteq Known
    BY <1>1, <1>3, Zenon DEF Owned, IndexNamesOwner, LiveMembers, Known
<1>5. ASSUME NEW s \in Subject, Covers(c, s) PROVE Covers(c, s)'
  <2>1. account[c] = s
      BY <1>5, Zenon DEF Covers
  <2>2. Live(s) \subseteq LiveMembers(s)
      BY Zenon DEF IInv, LiveSessionIndexed, Live, LiveMembers
  <2>3. Live(s)' = Live(s)
      BY <1>1, Zenon DEF Live
  <2> QED
      BY <1>1, <2>1, <2>2, <2>3, Zenon DEF Covers
<1> QED
    BY <1>1, <1>2, <1>4, <1>5, CapSteps, Zenon DEF CapInv

\* Reading a detail drops no member from the listing.
LEMMA ReadDetailCovers ==
    ASSUME CallsTyped, IInv, IInv', CapInv, Falls, NEW c \in Call, NEW h \in Hash, ReadDetail(c, h)
    PROVE  CapInv'
<1>1. /\ phase[c] = "details" /\ h \in unread[c] /\ UNCHANGED <<phase, task, account, rec, rt>>
      /\ unread'[c] = unread[c] \ {h}
      /\ listed'[c] = (IF sd[h] > 0 THEN listed[c] \cup {h} ELSE listed[c])
      /\ bare'[c] = (IF sd[h] > 0 THEN bare[c] ELSE bare[c] \cup {h})
    BY Zenon DEF CallsTyped, ReadDetail, At, vars
<1>2. \A d \in Call \ {c} : Still(d)
    BY Zenon DEF CallsTyped, ReadDetail, Still
<1>3. /\ unread[c] \cup listed[c] \cup bare[c] \subseteq unread'[c] \cup listed'[c] \cup bare'[c]
      /\ unread'[c] \cup listed'[c] \cup bare'[c] \subseteq unread[c] \cup listed[c] \cup bare[c]
    BY <1>1, Zenon
<1>4. ASSUME NEW s \in Subject, Covers(c, s) PROVE Covers(c, s)'
  <2>1. Live(s)' = Live(s)
      BY <1>1, Zenon DEF Live
  <2>2. "details" # "members" /\ "details" # "revoke"
      OBVIOUS
  <2> QED
      BY <1>1, <1>3, <1>4, <2>1, <2>2, Zenon DEF Covers
<1>5. unread'[c] \cup listed'[c] \cup bare'[c] \subseteq Known /\ task'[c] = "cap"
    BY <1>1, <1>3, Zenon DEF CapInv
<1> QED
    BY <1>1, <1>2, <1>4, <1>5, CapSteps, Zenon

\* The victims of a listing that covers the account leave it within its cap.
LEMMA ChooseVictimsCovers ==
    ASSUME CallsTyped, IInv, IInv', CapInv, Falls, NEW c \in Call, ChooseVictims(c)
    PROVE  CapInv'
<1>0. PICK v \in EvictChoices(c) : victims' = [victims EXCEPT ![c] = v]
    BY Zenon DEF ChooseVictims
<1>1. /\ phase[c] = "details" /\ phase'[c] = "revoke" /\ unread[c] = {} /\ victims'[c] = v
      /\ UNCHANGED <<task, account, unread, listed, bare, rec, rt>>
    BY <1>0, Zenon DEF CallsTyped, ChooseVictims, ListingPrune, PruneDead, At, Goto
<1>2. \A d \in Call \ {c} : Still(d)
    BY Zenon DEF CallsTyped, ChooseVictims, Goto, Still
<1>3. IsFiniteSet(Entries(c))
  <2>1. Entries(c) \subseteq Known /\ IsFiniteSet(Known)
      BY Zenon DEF CapInv, Entries
  <2> QED
      BY <2>1, FS_Subset, Zenon
<1>4. ASSUME NEW s \in Subject, Covers(c, s) PROVE Covers(c, s)'
  <2>1. "details" # "members" /\ "details" # "revoke"
      OBVIOUS
  <2>2. account[c] = s /\ Live(s) \subseteq unread[c] \cup listed[c] \cup bare[c]
      BY <1>1, <1>4, <2>1, Zenon DEF Covers
  <2>3. Live(s)' = Live(s) /\ \A h \in Live(s) : rt[h] > 0
      BY <1>1, Zenon DEF Live
  <2>4. Live(s) \subseteq Entries(c)
      BY <1>1, <2>2, <2>3, Zenon DEF Entries
  <2>5. Cardinality(Live(s)' \ victims'[c]) <= Cap
      BY <1>1, <1>3, <2>3, <2>4, EvictionFits, Zenon
  <2> QED
      BY <1>1, <2>2, <2>5, Zenon DEF Covers
<1>5. unread'[c] \cup listed'[c] \cup bare'[c] \subseteq Known /\ task'[c] = "cap"
    BY <1>1, Zenon DEF CapInv
<1> QED
    BY <1>1, <1>2, <1>4, <1>5, CapSteps, Zenon

\* Revoking a victim ends it, or it had ended.
LEMMA RevokeVictimCovers ==
    ASSUME CallsTyped, IInv, IInv', CapInv, Falls, NEW c \in Call, NEW v \in Hash, RevokeVictim(c, v)
    PROVE  CapInv'
<1>1. /\ phase[c] = "revoke" /\ UNCHANGED <<phase, task, account, unread, listed, bare, rec>>
      /\ victims'[c] = victims[c] \ {v}
    BY Zenon DEF CallsTyped, RevokeVictim, RevokeSession, At, vars
<1>2. \A d \in Call \ {c} : Still(d)
    BY Zenon DEF CallsTyped, RevokeVictim, Still
<1>3. ASSUME NEW s \in Subject, Covers(c, s) PROVE Covers(c, s)'
  <2>1. "revoke" # "members" /\ "revoke" # "details"
      OBVIOUS
  <2>2. account[c] = s /\ Cardinality(Live(s) \ victims[c]) <= Cap
      BY <1>1, <1>3, <2>1, Zenon DEF Covers
  <2>3. Live(s)' \subseteq Live(s)
      BY <1>1, SessionsOnlyEnd, Zenon
  <2>4. v \notin Live(s)'
    <3>1. ~(0 > 0)
        OBVIOUS
    <3>2. CASE RtMember(v) \in sess[s]
        BY <2>2, <3>1, <3>2, Zenon DEF RevokeVictim, RevokeSession, IInv, TypeOK, Live
    <3>3. CASE RtMember(v) \notin sess[s]
      <4>1. v \notin Live(s)
          BY <3>3, Zenon DEF IInv, LiveSessionIndexed, Live
      <4> QED
          BY <2>3, <4>1, Zenon
    <3> QED
        BY <3>2, <3>3, Zenon
  <2>5. Live(s)' \ victims'[c] \in SUBSET (Live(s) \ victims[c])
      BY <1>1, <2>3, <2>4, Zenon
  <2>6. IsFiniteSet(Live(s) \ victims[c])
    <3>1. Live(s) \ victims[c] \in SUBSET Live(s)
        BY Zenon
    <3> QED
        BY <3>1, LiveIsFinite, Zenon DEF CapInv
  <2>7. Cardinality(Live(s)' \ victims'[c]) <= Cap
      BY <2>2, <2>5, <2>6, FewerFit, Zenon
  <2> QED
      BY <1>1, <2>2, <2>7, Zenon DEF Covers
<1>4. unread'[c] \cup listed'[c] \cup bare'[c] \subseteq Known /\ task'[c] = "cap"
    BY <1>1, Zenon DEF CapInv
<1> QED
    BY <1>1, <1>2, <1>3, <1>4, CapSteps, Zenon

\* When the victims are all revoked the account is within its cap.
LEMMA EnforcedSettles ==
    ASSUME CallsTyped, IInv, IInv', CapInv, Falls, NEW c \in Call, Enforced(c)
    PROVE  CapInv'
<1>1. /\ phase[c] = "revoke" /\ victims[c] = {} /\ UNCHANGED <<rec, rt>>
      /\ task'[c] = "cap" /\ unread'[c] = {} /\ listed'[c] = {} /\ bare'[c] = {}
    BY Zenon DEF CallsTyped, Enforced, Return, Set, At, vars
<1>2. \A d \in Call \ {c} : Still(d)
    BY SetAccounted, Zenon DEF Enforced, Return
<1>3. ASSUME NEW s \in Subject, Covers(c, s) PROVE WithinCap(s)'
  <2>1. "revoke" # "members" /\ "revoke" # "details"
      OBVIOUS
  <2>2. Cardinality(Live(s) \ victims[c]) <= Cap
      BY <1>1, <1>3, <2>1, Zenon DEF Covers
  <2>3. Live(s)' = Live(s) \ victims[c]
      BY <1>1, Zenon DEF Live
  <2> QED
      BY <2>2, <2>3, Zenon DEF WithinCap
<1> QED
    BY <1>1, <1>2, <1>3, CapSteps, Zenon

\* Logins are service steps.
LEMMA LoginsAreSteps == [LoginsNext]_serviceVars => [ServiceNext]_serviceVars
    BY Zenon DEF LoginsNext, ServiceNext

\* Every step of the logins keeps every account within its cap or covered.
LEMMA CapNextInv ==
    ASSUME CallsTyped, IInv, IInv', Owned, CapInv, [LoginsNext]_serviceVars
    PROVE  CapInv'
<1>f. Falls
    BY LoginsAreSteps, StoreStep, LifetimesFall, Zenon
<1>0. CASE UNCHANGED serviceVars
    BY <1>f, <1>0, CapRests, Zenon DEF serviceVars, vars
<1>1. ASSUME NEW c \in Call, CapNext(c) PROVE CapInv'
    BY <1>f, <1>1, LoginCovers, ListMembersCovers, ReadDetailCovers, ChooseVictimsCovers,
       RevokeVictimCovers, EnforcedSettles, Zenon DEF CapNext
<1>2. CASE ServiceTick
    BY <1>f, <1>2, CapRests, Zenon DEF ServiceTick, Tick
<1> QED
    BY <1>0, <1>1, <1>2, Zenon DEF LoginsNext

\* No session is written yet.
LEMMA CapInit == ServiceInit => CapInv
<1> SUFFICES ASSUME ServiceInit PROVE CapInv
    BY Zenon
<1>1. Known = {} /\ \A s : Live(s) = {}
  <2>1. ~(0 > 0)
      OBVIOUS
  <2> QED
      BY <2>1, Zenon DEF ServiceInit, Init, Known, Live
<1>2. IsFiniteSet({}) /\ Cardinality({}) = 0
    BY FS_EmptySet, Zenon
<1>3. 0 <= Cap
    BY CapIsNat
<1>4. \A c \in Call : task[c] = "cap" /\ unread[c] \cup listed[c] \cup bare[c] \subseteq Known
    BY Zenon DEF ServiceInit
<1> QED
    BY <1>1, <1>2, <1>3, <1>4, Zenon DEF CapInv, WithinCap

\* What holds between two steps of the logins.
LoginsInv == CallsTyped /\ IInv /\ Owned /\ CapInv

\* The logins' invariant is inductive.
LEMMA LoginsInvNext == LoginsInv /\ [LoginsNext]_serviceVars => LoginsInv'
<1> SUFFICES ASSUME CallsTyped, IInv, Owned, CapInv, [LoginsNext]_serviceVars PROVE LoginsInv'
    BY Zenon DEF LoginsInv
<1>1. [Next]_vars /\ CallsTyped'
    BY LoginsAreSteps, StoreStep, CallsTypedNext, Zenon
<1>2. IInv' /\ Owned'
    BY <1>1, NextInv, OwnedNext, Zenon
<1> QED
    BY <1>1, <1>2, CapNextInv, Zenon DEF LoginsInv

\* With nobody enforcing, nobody covers an account.
LEMMA CoveredOrSettled == CapInv => CapSettles
<1> SUFFICES ASSUME CapInv, Busy = {}, NEW s \in Subject PROVE Cardinality(Live(s)) <= Cap
    BY Zenon DEF CapSettles
<1>1. ASSUME NEW c \in Call PROVE ~Covers(c, s)
  <2>1. phase[c] = "idle"
      BY Zenon DEF Busy
  <2>2. "idle" # "members" /\ "idle" # "details" /\ "idle" # "revoke"
      OBVIOUS
  <2> QED
      BY <2>1, <2>2, Zenon DEF Covers
<1> QED
    BY <1>1, Zenon DEF CapInv, WithinCap

\* However many logins interleave, for however many accounts and whatever the
\* cap, once all of them have enforced it every account is within it.
THEOREM LoginsSettleWithinCap == MCSpec => []LoginsSettle
<1> DEFINE Settling == workload = "logins" => LoginsInv
<1>1. MCInit => Settling
  <2>1. ServiceInit => IInv /\ Owned
      BY InitInv, OwnedInit, Zenon DEF ServiceInit
  <2> QED
      BY <2>1, CallsTypedInit, CapInit, Zenon DEF MCInit, LoginsInv
<1>2. Settling /\ [MCNext]_<<serviceVars, workload>> => Settling'
  <2> SUFFICES ASSUME Settling, [MCNext]_<<serviceVars, workload>>, workload' = "logins" PROVE LoginsInv'
      BY Zenon
  <2>1. "logins" # "mixed"
      OBVIOUS
  <2>2. workload = "logins" /\ [LoginsNext]_serviceVars
      BY <2>1, Zenon DEF MCNext
  <2> QED
      BY <2>2, LoginsInvNext, Zenon
<1>3. Settling => LoginsSettle
    BY CoveredOrSettled, Zenon DEF LoginsInv, LoginsSettle
<1> QED
    BY <1>1, <1>2, <1>3, PTL DEF MCSpec
=============================================================================
