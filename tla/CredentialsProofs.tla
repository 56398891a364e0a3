--------------------------- MODULE CredentialsProofs ---------------------------
(***************************************************************************)
(* Machine-checked proofs about Credentials, for any number of workers,    *)
(* passwords and reset tokens, any attempt ceiling and any bounds.         *)
(*                                                                         *)
(* Each property needs a fact about what is still on its way.  A hash      *)
(* carries the number of the write that made it, and so does every copy a  *)
(* request or a token holds (Salted, Reads, Prints); a rehash about to     *)
(* write holds the stored hash or has been overtaken (Rehashing); a token  *)
(* that was consumed and not yet spent is in one request's hands alone     *)
(* (Spending); and every cooldown has paid for the guesses made, the ones  *)
(* the stored code still admits, and the code on its way (Paid).           *)
(***************************************************************************)
EXTENDS Credentials, FiniteSetTheorems, TLAPS

\* The stored hash carries the number of the last write.
Salted == IF hash = NoPhc THEN writes = 0 ELSE hash.salt = writes

\* So does every copy of it, with the number of writes when it was read.
Reads == \A r \in Req : read[r] # NoPhc => seen[r] = read[r].salt
Prints == \A p \in Proof : print[p] # NoPhc => since[p] = print[p].salt

\* A detached rehash verified a hash; between its check and its write, either
\* nothing was written and that hash is stored, or it was overtaken.
Rehashing ==
    /\ \A r \in Req : rehash[r] # "none" => verified[r] # NoPhc
    /\ \A r \in Req : rehash[r] = "writing" =>
          checked[r] <= writes /\ (checked[r] = writes => hash = verified[r])

\* A request that will write has the password to write; one with a mail to send
\* has its token, and an idle one has none.
Ready(r) ==
    /\ pc[r] \in {"bind", "reset", "settle", "change"} => pw[r] # NoPhc
    /\ pc[r] = "idle" => proof[r] = {}
    /\ pc[r] = "send" => \E p \in Proof : proof[r] = {p}

\* A token is in the store, or consumed and in the hands of one request, or
\* was spent once, or is lost.
Holds(r) == IF pc[r] \in {"bind", "reset"} THEN proof[r] ELSE {}
Spending ==
    /\ held \subseteq minted
    /\ \A p \in Proof : p \in held \/ p \notin minted => spent[p] = 0
    /\ \A p \in Proof : spent[p] <= 1
    /\ \A r \in Req : \A p \in Holds(r) : p \in minted /\ p \notin held /\ spent[p] = 0
    /\ \A q, r \in Req : q # r => Holds(q) \cap Holds(r) = {}

\* Requests that have claimed a cooldown and may still store a code.
Sending == {r \in Req : pc[r] \in {"lookup", "resend"}}
Admits == IF code THEN MaxTries - tries ELSE 0
Paid == guesses + Admits + MaxTries * Cardinality(Sending) <= MaxTries * windows

IInv ==
    /\ TypeOK
    /\ Salted
    /\ Reads /\ Prints
    /\ Rehashing /\ RehashKeepsPassword
    /\ \A r \in Req : Ready(r)
    /\ Spending
    /\ Paid

-----------------------------------------------------------------------------
(* What a step that leaves a group of variables alone keeps.               *)

LEMMA AccountKept ==
    ASSUME AccountTypeOK, Salted, RehashKeepsPassword, UNCHANGED <<method, account>>
    PROVE  AccountTypeOK' /\ Salted' /\ RehashKeepsPassword'
    BY Zenon DEF AccountTypeOK, Salted, RehashKeepsPassword, account

LEMMA TokensKept ==
    ASSUME TokenTypeOK, Prints, UNCHANGED tokens
    PROVE  TokenTypeOK' /\ Prints'
    BY Zenon DEF TokenTypeOK, Prints, tokens

LEMMA CodesKept ==
    ASSUME CodeTypeOK, UNCHANGED codes
    PROVE  CodeTypeOK'
    BY Zenon DEF CodeTypeOK, codes

LEMMA SessionsKept ==
    ASSUME SessionTypeOK, UNCHANGED sessions
    PROVE  SessionTypeOK'
    BY Zenon DEF SessionTypeOK, sessions

LEMMA RequestsKept ==
    ASSUME RequestTypeOK, Reads, \A r \in Req : Ready(r), UNCHANGED local
    PROVE  RequestTypeOK' /\ Reads' /\ \A q \in Req : Ready(q)'
    BY Zenon DEF RequestTypeOK, Reads, Ready, local

LEMMA RehashKept ==
    ASSUME RehashTypeOK, Rehashing, UNCHANGED <<detached, account>>
    PROVE  RehashTypeOK' /\ Rehashing'
    BY Zenon DEF RehashTypeOK, Rehashing, detached, account

\* No token changes hands.
LEMMA SpendingKept ==
    ASSUME Spending, UNCHANGED <<minted, spent>>, held' \subseteq held,
           \A r \in Req : Holds(r)' \subseteq Holds(r)
    PROVE  Spending'
    BY Zenon DEF Spending

LEMMA Positive == MaxTries \in Nat /\ MaxTries > 0
    BY CredentialsAssumption

\* No cooldown is claimed; the stored code admits no more than before.
LEMMA SendingFinite == IsFiniteSet(Sending) /\ Cardinality(Sending) \in Nat
<1>1. IsFiniteSet(Sending)
    BY CredentialsAssumption, FS_Subset, Zenon DEF Sending
<1> QED
    BY <1>1, FS_CardinalityType, Zenon

LEMMA CodeNumbers ==
    ASSUME CodeTypeOK
    PROVE  guesses \in Nat /\ windows \in Nat /\ Admits \in Nat
    BY Positive DEF CodeTypeOK, Admits

LEMMA NextCodeNumbers ==
    ASSUME CodeTypeOK'
    PROVE  guesses' \in Nat /\ Admits' \in Nat
<1>1. Admits' = MaxTries - tries' \/ Admits' = 0
    BY Zenon DEF Admits
<1>2. tries' \in 0..MaxTries /\ guesses' \in Nat
    BY Zenon DEF CodeTypeOK
<1> QED
    BY <1>1, <1>2, Positive

LEMMA LessIsPaid ==
    ASSUME NEW g \in Nat, NEW a \in Nat, NEW s \in Nat, NEW w \in Nat, g + a + s <= w,
           NEW g1 \in Nat, NEW a1 \in Nat, NEW s1 \in Nat, g1 + a1 <= g + a, s1 <= s
    PROVE  g1 + a1 + s1 <= w
    OBVIOUS

LEMMA PaidLess ==
    ASSUME CodeTypeOK, CodeTypeOK', Paid, Sending' \subseteq Sending, UNCHANGED windows,
           guesses' + Admits' <= guesses + Admits
    PROVE  Paid'
<1>1. IsFiniteSet(Sending) /\ Cardinality(Sending) \in Nat
    BY SendingFinite, Zenon
<1>2. Cardinality(Sending') \in Nat /\ Cardinality(Sending') <= Cardinality(Sending)
    BY <1>1, FS_Subset, FS_CardinalityType, Zenon
<1>3. MaxTries * Cardinality(Sending') <= MaxTries * Cardinality(Sending)
    BY <1>1, <1>2, Positive
<1>4. guesses \in Nat /\ windows \in Nat /\ Admits \in Nat
    BY CodeNumbers, Zenon
<1>5. guesses' \in Nat /\ Admits' \in Nat
    BY NextCodeNumbers, Zenon
<1>6. /\ MaxTries * Cardinality(Sending) \in Nat /\ MaxTries * Cardinality(Sending') \in Nat
      /\ MaxTries * windows \in Nat
    BY <1>1, <1>2, <1>4, Positive
<1> QED
    BY <1>3, <1>4, <1>5, <1>6, LessIsPaid, Zenon DEF Paid

LEMMA PaidKept ==
    ASSUME CodeTypeOK, Paid, Sending' \subseteq Sending, UNCHANGED codes
    PROVE  Paid'
<1>1. CodeTypeOK'
    BY CodesKept, Zenon
<1>2. UNCHANGED windows /\ guesses' = guesses /\ Admits' = Admits
    BY Zenon DEF Admits, codes
<1>3. guesses \in Nat /\ Admits \in Nat
    BY CodeNumbers, Zenon
<1>4. guesses' + Admits' <= guesses + Admits
    BY <1>2, <1>3
<1> QED
    BY <1>1, <1>2, <1>4, PaidLess, Zenon

\* A request moves to a place where it neither holds a token nor sends a code.
Elsewhere == PC \ {"bind", "reset", "lookup", "resend"}

LEMMA Places ==
    /\ "idle" \in Elsewhere /\ "issue" \in Elsewhere /\ "put" \in Elsewhere
    /\ "send" \in Elsewhere /\ "find" \in Elsewhere /\ "store" \in Elsewhere
    /\ "revoke" \in Elsewhere /\ "settle" \in Elsewhere /\ "change" \in Elsewhere
    /\ "others" \in Elsewhere /\ "bump" \in Elsewhere
    BY Zenon DEF Elsewhere, PC

LEMMA MoveKeeps ==
    ASSUME RequestTypeOK, NEW r \in Req, NEW x \in Elsewhere, Goto(r, x),
           \A q \in Req : q # r => proof'[q] = proof[q]
    PROVE  (\A q \in Req : Holds(q)' \subseteq Holds(q)) /\ Sending' \subseteq Sending
<1>1. \A q \in Req : pc'[q] = IF q = r THEN x ELSE pc[q]
    BY Zenon DEF RequestTypeOK, Goto
<1>2. \A q \in Req : Holds(q)' \subseteq Holds(q)
    BY <1>1, Zenon DEF Holds, Elsewhere
<1>3. Sending' \subseteq Sending
    BY <1>1, Zenon DEF Sending, Elsewhere
<1> QED
    BY <1>2, <1>3, Zenon

LEMMA StayKeeps ==
    ASSUME UNCHANGED local
    PROVE  (\A q \in Req : Holds(q)' \subseteq Holds(q)) /\ Sending' \subseteq Sending
    BY Zenon DEF local, Holds, Sending

\* A request moves and its locals stay.
LEMMA GotoKeeps ==
    ASSUME RequestTypeOK, Reads, \A q \in Req : Ready(q), NEW r \in Req, NEW x \in PC \ {"idle", "send"},
           Goto(r, x), x \in {"bind", "reset", "settle", "change"} => pw[r] # NoPhc,
           UNCHANGED <<pw, read, proof, kept, seen>>
    PROVE  RequestTypeOK' /\ Reads' /\ \A q \in Req : Ready(q)'
<1>1. \A q \in Req : pc'[q] = IF q = r THEN x ELSE pc[q]
    BY Zenon DEF RequestTypeOK, Goto
<1>2. RequestTypeOK'
    BY Zenon DEF RequestTypeOK, Goto
<1>3. Reads'
    BY Zenon DEF Reads
<1>4. \A q \in Req : Ready(q)'
    BY <1>1, Zenon DEF Ready
<1> QED
    BY <1>2, <1>3, <1>4, Zenon

\* A request returns.
LEMMA ReturnKeeps ==
    ASSUME RequestTypeOK, Reads, \A q \in Req : Ready(q), NEW r \in Req, Return(r)
    PROVE  /\ RequestTypeOK' /\ Reads' /\ \A q \in Req : Ready(q)'
           /\ \A q \in Req : Holds(q)' \subseteq Holds(q)
           /\ Sending' \subseteq Sending
<1>1. RequestTypeOK'
    BY Zenon DEF RequestTypeOK, Return, Goto, PC
<1>2. Reads' /\ \A q \in Req : Ready(q)'
    BY Zenon DEF RequestTypeOK, Reads, Ready, Return, Goto
<1>3. \A q \in Req : q # r => proof'[q] = proof[q]
    BY Zenon DEF RequestTypeOK, Return
<1> QED
    BY <1>1, <1>2, <1>3, Places, MoveKeeps, Zenon DEF Return

\* The password is written: it is the one last chosen, or the write was raced.
LEMMA WriteKeeps ==
    ASSUME AccountTypeOK, NEW w \in Password, UpdatePassword(w), UNCHANGED method,
           chosen' \in Password, raced' \in BOOLEAN, chosen' = w \/ raced'
    PROVE  AccountTypeOK' /\ Salted' /\ RehashKeepsPassword'
<1>1. hash' \in Phc /\ hash'.pw = w /\ hash'.salt = writes' /\ writes' \in Nat
    BY DEF UpdatePassword, AccountTypeOK, Phc
<1>2. hash' # NoPhc
    BY <1>1, CredentialsAssumption, Zenon DEF Phc
<1> QED
    BY <1>1, <1>2, Zenon DEF AccountTypeOK, Salted, RehashKeepsPassword

\* Every rehash about to write was overtaken by the write.
LEMMA OvertakeKeeps ==
    ASSUME AccountTypeOK, RehashTypeOK, Rehashing, NEW w, UpdatePassword(w), UNCHANGED detached
    PROVE  RehashTypeOK' /\ Rehashing'
    BY DEF AccountTypeOK, RehashTypeOK, Rehashing, UpdatePassword, detached

\* A cooldown is claimed for a code that may be sent.
LEMMA ClaimKeeps ==
    ASSUME CodeTypeOK, RequestTypeOK, Paid, NEW r \in Req, NEW x \in {"lookup", "resend"},
           At(r, "idle"), TryBeginResend, Goto(r, x), UNCHANGED <<code, tries, guesses, proof>>
    PROVE  CodeTypeOK' /\ Paid' /\ \A q \in Req : Holds(q)' \subseteq Holds(q)
<1>1. \A q \in Req : pc'[q] = IF q = r THEN x ELSE pc[q]
    BY Zenon DEF RequestTypeOK, Goto
<1>2. CodeTypeOK' /\ windows' = windows + 1 /\ Admits' = Admits /\ Admits \in Int
    BY Positive DEF CodeTypeOK, TryBeginResend, Admits
<1>3. Sending' = Sending \cup {r} /\ r \notin Sending
    BY <1>1, Zenon DEF Sending, At
<1>4. Cardinality(Sending') = Cardinality(Sending) + 1
    BY <1>3, SendingFinite, FS_AddElement, Zenon
<1>5. MaxTries * Cardinality(Sending') = MaxTries * Cardinality(Sending) + MaxTries
    BY <1>4, SendingFinite, Positive
<1>6. MaxTries * windows' = MaxTries * windows + MaxTries
    BY <1>2, Positive DEF CodeTypeOK
<1>7. Paid'
    BY <1>2, <1>5, <1>6, SendingFinite, Positive DEF Paid, CodeTypeOK
<1>8. \A q \in Req : Holds(q)' \subseteq Holds(q)
    BY <1>1, Zenon DEF Holds
<1> QED
    BY <1>2, <1>7, <1>8, Zenon

\* A token leaves the store, or a new one enters it.
LEMMA ConsumeTypes ==
    ASSUME TokenTypeOK, Prints, NEW p \in Proof, Consume(p), UNCHANGED <<minted, links, spent>>
    PROVE  TokenTypeOK' /\ Prints' /\ held' \subseteq held
    BY Zenon DEF TokenTypeOK, Prints, Consume

LEMMA PutKeeps ==
    ASSUME TokenTypeOK, RequestTypeOK, Reads, Prints, NEW r \in Req, NEW p \in Proof, Put(r, p),
           links' \in SUBSET Proof, UNCHANGED spent
    PROVE  TokenTypeOK' /\ Prints'
    BY Zenon DEF TokenTypeOK, RequestTypeOK, Reads, Prints, Put

LEMMA PutSpends ==
    ASSUME Spending, NEW r \in Req, NEW p \in Proof, Put(r, p), UNCHANGED spent,
           \A q \in Req : Holds(q)' \subseteq Holds(q)
    PROVE  Spending'
<1>1. \A q \in Req : p \notin Holds(q)
    BY Zenon DEF Spending, Put
<1> QED
    BY <1>1 DEF Spending, Put

\* A code was judged right: it is gone, and one of its guesses with it.
LEMMA AcceptKeeps ==
    ASSUME CodeTypeOK, RequestTypeOK, Paid, NEW r \in Req, NEW x \in PC \ {"lookup", "resend"},
           CodeAccepted(r, x)
    PROVE  CodeTypeOK' /\ Paid'
<1>1. CodeTypeOK'
  <2>1. code' \in BOOLEAN
    BY Zenon DEF CodeAccepted
  <2> QED
    BY <2>1, Positive DEF CodeTypeOK, CodeAccepted
<1>2. \A q \in Req : pc'[q] = IF q = r THEN x ELSE pc[q]
    BY Zenon DEF RequestTypeOK, CodeAccepted, Goto
<1>3. Sending' \subseteq Sending
    BY <1>2, Zenon DEF Sending
<1>4. guesses' + Admits' <= guesses + Admits
    BY Positive DEF CodeTypeOK, CodeAccepted, Admits
<1> QED
    BY <1>1, <1>3, <1>4, PaidLess, Zenon DEF CodeAccepted

-----------------------------------------------------------------------------
(* Every step keeps the invariant.                                         *)

\* issue_session_result.
LEMMA IssueKeeps ==
    ASSUME IInv, NEW r \in Req, Issue(r)
    PROVE  IInv'
<1>1. /\ AccountTypeOK' /\ Salted' /\ RehashKeepsPassword'
      /\ TokenTypeOK' /\ Prints'
      /\ CodeTypeOK'
      /\ RehashTypeOK' /\ Rehashing'
    BY AccountKept, TokensKept, CodesKept, RehashKept, Zenon DEF IInv, TypeOK, Issue
<1>2. SessionTypeOK'
    BY DEF IInv, TypeOK, SessionTypeOK, Issue
<1>3. RequestTypeOK' /\ Reads' /\ \A q \in Req : Ready(q)'
    BY ReturnKeeps, Zenon DEF IInv, TypeOK, Issue
<1>4. Spending'
    BY ReturnKeeps, SpendingKept, Zenon DEF IInv, TypeOK, Issue, tokens
<1>5. Paid'
    BY ReturnKeeps, PaidKept, Zenon DEF IInv, TypeOK, Issue
<1> QED
    BY <1>1, <1>2, <1>3, <1>4, <1>5, Zenon DEF IInv, TypeOK

\* A proof that is no longer bound.
LEMMA BindRefusedKeeps ==
    ASSUME IInv, NEW r \in Req, BindRefused(r)
    PROVE  IInv'
<1>1. /\ AccountTypeOK' /\ Salted' /\ RehashKeepsPassword'
      /\ TokenTypeOK' /\ Prints'
      /\ CodeTypeOK'
      /\ SessionTypeOK'
      /\ RehashTypeOK' /\ Rehashing'
    BY AccountKept, TokensKept, CodesKept, SessionsKept, RehashKept, Zenon
    DEF IInv, TypeOK, BindRefused
<1>2. RequestTypeOK' /\ Reads' /\ \A q \in Req : Ready(q)'
    BY ReturnKeeps, Zenon DEF IInv, TypeOK, BindRefused
<1>3. Spending'
    BY ReturnKeeps, SpendingKept, Zenon DEF IInv, TypeOK, BindRefused, tokens
<1>4. Paid'
    BY ReturnKeeps, PaidKept, Zenon DEF IInv, TypeOK, BindRefused
<1> QED
    BY <1>1, <1>2, <1>3, <1>4, Zenon DEF IInv, TypeOK

\* A request that ends early.
LEMMA FailKeeps ==
    ASSUME IInv, NEW r \in Req, Fail(r)
    PROVE  IInv'
<1>1. /\ AccountTypeOK' /\ Salted' /\ RehashKeepsPassword'
      /\ TokenTypeOK' /\ Prints'
      /\ CodeTypeOK'
      /\ SessionTypeOK'
      /\ RehashTypeOK' /\ Rehashing'
    BY AccountKept, TokensKept, CodesKept, SessionsKept, RehashKept, Zenon DEF IInv, TypeOK, Fail
<1>2. RequestTypeOK' /\ Reads' /\ \A q \in Req : Ready(q)'
    BY ReturnKeeps, Zenon DEF IInv, TypeOK, Fail
<1>3. Spending'
    BY ReturnKeeps, SpendingKept, Zenon DEF IInv, TypeOK, Fail, tokens
<1>4. Paid'
    BY ReturnKeeps, PaidKept, Zenon DEF IInv, TypeOK, Fail
<1> QED
    BY <1>1, <1>2, <1>3, <1>4, Zenon DEF IInv, TypeOK

\* The last step of a reset or a change.
LEMMA BumpEpochKeeps ==
    ASSUME IInv, NEW r \in Req, BumpEpoch(r)
    PROVE  IInv'
<1>1. /\ AccountTypeOK' /\ Salted' /\ RehashKeepsPassword'
      /\ TokenTypeOK' /\ Prints'
      /\ CodeTypeOK'
      /\ RehashTypeOK' /\ Rehashing'
    BY AccountKept, TokensKept, CodesKept, RehashKept, Zenon DEF IInv, TypeOK, BumpEpoch
<1>2. SessionTypeOK'
    BY DEF IInv, TypeOK, SessionTypeOK, BumpEpoch
<1>3. RequestTypeOK' /\ Reads' /\ \A q \in Req : Ready(q)'
    BY ReturnKeeps, Zenon DEF IInv, TypeOK, BumpEpoch
<1>4. Spending'
    BY ReturnKeeps, SpendingKept, Zenon DEF IInv, TypeOK, BumpEpoch, tokens
<1>5. Paid'
    BY ReturnKeeps, PaidKept, Zenon DEF IInv, TypeOK, BumpEpoch
<1> QED
    BY <1>1, <1>2, <1>3, <1>4, <1>5, Zenon DEF IInv, TypeOK

\* A login that verified the password.
LEMMA LoginKeeps ==
    ASSUME IInv, NEW r \in Req, Login(r)
    PROVE  IInv'
<1>1. (\A q \in Req : Holds(q)' \subseteq Holds(q)) /\ Sending' \subseteq Sending
    BY Places, MoveKeeps, Zenon DEF IInv, TypeOK, Login
<1>2. /\ AccountTypeOK' /\ Salted' /\ RehashKeepsPassword'
      /\ TokenTypeOK' /\ Prints'
      /\ CodeTypeOK'
      /\ SessionTypeOK'
    BY AccountKept, TokensKept, CodesKept, SessionsKept, Zenon DEF IInv, TypeOK, Login
<1>3. RequestTypeOK' /\ Reads' /\ \A q \in Req : Ready(q)'
    BY GotoKeeps, Zenon DEF IInv, TypeOK, Login, PC
<1>4. RehashTypeOK' /\ Rehashing'
    BY DEF IInv, TypeOK, AccountTypeOK, RehashTypeOK, Rehashing, Login, account
<1>5. Spending'
    BY <1>1, SpendingKept, Zenon DEF IInv, Login, tokens
<1>6. Paid'
    BY <1>1, PaidKept, Zenon DEF IInv, TypeOK, Login
<1> QED
    BY <1>2, <1>3, <1>4, <1>5, <1>6, Zenon DEF IInv, TypeOK

\* revoke_all.
LEMMA RevokeAllKeeps ==
    ASSUME IInv, NEW r \in Req, RevokeAll(r)
    PROVE  IInv'
<1>1. (\A q \in Req : Holds(q)' \subseteq Holds(q)) /\ Sending' \subseteq Sending
    BY Places, MoveKeeps, Zenon DEF IInv, TypeOK, RevokeAll
<1>2. /\ AccountTypeOK' /\ Salted' /\ RehashKeepsPassword'
      /\ TokenTypeOK' /\ Prints'
      /\ CodeTypeOK'
      /\ RehashTypeOK' /\ Rehashing'
    BY AccountKept, TokensKept, CodesKept, RehashKept, Zenon DEF IInv, TypeOK, RevokeAll
<1>3. SessionTypeOK'
    BY Zenon DEF IInv, TypeOK, SessionTypeOK, RevokeAll
<1>4. RequestTypeOK' /\ Reads' /\ \A q \in Req : Ready(q)'
    BY GotoKeeps, Zenon DEF IInv, TypeOK, RevokeAll, PC
<1>5. Spending'
    BY <1>1, SpendingKept, Zenon DEF IInv, RevokeAll, tokens
<1>6. Paid'
    BY <1>1, PaidKept, Zenon DEF IInv, TypeOK, RevokeAll
<1> QED
    BY <1>2, <1>3, <1>4, <1>5, <1>6, Zenon DEF IInv, TypeOK

\* end_other_sessions.
LEMMA EndOtherSessionsKeeps ==
    ASSUME IInv, NEW r \in Req, EndOtherSessions(r)
    PROVE  IInv'
<1>1. (\A q \in Req : Holds(q)' \subseteq Holds(q)) /\ Sending' \subseteq Sending
    BY Places, MoveKeeps, Zenon DEF IInv, TypeOK, EndOtherSessions
<1>2. /\ AccountTypeOK' /\ Salted' /\ RehashKeepsPassword'
      /\ TokenTypeOK' /\ Prints'
      /\ CodeTypeOK'
      /\ RehashTypeOK' /\ Rehashing'
    BY AccountKept, TokensKept, CodesKept, RehashKept, Zenon DEF IInv, TypeOK, EndOtherSessions
<1>3. SessionTypeOK'
    BY Zenon DEF IInv, TypeOK, SessionTypeOK, EndOtherSessions
<1>4. RequestTypeOK' /\ Reads' /\ \A q \in Req : Ready(q)'
    BY GotoKeeps, Zenon DEF IInv, TypeOK, EndOtherSessions, PC
<1>5. Spending'
    BY <1>1, SpendingKept, Zenon DEF IInv, EndOtherSessions, tokens
<1>6. Paid'
    BY <1>1, PaidKept, Zenon DEF IInv, TypeOK, EndOtherSessions
<1> QED
    BY <1>2, <1>3, <1>4, <1>5, <1>6, Zenon DEF IInv, TypeOK

\* send_reset_token reads the account.
LEMMA ForgotReadsKeeps ==
    ASSUME IInv, NEW r \in Req, ForgotReads(r)
    PROVE  IInv'
<1>1. (\A q \in Req : Holds(q)' \subseteq Holds(q)) /\ Sending' \subseteq Sending
    BY Places, MoveKeeps, Zenon DEF IInv, TypeOK, ForgotReads
<1>2. /\ AccountTypeOK' /\ Salted' /\ RehashKeepsPassword'
      /\ TokenTypeOK' /\ Prints'
      /\ CodeTypeOK'
      /\ SessionTypeOK'
      /\ RehashTypeOK' /\ Rehashing'
    BY AccountKept, TokensKept, CodesKept, SessionsKept, RehashKept, Zenon
    DEF IInv, TypeOK, ForgotReads
<1>3. RequestTypeOK' /\ Reads' /\ \A q \in Req : Ready(q)'
    BY Zenon DEF IInv, TypeOK, AccountTypeOK, RequestTypeOK, Reads, Ready, Salted, ForgotReads, ReadHash, Goto, PC, account
<1>4. Spending'
    BY <1>1, SpendingKept, Zenon DEF IInv, ForgotReads, tokens
<1>5. Paid'
    BY <1>1, PaidKept, Zenon DEF IInv, TypeOK, ForgotReads
<1> QED
    BY <1>2, <1>3, <1>4, <1>5, Zenon DEF IInv, TypeOK

\* verify_reset_otp reads the account.
LEMMA VerifiedReadsKeeps ==
    ASSUME IInv, NEW r \in Req, VerifiedReads(r)
    PROVE  IInv'
<1>1. (\A q \in Req : Holds(q)' \subseteq Holds(q)) /\ Sending' \subseteq Sending
    BY Places, MoveKeeps, Zenon DEF IInv, TypeOK, VerifiedReads
<1>2. /\ AccountTypeOK' /\ Salted' /\ RehashKeepsPassword'
      /\ TokenTypeOK' /\ Prints'
      /\ CodeTypeOK'
      /\ SessionTypeOK'
      /\ RehashTypeOK' /\ Rehashing'
    BY AccountKept, TokensKept, CodesKept, SessionsKept, RehashKept, Zenon
    DEF IInv, TypeOK, VerifiedReads
<1>3. RequestTypeOK' /\ Reads' /\ \A q \in Req : Ready(q)'
    BY Zenon DEF IInv, TypeOK, AccountTypeOK, RequestTypeOK, Reads, Ready, Salted, VerifiedReads, ReadHash, Goto, PC, account
<1>4. Spending'
    BY <1>1, SpendingKept, Zenon DEF IInv, VerifiedReads, tokens
<1>5. Paid'
    BY <1>1, PaidKept, Zenon DEF IInv, TypeOK, VerifiedReads
<1> QED
    BY <1>2, <1>3, <1>4, <1>5, Zenon DEF IInv, TypeOK

\* change_password verified the current password.
LEMMA ChangePasswordKeeps ==
    ASSUME IInv, NEW r \in Req, NEW w \in Password, ChangePassword(r, w)
    PROVE  IInv'
<1>1. (\A q \in Req : Holds(q)' \subseteq Holds(q)) /\ Sending' \subseteq Sending
    BY Places, MoveKeeps, Zenon DEF IInv, TypeOK, ChangePassword
<1>2. /\ AccountTypeOK' /\ Salted' /\ RehashKeepsPassword'
      /\ TokenTypeOK' /\ Prints'
      /\ CodeTypeOK'
      /\ SessionTypeOK'
      /\ RehashTypeOK' /\ Rehashing'
    BY AccountKept, TokensKept, CodesKept, SessionsKept, RehashKept, Zenon
    DEF IInv, TypeOK, ChangePassword
<1>3. RequestTypeOK' /\ Reads' /\ \A q \in Req : Ready(q)'
    BY CredentialsAssumption, Zenon DEF IInv, TypeOK, RequestTypeOK, Reads, Ready, ChangePassword, Goto, PC
<1>4. Spending'
    BY <1>1, SpendingKept, Zenon DEF IInv, ChangePassword, tokens
<1>5. Paid'
    BY <1>1, PaidKept, Zenon DEF IInv, TypeOK, ChangePassword
<1> QED
    BY <1>2, <1>3, <1>4, <1>5, Zenon DEF IInv, TypeOK

\* resolve_current_session.
LEMMA SettleKeptKeeps ==
    ASSUME IInv, NEW r \in Req, NEW k \in SUBSET Nat, SettleKept(r, k)
    PROVE  IInv'
<1>1. (\A q \in Req : Holds(q)' \subseteq Holds(q)) /\ Sending' \subseteq Sending
    BY Places, MoveKeeps, Zenon DEF IInv, TypeOK, SettleKept
<1>2. /\ AccountTypeOK' /\ Salted' /\ RehashKeepsPassword'
      /\ TokenTypeOK' /\ Prints'
      /\ CodeTypeOK'
      /\ SessionTypeOK'
      /\ RehashTypeOK' /\ Rehashing'
    BY AccountKept, TokensKept, CodesKept, SessionsKept, RehashKept, Zenon
    DEF IInv, TypeOK, SettleKept
<1>3. RequestTypeOK' /\ Reads' /\ \A q \in Req : Ready(q)'
    BY Zenon DEF IInv, TypeOK, RequestTypeOK, Reads, Ready, SettleKept, At, Goto, PC
<1>4. Spending'
    BY <1>1, SpendingKept, Zenon DEF IInv, SettleKept, tokens
<1>5. Paid'
    BY <1>1, PaidKept, Zenon DEF IInv, TypeOK, SettleKept
<1> QED
    BY <1>2, <1>3, <1>4, <1>5, Zenon DEF IInv, TypeOK

\* change_password writes.
LEMMA ChangeWritesKeeps ==
    ASSUME IInv, NEW r \in Req, ChangeWrites(r)
    PROVE  IInv'
<1>1. (\A q \in Req : Holds(q)' \subseteq Holds(q)) /\ Sending' \subseteq Sending
    BY Places, MoveKeeps, Zenon DEF IInv, TypeOK, ChangeWrites
<1>2. /\ TokenTypeOK' /\ Prints'
      /\ CodeTypeOK'
      /\ SessionTypeOK'
    BY TokensKept, CodesKept, SessionsKept, Zenon DEF IInv, TypeOK, ChangeWrites
<1>3. AccountTypeOK' /\ Salted' /\ RehashKeepsPassword'
    BY WriteKeeps, Zenon DEF IInv, TypeOK, AccountTypeOK, RequestTypeOK, Ready, ChangeWrites, At
<1>4. RequestTypeOK' /\ Reads' /\ \A q \in Req : Ready(q)'
    BY GotoKeeps, Zenon DEF IInv, TypeOK, ChangeWrites, PC
<1>5. RehashTypeOK' /\ Rehashing'
    BY OvertakeKeeps, Zenon DEF IInv, TypeOK, ChangeWrites
<1>6. Spending'
    BY <1>1, SpendingKept, Zenon DEF IInv, ChangeWrites, tokens
<1>7. Paid'
    BY <1>1, PaidKept, Zenon DEF IInv, TypeOK, ChangeWrites
<1> QED
    BY <1>2, <1>3, <1>4, <1>5, <1>6, <1>7, Zenon DEF IInv, TypeOK

\* A rehash reads the account again.
LEMMA RehashCheckKeeps ==
    ASSUME IInv, NEW r \in Req, RehashCheck(r)
    PROVE  IInv'
<1>1. /\ AccountTypeOK' /\ Salted' /\ RehashKeepsPassword'
      /\ TokenTypeOK' /\ Prints'
      /\ CodeTypeOK'
      /\ SessionTypeOK'
      /\ RequestTypeOK' /\ Reads' /\ \A q \in Req : Ready(q)'
    BY AccountKept, TokensKept, CodesKept, SessionsKept, RequestsKept, Zenon
    DEF IInv, TypeOK, RehashCheck
<1>2. RehashTypeOK' /\ Rehashing'
    BY DEF IInv, TypeOK, AccountTypeOK, RehashTypeOK, Rehashing, RehashCheck, EndRehash, account
<1>3. Spending'
    BY StayKeeps, SpendingKept, Zenon DEF IInv, RehashCheck, tokens
<1>4. Paid'
    BY StayKeeps, PaidKept, Zenon DEF IInv, TypeOK, RehashCheck
<1> QED
    BY <1>1, <1>2, <1>3, <1>4, Zenon DEF IInv, TypeOK

\* A rehash that ends early.
LEMMA RehashDiesKeeps ==
    ASSUME IInv, NEW r \in Req, RehashDies(r)
    PROVE  IInv'
<1>1. /\ AccountTypeOK' /\ Salted' /\ RehashKeepsPassword'
      /\ TokenTypeOK' /\ Prints'
      /\ CodeTypeOK'
      /\ SessionTypeOK'
      /\ RequestTypeOK' /\ Reads' /\ \A q \in Req : Ready(q)'
    BY AccountKept, TokensKept, CodesKept, SessionsKept, RequestsKept, Zenon
    DEF IInv, TypeOK, RehashDies
<1>2. RehashTypeOK' /\ Rehashing'
    BY Zenon DEF IInv, TypeOK, RehashTypeOK, Rehashing, RehashDies, EndRehash, account
<1>3. Spending'
    BY StayKeeps, SpendingKept, Zenon DEF IInv, RehashDies, tokens
<1>4. Paid'
    BY StayKeeps, PaidKept, Zenon DEF IInv, TypeOK, RehashDies
<1> QED
    BY <1>1, <1>2, <1>3, <1>4, Zenon DEF IInv, TypeOK

\* A rehash writes what it verified.
LEMMA RehashWriteKeeps ==
    ASSUME IInv, NEW r \in Req, RehashWrite(r)
    PROVE  IInv'
<1>1. /\ TokenTypeOK' /\ Prints'
      /\ CodeTypeOK'
      /\ SessionTypeOK'
      /\ RequestTypeOK' /\ Reads' /\ \A q \in Req : Ready(q)'
    BY TokensKept, CodesKept, SessionsKept, RequestsKept, Zenon DEF IInv, TypeOK, RehashWrite
<1>2. AccountTypeOK' /\ Salted' /\ RehashKeepsPassword'
  <2>1. verified[r] \in Phc /\ verified[r].pw \in Password
    BY Zenon DEF IInv, TypeOK, RehashTypeOK, Rehashing, RehashWrite, Phc
  <2>2. raced' \in BOOLEAN /\ chosen' \in Password
    BY Zenon DEF IInv, TypeOK, AccountTypeOK, RehashWrite
  <2>3. chosen' = verified[r].pw \/ raced'
    BY <2>1, Zenon
    DEF IInv, TypeOK, AccountTypeOK, RehashTypeOK, Rehashing, RehashKeepsPassword, RehashWrite
  <2> QED
    BY <2>1, <2>2, <2>3, WriteKeeps, Zenon DEF IInv, TypeOK, RehashWrite
<1>3. RehashTypeOK' /\ Rehashing'
    BY DEF IInv, TypeOK, AccountTypeOK, RehashTypeOK, Rehashing, RehashWrite, UpdatePassword, EndRehash
<1>4. Spending'
    BY StayKeeps, SpendingKept, Zenon DEF IInv, RehashWrite, tokens
<1>5. Paid'
    BY StayKeeps, PaidKept, Zenon DEF IInv, TypeOK, RehashWrite
<1> QED
    BY <1>1, <1>2, <1>3, <1>4, <1>5, Zenon DEF IInv, TypeOK

\* A session ends.
LEMMA SessionEndsKeeps ==
    ASSUME IInv, NEW s, SessionEnds(s)
    PROVE  IInv'
<1>1. /\ AccountTypeOK' /\ Salted' /\ RehashKeepsPassword'
      /\ TokenTypeOK' /\ Prints'
      /\ CodeTypeOK'
      /\ RequestTypeOK' /\ Reads' /\ \A q \in Req : Ready(q)'
      /\ RehashTypeOK' /\ Rehashing'
    BY AccountKept, TokensKept, CodesKept, RequestsKept, RehashKept, Zenon
    DEF IInv, TypeOK, SessionEnds
<1>2. SessionTypeOK'
    BY Zenon DEF IInv, TypeOK, SessionTypeOK, SessionEnds
<1>3. Spending'
    BY StayKeeps, SpendingKept, Zenon DEF IInv, SessionEnds, tokens
<1>4. Paid'
    BY StayKeeps, PaidKept, Zenon DEF IInv, TypeOK, SessionEnds
<1> QED
    BY <1>1, <1>2, <1>3, <1>4, Zenon DEF IInv, TypeOK

\* A reset token expires.
LEMMA ExpireKeeps ==
    ASSUME IInv, NEW p \in Proof, Expire(p)
    PROVE  IInv'
<1>1. /\ AccountTypeOK' /\ Salted' /\ RehashKeepsPassword'
      /\ CodeTypeOK'
      /\ SessionTypeOK'
      /\ RequestTypeOK' /\ Reads' /\ \A q \in Req : Ready(q)'
      /\ RehashTypeOK' /\ Rehashing'
    BY AccountKept, CodesKept, SessionsKept, RequestsKept, RehashKept, Zenon
    DEF IInv, TypeOK, Expire
<1>2. TokenTypeOK' /\ Prints'
    BY ConsumeTypes, Zenon DEF IInv, TypeOK, Expire
<1>3. Spending'
    BY ConsumeTypes, StayKeeps, SpendingKept, Zenon DEF IInv, TypeOK, Expire
<1>4. Paid'
    BY StayKeeps, PaidKept, Zenon DEF IInv, TypeOK, Expire
<1> QED
    BY <1>1, <1>2, <1>3, <1>4, Zenon DEF IInv, TypeOK

\* The code expires.
LEMMA ExpireCodeKeeps ==
    ASSUME IInv, ExpireCode
    PROVE  IInv'
<1>1. /\ AccountTypeOK' /\ Salted' /\ RehashKeepsPassword'
      /\ TokenTypeOK' /\ Prints'
      /\ SessionTypeOK'
      /\ RequestTypeOK' /\ Reads' /\ \A q \in Req : Ready(q)'
      /\ RehashTypeOK' /\ Rehashing'
    BY AccountKept, TokensKept, SessionsKept, RequestsKept, RehashKept, Zenon
    DEF IInv, TypeOK, ExpireCode
<1>2. CodeTypeOK'
  <2>1. code' \in BOOLEAN /\ cooling' \in BOOLEAN
    BY Zenon DEF IInv, TypeOK, CodeTypeOK, ExpireCode
  <2> QED
    BY <2>1, Positive DEF IInv, TypeOK, CodeTypeOK, ExpireCode
<1>3. Spending'
    BY StayKeeps, SpendingKept, Zenon DEF IInv, ExpireCode, tokens
<1>4. Paid'
  <2>1. guesses' + Admits' <= guesses + Admits /\ UNCHANGED windows
    BY Positive DEF IInv, TypeOK, CodeTypeOK, ExpireCode, Admits
  <2> QED
    BY <1>2, <2>1, StayKeeps, PaidLess, Zenon DEF IInv, TypeOK, ExpireCode
<1> QED
    BY <1>1, <1>2, <1>3, <1>4, Zenon DEF IInv, TypeOK

\* The cooldown ends.
LEMMA CooldownEndsKeeps ==
    ASSUME IInv, CooldownEnds
    PROVE  IInv'
<1>1. /\ AccountTypeOK' /\ Salted' /\ RehashKeepsPassword'
      /\ TokenTypeOK' /\ Prints'
      /\ SessionTypeOK'
      /\ RequestTypeOK' /\ Reads' /\ \A q \in Req : Ready(q)'
      /\ RehashTypeOK' /\ Rehashing'
    BY AccountKept, TokensKept, SessionsKept, RequestsKept, RehashKept, Zenon
    DEF IInv, TypeOK, CooldownEnds
<1>2. CodeTypeOK'
  <2>1. code' \in BOOLEAN /\ cooling' \in BOOLEAN
    BY Zenon DEF IInv, TypeOK, CodeTypeOK, CooldownEnds
  <2> QED
    BY <2>1, Positive, Zenon DEF IInv, TypeOK, CodeTypeOK, CooldownEnds
<1>3. Spending'
    BY StayKeeps, SpendingKept, Zenon DEF IInv, CooldownEnds, tokens
<1>4. Paid'
  <2>1. guesses' + Admits' <= guesses + Admits /\ UNCHANGED windows
    BY Positive DEF IInv, TypeOK, CodeTypeOK, CooldownEnds, Admits
  <2> QED
    BY <1>2, <2>1, StayKeeps, PaidLess, Zenon DEF IInv, TypeOK, CooldownEnds
<1> QED
    BY <1>1, <1>2, <1>3, <1>4, Zenon DEF IInv, TypeOK

\* A forgot-password request claims the cooldown.
LEMMA ForgotKeeps ==
    ASSUME IInv, NEW r \in Req, Forgot(r)
    PROVE  IInv'
<1>1. CodeTypeOK' /\ Paid' /\ \A q \in Req : Holds(q)' \subseteq Holds(q)
    BY ClaimKeeps, Zenon DEF IInv, TypeOK, Forgot
<1>2. /\ AccountTypeOK' /\ Salted' /\ RehashKeepsPassword'
      /\ TokenTypeOK' /\ Prints'
      /\ SessionTypeOK'
      /\ RehashTypeOK' /\ Rehashing'
    BY AccountKept, TokensKept, SessionsKept, RehashKept, Zenon DEF IInv, TypeOK, Forgot
<1>3. CodeTypeOK'
    BY <1>1, Zenon
<1>4. RequestTypeOK' /\ Reads' /\ \A q \in Req : Ready(q)'
    BY GotoKeeps, Zenon DEF IInv, TypeOK, Forgot, PC
<1>5. Spending'
    BY <1>1, SpendingKept, Zenon DEF IInv, Forgot, tokens
<1>6. Paid'
    BY <1>1, Zenon
<1> QED
    BY <1>2, <1>3, <1>4, <1>5, <1>6, Zenon DEF IInv, TypeOK

\* A resend claims the cooldown.
LEMMA ResendKeeps ==
    ASSUME IInv, NEW r \in Req, Resend(r)
    PROVE  IInv'
<1>1. CodeTypeOK' /\ Paid' /\ \A q \in Req : Holds(q)' \subseteq Holds(q)
    BY ClaimKeeps, Zenon DEF IInv, TypeOK, Resend
<1>2. /\ AccountTypeOK' /\ Salted' /\ RehashKeepsPassword'
      /\ TokenTypeOK' /\ Prints'
      /\ SessionTypeOK'
      /\ RehashTypeOK' /\ Rehashing'
    BY AccountKept, TokensKept, SessionsKept, RehashKept, Zenon DEF IInv, TypeOK, Resend
<1>3. CodeTypeOK'
    BY <1>1, Zenon
<1>4. RequestTypeOK' /\ Reads' /\ \A q \in Req : Ready(q)'
    BY GotoKeeps, Zenon DEF IInv, TypeOK, Resend, PC
<1>5. Spending'
    BY <1>1, SpendingKept, Zenon DEF IInv, Resend, tokens
<1>6. Paid'
    BY <1>1, Zenon
<1> QED
    BY <1>2, <1>3, <1>4, <1>5, <1>6, Zenon DEF IInv, TypeOK

\* verify_reset_otp accepts the code.
LEMMA VerifyResetOtpKeeps ==
    ASSUME IInv, NEW r \in Req, VerifyResetOtp(r)
    PROVE  IInv'
<1>1. (\A q \in Req : Holds(q)' \subseteq Holds(q)) /\ Sending' \subseteq Sending
    BY Places, MoveKeeps, Zenon DEF IInv, TypeOK, VerifyResetOtp, CodeAccepted
<1>2. /\ AccountTypeOK' /\ Salted' /\ RehashKeepsPassword'
      /\ TokenTypeOK' /\ Prints'
      /\ SessionTypeOK'
      /\ RehashTypeOK' /\ Rehashing'
    BY AccountKept, TokensKept, SessionsKept, RehashKept, Zenon
    DEF IInv, TypeOK, VerifyResetOtp, CodeAccepted
<1>3. CodeTypeOK'
    BY AcceptKeeps, Zenon DEF IInv, TypeOK, VerifyResetOtp, PC
<1>4. RequestTypeOK' /\ Reads' /\ \A q \in Req : Ready(q)'
    BY GotoKeeps, Zenon DEF IInv, TypeOK, VerifyResetOtp, CodeAccepted, PC
<1>5. Spending'
    BY <1>1, SpendingKept, Zenon DEF IInv, VerifyResetOtp, CodeAccepted, tokens
<1>6. Paid'
    BY AcceptKeeps, Zenon DEF IInv, TypeOK, VerifyResetOtp, PC
<1> QED
    BY <1>2, <1>3, <1>4, <1>5, <1>6, Zenon DEF IInv, TypeOK

\* reset_password with the code: the request holds no token.
LEMMA PresentOtpKeeps ==
    ASSUME IInv, NEW r \in Req, NEW w \in Password, PresentOtp(r, w)
    PROVE  IInv'
<1>1. \A q \in Req : Holds(q)' \subseteq Holds(q)
    BY Zenon DEF IInv, TypeOK, RequestTypeOK, Ready, PresentOtp, At, CodeAccepted, Goto, Holds
<1>2. /\ AccountTypeOK' /\ Salted' /\ RehashKeepsPassword'
      /\ TokenTypeOK' /\ Prints'
      /\ SessionTypeOK'
      /\ RehashTypeOK' /\ Rehashing'
    BY AccountKept, TokensKept, SessionsKept, RehashKept, Zenon
    DEF IInv, TypeOK, PresentOtp, CodeAccepted
<1>3. CodeTypeOK'
    BY AcceptKeeps, Zenon DEF IInv, TypeOK, PresentOtp, PC
<1>4. RequestTypeOK' /\ Reads' /\ \A q \in Req : Ready(q)'
    BY CredentialsAssumption, Zenon DEF IInv, TypeOK, RequestTypeOK, Reads, Ready, PresentOtp, CodeAccepted, Goto, PC
<1>5. Spending'
    BY <1>1, SpendingKept, Zenon DEF IInv, PresentOtp, CodeAccepted, tokens
<1>6. Paid'
    BY AcceptKeeps, Zenon DEF IInv, TypeOK, PresentOtp, PC
<1> QED
    BY <1>2, <1>3, <1>4, <1>5, <1>6, Zenon DEF IInv, TypeOK

\* A wrong code.
LEMMA CodeRefusedKeeps ==
    ASSUME IInv, NEW r \in Req, CodeRefused(r)
    PROVE  IInv'
<1>1. CodeTypeOK' /\ guesses' + Admits' <= guesses + Admits
  <2>1. code /\ CodeTypeOK
    BY Zenon DEF IInv, TypeOK, CodeRefused
  <2>2. CASE tries < MaxTries
    <3>1. code' = code /\ tries' = tries + 1 /\ guesses' = guesses + 1 /\ UNCHANGED <<cooling, windows>>
        BY <2>2, Zenon DEF CodeRefused
    <3>2. CodeTypeOK'
        BY <2>1, <2>2, <3>1, Positive DEF CodeTypeOK
    <3>3. Admits = MaxTries - tries /\ Admits' = MaxTries - tries'
        BY <2>1, <3>1, Zenon DEF Admits
    <3> QED
        BY <2>1, <3>1, <3>2, <3>3, Positive DEF CodeTypeOK
  <2>3. CASE ~(tries < MaxTries)
    <3>1. code' = FALSE /\ tries' = 0 /\ guesses' = guesses /\ UNCHANGED <<cooling, windows>>
        BY <2>3, Zenon DEF CodeRefused
    <3>2. code' \in BOOLEAN
        BY <3>1, Zenon
    <3>3. CodeTypeOK'
        BY <2>1, <3>1, <3>2, Positive DEF CodeTypeOK
    <3>4. Admits = MaxTries - tries /\ Admits' = 0
        BY <2>1, <3>1, Zenon DEF Admits
    <3> QED
        BY <2>1, <3>1, <3>3, <3>4, Positive DEF CodeTypeOK
  <2> QED
    BY <2>2, <2>3, Zenon
<1>2. /\ AccountTypeOK' /\ Salted' /\ RehashKeepsPassword'
      /\ TokenTypeOK' /\ Prints'
      /\ SessionTypeOK'
      /\ RehashTypeOK' /\ Rehashing'
    BY AccountKept, TokensKept, SessionsKept, RehashKept, Zenon DEF IInv, TypeOK, CodeRefused
<1>3. CodeTypeOK'
    BY <1>1, Zenon
<1>4. RequestTypeOK' /\ Reads' /\ \A q \in Req : Ready(q)'
    BY ReturnKeeps, Zenon DEF IInv, TypeOK, CodeRefused
<1>5. Spending'
    BY ReturnKeeps, SpendingKept, Zenon DEF IInv, TypeOK, CodeRefused, tokens
<1>6. Paid'
    BY <1>1, ReturnKeeps, PaidLess, Zenon DEF IInv, TypeOK, CodeRefused
<1> QED
    BY <1>2, <1>3, <1>4, <1>5, <1>6, Zenon DEF IInv, TypeOK

\* send_reset_otp stores the code its cooldown paid for.
LEMMA SendResetOtpKeeps ==
    ASSUME IInv, NEW r \in Req, SendResetOtp(r)
    PROVE  IInv'
<1>1. /\ AccountTypeOK' /\ Salted' /\ RehashKeepsPassword'
      /\ TokenTypeOK' /\ Prints'
      /\ SessionTypeOK'
      /\ RehashTypeOK' /\ Rehashing'
    BY AccountKept, TokensKept, SessionsKept, RehashKept, Zenon DEF IInv, TypeOK, SendResetOtp
<1>2. CodeTypeOK'
    BY Positive DEF IInv, TypeOK, CodeTypeOK, SendResetOtp
<1>3. RequestTypeOK' /\ Reads' /\ \A q \in Req : Ready(q)'
    BY ReturnKeeps, Zenon DEF IInv, TypeOK, SendResetOtp
<1>4. Spending'
    BY ReturnKeeps, SpendingKept, Zenon DEF IInv, TypeOK, SendResetOtp, tokens
<1>5. Paid'
  <2>1. \A q \in Req : pc'[q] = IF q = r THEN "idle" ELSE pc[q]
    BY Zenon DEF IInv, TypeOK, RequestTypeOK, SendResetOtp, Return, Goto
  <2>2. Sending' = Sending \ {r} /\ r \in Sending
    BY <2>1, Zenon DEF Sending, SendResetOtp, At
  <2>3. Cardinality(Sending') = Cardinality(Sending) - 1 /\ Cardinality(Sending') \in Nat
    BY <2>2, SendingFinite, FS_RemoveElement, FS_CardinalityType, Zenon
  <2>4. MaxTries * Cardinality(Sending) = MaxTries * Cardinality(Sending') + MaxTries
    BY <2>3, SendingFinite, Positive
  <2>5. Admits' = MaxTries /\ Admits \in Nat /\ UNCHANGED <<guesses, windows>>
    BY Positive DEF IInv, TypeOK, CodeTypeOK, SendResetOtp, Admits
  <2> QED
    BY <2>3, <2>4, <2>5, SendingFinite, Positive DEF IInv, TypeOK, CodeTypeOK, Paid
<1> QED
    BY <1>1, <1>2, <1>3, <1>4, <1>5, Zenon DEF IInv, TypeOK

\* A link token is stored.
LEMMA PutTokenKeeps ==
    ASSUME IInv, NEW r \in Req, NEW p \in Proof, PutToken(r, p)
    PROVE  IInv'
<1>1. \A q \in Req : q # r => proof'[q] = proof[q]
    BY Zenon DEF IInv, TypeOK, RequestTypeOK, PutToken
<1>2. (\A q \in Req : Holds(q)' \subseteq Holds(q)) /\ Sending' \subseteq Sending
    BY <1>1, Places, MoveKeeps, Zenon DEF IInv, TypeOK, PutToken
<1>3. /\ AccountTypeOK' /\ Salted' /\ RehashKeepsPassword'
      /\ CodeTypeOK'
      /\ SessionTypeOK'
      /\ RehashTypeOK' /\ Rehashing'
    BY AccountKept, CodesKept, SessionsKept, RehashKept, Zenon DEF IInv, TypeOK, PutToken
<1>4. TokenTypeOK' /\ Prints'
  <2>1. links' \in SUBSET Proof
    BY Zenon DEF IInv, TypeOK, TokenTypeOK, PutToken
  <2> QED
    BY <2>1, PutKeeps, Zenon DEF IInv, TypeOK, PutToken
<1>5. RequestTypeOK' /\ Reads' /\ \A q \in Req : Ready(q)'
    BY Zenon DEF IInv, TypeOK, RequestTypeOK, Reads, Ready, PutToken, Goto, PC
<1>6. Spending'
    BY <1>2, PutSpends, Zenon DEF IInv, PutToken
<1>7. Paid'
    BY <1>2, PaidKept, Zenon DEF IInv, TypeOK, PutToken
<1> QED
    BY <1>3, <1>4, <1>5, <1>6, <1>7, Zenon DEF IInv, TypeOK

\* A verified-code token is stored.
LEMMA PutVerifiedKeeps ==
    ASSUME IInv, NEW r \in Req, NEW p \in Proof, PutVerified(r, p)
    PROVE  IInv'
<1>1. /\ AccountTypeOK' /\ Salted' /\ RehashKeepsPassword'
      /\ CodeTypeOK'
      /\ SessionTypeOK'
      /\ RehashTypeOK' /\ Rehashing'
    BY AccountKept, CodesKept, SessionsKept, RehashKept, Zenon DEF IInv, TypeOK, PutVerified
<1>2. TokenTypeOK' /\ Prints'
  <2>1. links' \in SUBSET Proof
    BY Zenon DEF IInv, TypeOK, TokenTypeOK, PutVerified
  <2> QED
    BY <2>1, PutKeeps, Zenon DEF IInv, TypeOK, PutVerified
<1>3. RequestTypeOK' /\ Reads' /\ \A q \in Req : Ready(q)'
    BY ReturnKeeps, Zenon DEF IInv, TypeOK, PutVerified
<1>4. Spending'
    BY ReturnKeeps, PutSpends, Zenon DEF IInv, TypeOK, PutVerified
<1>5. Paid'
    BY ReturnKeeps, PaidKept, Zenon DEF IInv, TypeOK, PutVerified
<1> QED
    BY <1>1, <1>2, <1>3, <1>4, <1>5, Zenon DEF IInv, TypeOK

\* The mail went out, or the token is deleted.
LEMMA SentKeeps ==
    ASSUME IInv, NEW r \in Req, NEW delivered \in BOOLEAN, Sent(r, delivered)
    PROVE  IInv'
<1>1. TokenTypeOK' /\ Prints' /\ held' \subseteq held
  <2>1. CASE UNCHANGED <<held, print, since>>
    BY <2>1, TokensKept, Zenon DEF IInv, TypeOK, Sent, tokens
  <2>2. CASE \A p \in proof[r] : Consume(p)
    <3>1. PICK p \in Proof : proof[r] = {p}
        BY Zenon DEF IInv, Ready, Sent, At
    <3>2. Consume(p)
        BY <2>2, <3>1, Zenon
    <3>3. UNCHANGED <<minted, links, spent>>
        BY Zenon DEF Sent
    <3> QED
        BY <3>2, <3>3, ConsumeTypes, Zenon DEF IInv, TypeOK
  <2> QED
    BY <2>1, <2>2, Zenon DEF Sent
<1>2. /\ AccountTypeOK' /\ Salted' /\ RehashKeepsPassword'
      /\ CodeTypeOK'
      /\ SessionTypeOK'
      /\ RehashTypeOK' /\ Rehashing'
    BY AccountKept, CodesKept, SessionsKept, RehashKept, Zenon DEF IInv, TypeOK, Sent
<1>3. TokenTypeOK' /\ Prints'
    BY <1>1, Zenon
<1>4. RequestTypeOK' /\ Reads' /\ \A q \in Req : Ready(q)'
    BY ReturnKeeps, Zenon DEF IInv, TypeOK, Sent
<1>5. Spending'
    BY <1>1, ReturnKeeps, SpendingKept, Zenon DEF IInv, TypeOK, Sent
<1>6. Paid'
    BY ReturnKeeps, PaidKept, Zenon DEF IInv, TypeOK, Sent
<1> QED
    BY <1>2, <1>3, <1>4, <1>5, <1>6, Zenon DEF IInv, TypeOK

\* A token changes hands, from the store to one request.
LEMMA PresentKeeps ==
    ASSUME IInv, NEW r \in Req, NEW p \in Proof, NEW w \in Password, Present(r, p, w)
    PROVE  IInv'
<1>1. \A q \in Req : pc'[q] = IF q = r THEN "bind" ELSE pc[q]
    BY Zenon DEF IInv, TypeOK, RequestTypeOK, Present, Goto
<1>2. Holds(r)' = {p} /\ \A q \in Req : q # r => Holds(q)' = Holds(q)
    BY <1>1, Zenon DEF IInv, TypeOK, RequestTypeOK, Present, Holds
<1>3. Sending' \subseteq Sending
    BY <1>1, Zenon DEF Sending
<1>4. /\ AccountTypeOK' /\ Salted' /\ RehashKeepsPassword'
      /\ CodeTypeOK'
      /\ SessionTypeOK'
      /\ RehashTypeOK' /\ Rehashing'
    BY AccountKept, CodesKept, SessionsKept, RehashKept, Zenon DEF IInv, TypeOK, Present
<1>5. TokenTypeOK' /\ Prints'
    BY ConsumeTypes, Zenon DEF IInv, TypeOK, Present
<1>6. RequestTypeOK' /\ Reads' /\ \A q \in Req : Ready(q)'
  <2>1. RequestTypeOK'
    BY Zenon DEF IInv, TypeOK, RequestTypeOK, TokenTypeOK, Present, Goto, PC
  <2>2. Reads'
    BY Zenon DEF IInv, TypeOK, RequestTypeOK, Reads, Prints, Present
  <2>3. \A q \in Req : q # r => pw'[q] = pw[q] /\ proof'[q] = proof[q]
    BY Zenon DEF IInv, TypeOK, RequestTypeOK, Present
  <2>4. pw'[r] # NoPhc
    BY CredentialsAssumption, Zenon DEF IInv, TypeOK, RequestTypeOK, Present
  <2>5. \A q \in Req : Ready(q)'
    BY <1>1, <2>3, <2>4 DEF IInv, Ready
  <2> QED
    BY <2>1, <2>2, <2>5, Zenon
<1>7. Spending'
  <2>1. p \in held /\ p \in minted /\ spent[p] = 0 /\ held' = held \ {p} /\ UNCHANGED <<minted, spent>>
    BY Zenon DEF IInv, Spending, Present, Consume
  <2>2. \A q \in Req : p \notin Holds(q)
    BY <2>1, Zenon DEF IInv, Spending
  <2>3. \A q \in Req : \A o \in Holds(q)' : o \in minted' /\ o \notin held' /\ spent'[o] = 0
    BY <1>2, <2>1 DEF IInv, Spending
  <2>4. \A q, s \in Req : q # s => Holds(q)' \cap Holds(s)' = {}
    BY <1>2, <2>2, SMT DEF IInv, Spending
  <2> QED
    BY <2>1, <2>3, <2>4, Zenon DEF IInv, Spending
<1>8. Paid'
    BY <1>3, PaidKept, Zenon DEF IInv, TypeOK, Present
<1> QED
    BY <1>4, <1>5, <1>6, <1>7, <1>8, Zenon DEF IInv, TypeOK

\* The proof is still bound.
LEMMA BindKeeps ==
    ASSUME IInv, NEW r \in Req, Bind(r)
    PROVE  IInv'
<1>1. \A q \in Req : pc'[q] = IF q = r THEN "reset" ELSE pc[q]
    BY Zenon DEF IInv, TypeOK, RequestTypeOK, Bind, Goto
<1>2. (\A q \in Req : Holds(q)' \subseteq Holds(q)) /\ Sending' \subseteq Sending
    BY <1>1, Zenon DEF Holds, Sending, Bind, At
<1>3. /\ AccountTypeOK' /\ Salted' /\ RehashKeepsPassword'
      /\ TokenTypeOK' /\ Prints'
      /\ CodeTypeOK'
      /\ SessionTypeOK'
      /\ RehashTypeOK' /\ Rehashing'
    BY AccountKept, TokensKept, CodesKept, SessionsKept, RehashKept, Zenon DEF IInv, TypeOK, Bind
<1>4. RequestTypeOK' /\ Reads' /\ \A q \in Req : Ready(q)'
    BY <1>1, Zenon DEF IInv, TypeOK, RequestTypeOK, Reads, Ready, Bind, At, Goto, PC
<1>5. Spending'
    BY <1>2, SpendingKept, Zenon DEF IInv, Bind, tokens
<1>6. Paid'
    BY <1>2, PaidKept, Zenon DEF IInv, TypeOK, Bind
<1> QED
    BY <1>3, <1>4, <1>5, <1>6, Zenon DEF IInv, TypeOK

\* The token in hand is spent.
LEMMA ApplyPasswordResetKeeps ==
    ASSUME IInv, NEW r \in Req, ApplyPasswordReset(r)
    PROVE  IInv'
<1>1. RequestTypeOK /\ Goto(r, "revoke") /\ At(r, "reset") /\ UNCHANGED <<pw, read, proof, kept, seen>>
    BY Zenon DEF IInv, TypeOK, ApplyPasswordReset
<1>2. \A q \in Req : pc'[q] = IF q = r THEN "revoke" ELSE pc[q]
    BY <1>1, Zenon DEF RequestTypeOK, Goto
<1>3. /\ proof[r] = Holds(r) /\ Holds(r)' = {}
      /\ \A q \in Req : q # r => Holds(q)' = Holds(q)
    BY <1>1, <1>2, Zenon DEF Holds, At
<1>4. Sending' \subseteq Sending
    BY <1>2, Zenon DEF Sending
<1>5. /\ CodeTypeOK'
      /\ SessionTypeOK'
    BY CodesKept, SessionsKept, Zenon DEF IInv, TypeOK, ApplyPasswordReset
<1>6. AccountTypeOK' /\ Salted' /\ RehashKeepsPassword'
  <2>1. pw[r] \in Password
    BY <1>1, Zenon DEF IInv, RequestTypeOK, Ready, At
  <2>2. chosen' \in Password /\ raced' \in BOOLEAN
    BY <2>1, Zenon DEF IInv, TypeOK, AccountTypeOK, ApplyPasswordReset
  <2> QED
    BY <2>1, <2>2, WriteKeeps, Zenon DEF IInv, TypeOK, ApplyPasswordReset
<1>7. TokenTypeOK' /\ Prints'
  <2>1. TokenTypeOK
    BY Zenon DEF IInv, TypeOK
  <2>2. spent' \in [Proof -> Nat]
    BY <2>1 DEF TokenTypeOK, ApplyPasswordReset
  <2> QED
    BY <2>2, Zenon DEF IInv, TypeOK, TokenTypeOK, Prints, ApplyPasswordReset
<1>8. RequestTypeOK' /\ Reads' /\ \A q \in Req : Ready(q)'
    BY <1>1, GotoKeeps, Zenon DEF IInv, PC
<1>9. RehashTypeOK' /\ Rehashing'
    BY OvertakeKeeps, Zenon DEF IInv, TypeOK, ApplyPasswordReset
<1>10. Spending'
  <2>1. /\ \A p \in Proof : spent'[p] = IF p \in Holds(r) THEN spent[p] + 1 ELSE spent[p]
        /\ UNCHANGED <<held, minted>>
    BY <1>1, <1>3, Zenon DEF ApplyPasswordReset
  <2>2. \A q \in Req : Holds(q) \subseteq Proof
    BY <1>1, Zenon DEF RequestTypeOK, Holds
  <2>3. \A p \in Holds(r) : p \in minted /\ p \notin held /\ spent[p] = 0
    BY Zenon DEF IInv, Spending
  <2>4. \A q \in Req : \A p \in Holds(q)' : p \notin Holds(r) /\ p \in Holds(q)
    BY <1>3, Zenon DEF IInv, Spending
  <2>5. \A q \in Req : \A p \in Holds(q)' : p \in minted' /\ p \notin held' /\ spent'[p] = 0
    BY <2>1, <2>2, <2>4, Zenon DEF IInv, Spending
  <2>6. \A q, s \in Req : q # s => Holds(q)' \cap Holds(s)' = {}
    BY <1>3, Zenon DEF IInv, Spending
  <2>7. \A p \in Proof : (p \in held' \/ p \notin minted' => spent'[p] = 0) /\ spent'[p] <= 1
    BY <2>1, <2>3 DEF IInv, Spending
  <2> QED
    BY <2>1, <2>5, <2>6, <2>7, Zenon DEF IInv, Spending
<1>11. Paid'
    BY <1>4, PaidKept, Zenon DEF IInv, TypeOK, ApplyPasswordReset
<1> QED
    BY <1>5, <1>6, <1>7, <1>8, <1>9, <1>10, <1>11, Zenon DEF IInv, TypeOK

-----------------------------------------------------------------------------
(* Theorems.                                                               *)

LEMMA IInvInit == Init => IInv
<1> SUFFICES ASSUME Init PROVE IInv
    BY Zenon
<1>1. AccountTypeOK /\ Salted /\ RehashKeepsPassword
  <2>1. chosen \in Password /\ writes = 0 /\ raced = FALSE /\ method \in {"token", "otp"}
    BY Zenon DEF Init
  <2>2. raced \in BOOLEAN
    BY <2>1, Zenon
  <2>3. CASE hash = NoPhc
    BY <2>1, <2>2, <2>3, Zenon DEF AccountTypeOK, Salted, RehashKeepsPassword
  <2>4. CASE \E o \in BOOLEAN : hash = [pw |-> chosen, salt |-> 0, old |-> o]
    <3>1. hash \in Phc /\ hash.pw = chosen /\ hash.salt = 0
        BY <2>1, <2>4 DEF Phc
    <3>2. hash # NoPhc
        BY <3>1, CredentialsAssumption, Zenon DEF Phc
    <3> QED
        BY <2>1, <2>2, <3>1, <3>2, Zenon DEF AccountTypeOK, Salted, RehashKeepsPassword
  <2> QED
    BY <2>3, <2>4, Zenon DEF Init
<1>2. TokenTypeOK /\ Prints
    BY Zenon DEF Init, TokenTypeOK, Prints
<1>3. CodeTypeOK
  <2>1. code \in BOOLEAN /\ cooling \in BOOLEAN
    BY Zenon DEF Init
  <2> QED
    BY <2>1, Positive DEF Init, CodeTypeOK
<1>4. SessionTypeOK
    BY Zenon DEF Init, SessionTypeOK
<1>5. RequestTypeOK /\ Reads /\ \A r \in Req : Ready(r)
    BY Zenon DEF Init, RequestTypeOK, Reads, Ready, PC
<1>6. RehashTypeOK /\ Rehashing
    BY Zenon DEF Init, RehashTypeOK, Rehashing
<1>7. Spending
    BY DEF Init, Spending, Holds
<1>8. Paid
  <2>1. Sending = {}
    BY Zenon DEF Init, Sending
  <2>2. Cardinality(Sending) = 0
    BY <2>1, FS_EmptySet, Zenon
  <2>3. Admits = 0 /\ guesses = 0 /\ windows = 0
    BY Zenon DEF Init, Admits
  <2> QED
    BY <2>2, <2>3, Positive DEF Paid
<1> QED
    BY <1>1, <1>2, <1>3, <1>4, <1>5, <1>6, <1>7, <1>8, Zenon DEF IInv, TypeOK

LEMMA IInvReq == ASSUME IInv, NEW r \in Req, ReqNext(r) PROVE IInv'
<1>1. ASSUME NEW k \in {{}} \cup {{s} : s \in live}, SettleKept(r, k) PROVE IInv'
  <2>1. k \in SUBSET Nat
    BY <1>1, Zenon DEF IInv, TypeOK, SessionTypeOK
  <2> QED
    BY <1>1, <2>1, SettleKeptKeeps, Zenon
<1>2. CASE \/ Login(r) \/ Issue(r) \/ RehashCheck(r) \/ RehashWrite(r) \/ RehashDies(r)
           \/ Forgot(r) \/ Resend(r) \/ ForgotReads(r) \/ SendResetOtp(r)
           \/ CodeRefused(r) \/ VerifyResetOtp(r) \/ VerifiedReads(r)
    BY <1>2, LoginKeeps, IssueKeeps, RehashCheckKeeps, RehashWriteKeeps, RehashDiesKeeps,
       ForgotKeeps, ResendKeeps, ForgotReadsKeeps, SendResetOtpKeeps, CodeRefusedKeeps,
       VerifyResetOtpKeeps, VerifiedReadsKeeps, Zenon
<1>3. CASE \/ \E p \in Proof : PutToken(r, p) \/ PutVerified(r, p)
           \/ \E delivered \in BOOLEAN : Sent(r, delivered)
           \/ \E p \in Proof, w \in Password : Present(r, p, w)
           \/ \E w \in Password : PresentOtp(r, w) \/ ChangePassword(r, w)
    BY <1>3, PutTokenKeeps, PutVerifiedKeeps, SentKeeps, PresentKeeps, PresentOtpKeeps,
       ChangePasswordKeeps, Zenon
<1>4. CASE \/ Bind(r) \/ BindRefused(r) \/ ApplyPasswordReset(r) \/ RevokeAll(r) \/ BumpEpoch(r)
           \/ ChangeWrites(r) \/ EndOtherSessions(r) \/ Fail(r)
    BY <1>4, BindKeeps, BindRefusedKeeps, ApplyPasswordResetKeeps, RevokeAllKeeps, BumpEpochKeeps,
       ChangeWritesKeeps, EndOtherSessionsKeeps, FailKeeps, Zenon
<1> QED
    BY <1>1, <1>2, <1>3, <1>4, Zenon DEF ReqNext

LEMMA IInvNext == IInv /\ [Next]_vars => IInv'
<1> SUFFICES ASSUME IInv, [Next]_vars PROVE IInv'
    BY Zenon
<1>1. CASE Next
    BY <1>1, IInvReq, SessionEndsKeeps, ExpireKeeps, ExpireCodeKeeps, CooldownEndsKeeps, Zenon DEF Next
<1>2. CASE UNCHANGED vars
  <2>1. /\ UNCHANGED <<method, account>> /\ UNCHANGED tokens /\ UNCHANGED codes
        /\ UNCHANGED sessions /\ UNCHANGED local /\ UNCHANGED <<detached, account>>
        /\ UNCHANGED <<minted, spent>> /\ held' = held
    BY <1>2, Zenon DEF vars, tokens
  <2>2. /\ AccountTypeOK' /\ Salted' /\ RehashKeepsPassword'
        /\ TokenTypeOK' /\ Prints' /\ CodeTypeOK' /\ SessionTypeOK'
        /\ RequestTypeOK' /\ Reads' /\ \A q \in Req : Ready(q)'
        /\ RehashTypeOK' /\ Rehashing'
    BY <2>1, AccountKept, TokensKept, CodesKept, SessionsKept, RequestsKept, RehashKept, Zenon
    DEF IInv, TypeOK
  <2>3. Spending' /\ Paid'
    BY <2>1, StayKeeps, SpendingKept, PaidKept, Zenon DEF IInv, TypeOK
  <2> QED
    BY <2>2, <2>3, Zenon DEF IInv, TypeOK
<1> QED
    BY <1>1, <1>2, Zenon

\* The inductive invariant holds in every reachable state.
THEOREM Invariance == Spec => []IInv
<1> QED
    BY IInvInit, IInvNext, PTL DEF Spec

\* Every variable keeps its type.
THEOREM TypeCorrect == Spec => []TypeOK
<1>1. IInv => TypeOK
    BY Zenon DEF IInv
<1> QED
    BY <1>1, Invariance, PTL

\* run_rehash_password: unless a rehash was overtaken between its second read
\* and its write, the stored password is the one a reset or a change last set.
THEOREM RehashesKeepPassword == Spec => []RehashKeepsPassword
<1>1. IInv => RehashKeepsPassword
    BY Zenon DEF IInv
<1> QED
    BY <1>1, Invariance, PTL

\* consume_token: a reset token changes the password at most once, whatever the
\* number of workers that present it.
THEOREM ProofsAreSpentOnce == Spec => []ProofSpentOnce
<1>1. IInv => ProofSpentOnce
    BY Zenon DEF IInv, Spending, ProofSpentOnce
<1> QED
    BY <1>1, Invariance, PTL

\* try_begin_resend: every guess at a one-time code was paid for by a cooldown,
\* at MaxTries for each.
THEOREM GuessesArePaidFor == Spec => []OtpGuessBudget
<1>1. IInv => OtpGuessBudget
  <2> SUFFICES ASSUME IInv PROVE OtpGuessBudget
    BY Zenon
  <2>1. CodeTypeOK /\ Paid
    BY Zenon DEF IInv, TypeOK
  <2>2. Admits \in Nat /\ guesses \in Nat /\ windows \in Nat
    BY <2>1, Positive DEF CodeTypeOK, Admits
  <2>3. MaxTries * Cardinality(Sending) \in Nat /\ MaxTries * windows \in Nat
    BY <2>2, Positive, SendingFinite
  <2> QED
    BY <2>1, <2>2, <2>3 DEF Paid, OtpGuessBudget
<1> QED
    BY <1>1, Invariance, PTL

\* assert_proof_still_bound: a bound proof is accepted only if no password write
\* of any kind has happened since its account was read.
THEOREM StaleProofsAreRefused == Spec => StaleProofRefused
<1>1. IInv /\ [Next]_vars
        => [\A r \in Req : Bind(r) /\ read[r] # NoPhc => seen[r] = writes]_vars
    BY Zenon DEF IInv, Salted, Reads, Bind, StillBound
<1> QED
    BY <1>1, Invariance, PTL DEF Spec, StaleProofRefused

===============================================================================
