--------------------------- MODULE IdentityProofs ---------------------------
(***************************************************************************)
(* Machine-checked proofs about who an account belongs to and whether it   *)
(* may be used: Identity, then AccountGate, for any number of accounts,    *)
(* addresses, links, states, calls and requests.                           *)
(*                                                                         *)
(* Each property of Identity needs what a call carries between its steps:  *)
(* an address whose mailbox has answered, an account whose address is      *)
(* proven, a link no younger than the password of its account (InHand,     *)
(* Linked).  Other calls keep what they carry because an account only      *)
(* evolves in two ways that matter: a proven address gives way to a proven *)
(* address, and a password, once set, only to the new one (Evolves).       *)
(***************************************************************************)
EXTENDS Identity, AccountGate, TLAPS

\* A password copied from account a while it was in force.
Copied(a, pw) ==
    /\ a \in Account
    /\ pw \in {"old", "new"}
    /\ account[a].pw \in {"old", "new"}
    /\ pw = "new" => account[a].pw = "new"

ProvenAccount(a) == a \in Account /\ account[a].email \in proven

\* What a call carries at each stage.
InHand(c) ==
    /\ pc[c] \in {"create", "code", "owner", "free", "put", "bound", "recheck", "move",
                  "identify", "enrol"} => job[c].email \in Address
    /\ pc[c] \in {"owner", "bound", "recheck", "move"} => job[c].email \in proven
    /\ pc[c] \in {"identify", "enrol"} /\ job[c].flag = TRUE => job[c].email \in proven
    /\ pc[c] \in {"link", "refetch"} => job[c].id \in Account
    /\ pc[c] = "mark" => ProvenAccount(job[c].id)
    /\ pc[c] = "issue" => job[c].id \in Account
    /\ pc[c] = "issue" /\ Required = TRUE => ProvenAccount(job[c].id)
    /\ pc[c] \in {"free", "put", "bound", "recheck", "move"} => Copied(job[c].id, job[c].pw)
    /\ pc[c] = "bound" /\ job[c].flag = TRUE => account[job[c].id].pw # job[c].pw
    /\ pc[c] \in {"recheck", "move"} => job[c].flag = FALSE

Linked == \A l \in Link : link[l] # NoLink => link[l].email \in Address /\ Copied(link[l].id, link[l].pw)
Verified == \A a \in Account : account[a].verified = TRUE => account[a].email \in proven

IInv ==
    /\ TypeOK
    /\ Verified
    /\ Linked
    /\ \A c \in Call : InHand(c)

-----------------------------------------------------------------------------
\* How a step may change what other calls and links rely on.
Evolves ==
    /\ proven \subseteq proven'
    /\ \A a \in Account :
        /\ account[a].email \in proven => account'[a].email \in proven'
        /\ account[a].pw \in {"old", "new"} => account'[a].pw \in {account[a].pw, "new"}

LEMMA CopiedKept ==
    ASSUME Evolves, NEW a, NEW pw, Copied(a, pw)
    PROVE  Copied(a, pw)'
BY Zenon DEF Evolves, Copied

LEMMA ProvenKept ==
    ASSUME Evolves, NEW a, ProvenAccount(a)
    PROVE  ProvenAccount(a)'
BY Zenon DEF Evolves, ProvenAccount

LEMMA InHandKept ==
    ASSUME Evolves, NEW c \in Call, InHand(c), pc'[c] = pc[c], job'[c] = job[c]
    PROVE  InHand(c)'
<1>1. \A a, pw : Copied(a, pw) => Copied(a, pw)'
  BY CopiedKept, Zenon
<1>2. \A a : ProvenAccount(a) => ProvenAccount(a)'
  BY ProvenKept, Zenon
<1>3. proven \subseteq proven'
  BY Zenon DEF Evolves
<1>4. pc[c] = "bound" /\ job[c].flag = TRUE => account'[job[c].id].pw # job[c].pw
  BY Zenon DEF InHand, Copied, Evolves
<1> QED BY <1>1, <1>2, <1>3, <1>4, Zenon DEF InHand

LEMMA LinkedKept ==
    ASSUME Evolves, Linked, link' = link
    PROVE  Linked'
<1>1. \A a, pw : Copied(a, pw) => Copied(a, pw)'
  BY CopiedKept, Zenon
<1> QED BY <1>1, Zenon DEF Linked

\* Nothing that matters changes when the repository and the proofs stand still.
LEMMA StillEvolves ==
    ASSUME account' = account, proven \subseteq proven'
    PROVE  Evolves
BY Zenon DEF Evolves

\* Only call c moves.
Others(c) == \A d \in Call \ {c} : pc'[d] = pc[d] /\ job'[d] = job[d]

\* The types, in groups: the store, the calls.
StoreTypeOK ==
    /\ otp \in SUBSET Address
    /\ link \in [Link -> [id : Account \cup {NoOne}, email : Address \cup {NoOne}, pw : Password]]
    /\ state \in SUBSET Nonce
    /\ used \in SUBSET (Link \cup Nonce)
    /\ spent \in SUBSET Nonce
    /\ proven \in SUBSET Address
Row == [email : Address \cup {NoOne}, verified : BOOLEAN, pw : Password, oauth : BOOLEAN,
        active : BOOLEAN]
Job == [id : Account \cup {NoOne}, email : Address \cup {NoOne}, pw : Password, flag : BOOLEAN]
CallTypeOK == pc \in [Call -> Stage] /\ job \in [Call -> Job]

LEMMA TypeGroups ==
    TypeOK <=> StoreTypeOK /\ account \in [Account -> Row] /\ CallTypeOK
BY Zenon DEF TypeOK, StoreTypeOK, CallTypeOK, Row, Job

\* What is left to show of an action of call c.
LEMMA Preserved ==
    ASSUME IInv, NEW c \in Call, Evolves, Others(c), InHand(c)', Linked', Verified',
           StoreTypeOK', account' \in [Account -> Row], CallTypeOK'
    PROVE  IInv'
<1>1. TypeOK'
  BY Zenon DEF TypeOK, StoreTypeOK, CallTypeOK, Row, Job
<1>2. ASSUME NEW d \in Call PROVE InHand(d)'
  <2>1. CASE d = c
    BY <2>1, Zenon
  <2>2. CASE d # c
    BY <2>2, InHandKept, Zenon DEF IInv, Others
  <2> QED BY <2>1, <2>2, Zenon
<1> QED BY <1>1, <1>2, Zenon DEF IInv

LEMMA Moved ==
    ASSUME CallTypeOK, NEW c \in Call, NEW stage \in Stage, NEW j \in Job,
           pc' = [pc EXCEPT ![c] = stage], job' = [job EXCEPT ![c] = j]
    PROVE  CallTypeOK' /\ Others(c) /\ pc'[c] = stage /\ job'[c] = j
BY Zenon DEF CallTypeOK, Others

LEMMA NoJobTyped == NoJob \in Job /\ "idle" \in Stage
BY Zenon DEF NoJob, Carry, Job, Password, Stage

LEMMA Finished ==
    ASSUME CallTypeOK, NEW c \in Call, Finish(c)
    PROVE  CallTypeOK' /\ Others(c) /\ InHand(c)'
<1>1. pc' = [pc EXCEPT ![c] = "idle"] /\ job' = [job EXCEPT ![c] = NoJob]
  BY Zenon DEF Finish, Goto
<1>2. CallTypeOK' /\ Others(c) /\ pc'[c] = "idle"
  BY <1>1, NoJobTyped, Moved, Zenon
<1> QED BY <1>2, Zenon DEF InHand

LEMMA Proceeded ==
    ASSUME CallTypeOK, NEW c \in Call, NEW stage \in Stage, Proceed(c, stage)
    PROVE  CallTypeOK' /\ Others(c) /\ pc'[c] = stage /\ job'[c] = job[c]
BY Zenon DEF CallTypeOK, Others, Proceed, Goto

\* An action that only moves call c on.
LEMMA PreservedQuietly ==
    ASSUME IInv, NEW c \in Call, UNCHANGED <<account, store, history>>,
           Others(c), InHand(c)', CallTypeOK'
    PROVE  IInv'
<1>1. Evolves
  BY StillEvolves, Zenon DEF history
<1>2. Linked'
  BY <1>1, LinkedKept, Zenon DEF IInv, store
<1>3. Verified'
  BY Zenon DEF IInv, Verified, history
<1>4. StoreTypeOK' /\ account' \in [Account -> Row]
  BY TypeGroups, Zenon DEF IInv, StoreTypeOK, store, history
<1> QED BY <1>1, <1>2, <1>3, <1>4, Preserved, Zenon

LEMMA Initially == Init => IInv
<1> SUFFICES ASSUME Init PROVE IInv
  BY Zenon
<1>1. TypeOK
  BY Zenon DEF Init, TypeOK, Absent, NoLink, NoJob, Carry, Password, Stage
<1>2. Verified /\ Linked /\ \A c \in Call : InHand(c)
  BY Zenon DEF Init, Verified, Linked, InHand, Absent
<1> QED BY <1>1, <1>2, Zenon DEF IInv

-----------------------------------------------------------------------------
(* One lemma per action.                                                   *)

\* Rows the repository creates or rewrites are rows.
LEMMA Rows ==
    ASSUME NEW e \in Address, NEW v \in BOOLEAN, NEW pw \in Password, NEW o \in BOOLEAN
    PROVE  [email |-> e, verified |-> v, pw |-> pw, oauth |-> o, active |-> TRUE] \in Row
BY Zenon DEF Row

\* An id the repository has not used carries nothing.
LEMMA Unused ==
    ASSUME IInv, NEW a \in Account, ~Exists(a)
    PROVE  account[a].email \notin Address /\ account[a].pw = "none"
<1>1. account[a] = Absent
  BY IdentityAssumption, Zenon DEF Exists
<1> QED BY <1>1, IdentityAssumption DEF Absent

\* A new row at such an id.
LEMMA Created ==
    ASSUME IInv, NEW a \in Account, ~Exists(a), NEW row \in Row,
           row.verified = TRUE => row.email \in proven',
           account' = [account EXCEPT ![a] = row],
           proven \subseteq proven'
    PROVE  Evolves /\ Verified' /\ account' \in [Account -> Row]
<1>1. account \in [Account -> Row] /\ proven \subseteq Address
  BY TypeGroups, Zenon DEF IInv, StoreTypeOK
<1>2. account' \in [Account -> Row]
  BY <1>1, Zenon
<1>3. Evolves
  BY <1>1, Unused, Zenon DEF Evolves
<1>4. Verified'
  BY <1>1, Zenon DEF Verified, IInv
<1> QED BY <1>2, <1>3, <1>4, Zenon

LEMMA Carried ==
    ASSUME NEW a \in Account \cup {NoOne}, NEW e \in Address \cup {NoOne}, NEW pw \in Password,
           NEW flag \in BOOLEAN
    PROVE  /\ Carry(a, e, pw, flag) \in Job
           /\ Carry(a, e, pw, flag).id = a
           /\ Carry(a, e, pw, flag).email = e
           /\ Carry(a, e, pw, flag).pw = pw
           /\ Carry(a, e, pw, flag).flag = flag
BY Zenon DEF Carry, Job

LEMMA CarriedAddress ==
    ASSUME NEW e \in Address, NEW flag \in BOOLEAN
    PROVE  LET j == Carry(NoOne, e, "none", flag) IN
           j \in Job /\ j.email = e /\ j.flag = flag
BY Zenon DEF Carry, Job, Password

LEMMA CarriedAccount ==
    ASSUME NEW a \in Account
    PROVE  LET j == Carry(a, NoOne, "none", FALSE) IN j \in Job /\ j.id = a
BY Zenon DEF Carry, Job, Password

LEMMA RegisterKeeps ==
    ASSUME IInv, NEW c \in Call, NEW e \in Address, Register(c, e)
    PROVE  IInv'
<1> DEFINE j == Carry(NoOne, e, "none", FALSE)
<1>1. j \in Job /\ j.email = e
  BY CarriedAddress, Zenon
<1>a. "create" \in Stage
  BY Zenon DEF Stage
<1>2. CallTypeOK' /\ Others(c) /\ pc'[c] = "create" /\ job'[c] = j
  BY <1>1, <1>a, Moved, TypeGroups, Zenon DEF IInv, Register, Begin, Goto
<1>3. InHand(c)'
  BY <1>1, <1>2, Zenon DEF InHand
<1> QED BY <1>2, <1>3, PreservedQuietly, Zenon DEF Register

LEMMA ResendKeeps ==
    ASSUME IInv, NEW c \in Call, NEW e \in Address, Resend(c, e)
    PROVE  IInv'
<1> DEFINE j == Carry(NoOne, e, "none", FALSE)
<1>1. j \in Job /\ j.email = e
  BY CarriedAddress, Zenon
<1>a. "code" \in Stage
  BY Zenon DEF Stage
<1>2. CallTypeOK' /\ Others(c) /\ pc'[c] = "code" /\ job'[c] = j
  BY <1>1, <1>a, Moved, TypeGroups, Zenon DEF IInv, Resend, Begin, Goto
<1>3. InHand(c)'
  BY <1>1, <1>2, Zenon DEF InHand
<1> QED BY <1>2, <1>3, PreservedQuietly, Zenon DEF Resend

LEMMA VerifyKeeps ==
    ASSUME IInv, NEW c \in Call, NEW e \in Address, Verify(c, e)
    PROVE  IInv'
<1> DEFINE j == Carry(NoOne, e, "none", FALSE)
<1>1. j \in Job /\ j.email = e
  BY CarriedAddress, Zenon
<1>a. "owner" \in Stage
  BY Zenon DEF Stage
<1>b. TypeOK /\ proven' = proven \cup {e} /\ account' = account /\ link' = link
  BY Zenon DEF IInv, Verify
<1>2. CallTypeOK' /\ Others(c) /\ pc'[c] = "owner" /\ job'[c] = j
  BY <1>1, <1>a, Moved, TypeGroups, Zenon DEF IInv, Verify, Begin, Goto
<1>3. InHand(c)'
  BY <1>1, <1>2, <1>b, Zenon DEF InHand
<1>4. Evolves
  BY <1>b, StillEvolves, Zenon
<1>5. Linked'
  BY <1>4, <1>b, LinkedKept, Zenon DEF IInv
<1>6. Verified'
  BY <1>b, Zenon DEF Verified, IInv
<1>7. StoreTypeOK' /\ account' \in [Account -> Row]
  BY <1>b, TypeGroups, Zenon DEF StoreTypeOK, Verify
<1> QED BY <1>2, <1>3, <1>4, <1>5, <1>6, <1>7, Preserved, Zenon

LEMMA CreateKeeps ==
    ASSUME IInv, NEW c \in Call, Create(c)
    PROVE  IInv'
<1>0. StoreTypeOK /\ CallTypeOK /\ job[c].email \in Address
  BY TypeGroups, Zenon DEF IInv, InHand, Create
<1>1. CASE At(job[c].email) # {}
  <2>1. UNCHANGED <<account, store, history>> /\ Finish(c)
    BY <1>1, Zenon DEF Create, history
  <2> QED BY <2>1, <1>0, Finished, PreservedQuietly, Zenon
<1>2. CASE At(job[c].email) = {}
  <2> DEFINE e == job[c].email
             row(v) == [email |-> e, verified |-> v, pw |-> "old", oauth |-> FALSE, active |-> TRUE]
  <2>1. PICK a \in Account, v \in BOOLEAN :
            /\ ~Exists(a)
            /\ account' = [account EXCEPT ![a] = row(v)]
            /\ proven' = IF v THEN proven \cup {e} ELSE proven
            /\ IF Required THEN Proceed(c, "code") ELSE Finish(c)
    BY <1>2, Zenon DEF Create
  <2>2. row(v) \in Row /\ row(v).verified = v /\ row(v).email = e
    BY <1>0, Zenon DEF Row, Password
  <2>3. proven \subseteq proven' /\ (v = TRUE => e \in proven')
    BY <2>1, Zenon
  <2>4. Evolves /\ Verified' /\ account' \in [Account -> Row]
    BY <2>1, <2>2, <2>3, Created, Zenon
  <2>5. link' = link /\ otp' = otp /\ state' = state /\ used' = used /\ spent' = spent
    BY Zenon DEF Create, store
  <2>6. StoreTypeOK'
    BY <1>0, <2>1, <2>5, Zenon DEF StoreTypeOK
  <2>7. Linked'
    BY <2>4, <2>5, LinkedKept, Zenon DEF IInv
  <2>8. CallTypeOK' /\ Others(c) /\ InHand(c)'
    <3>1. CASE Finish(c)
      BY <3>1, <1>0, Finished, Zenon
    <3>2. CASE Proceed(c, "code")
      <4>1. "code" \in Stage
        BY Zenon DEF Stage
      <4>2. CallTypeOK' /\ Others(c) /\ pc'[c] = "code" /\ job'[c] = job[c]
        BY <3>2, <4>1, <1>0, Proceeded, Zenon
      <4> QED BY <4>2, <1>0, Zenon DEF InHand
    <3> QED BY <3>1, <3>2, <2>1, Zenon
  <2> QED BY <2>4, <2>6, <2>7, <2>8, Preserved, Zenon
<1> QED BY <1>1, <1>2, Zenon

LEMMA StoreCodeKeeps ==
    ASSUME IInv, NEW c \in Call, StoreCode(c)
    PROVE  IInv'
<1>0. StoreTypeOK /\ CallTypeOK /\ account \in [Account -> Row] /\ job[c].email \in Address
  BY TypeGroups, Zenon DEF IInv, InHand, StoreCode
<1>1. Finish(c) /\ account' = account /\ proven' = proven /\ link' = link
  BY Zenon DEF StoreCode, history
<1>2. Evolves
  BY <1>1, StillEvolves, Zenon
<1>3. StoreTypeOK'
  BY <1>0, Zenon DEF StoreTypeOK, StoreCode, history
<1>4. Linked'
  BY <1>1, <1>2, LinkedKept, Zenon DEF IInv
<1>5. Verified'
  BY <1>1, Zenon DEF IInv, Verified
<1> QED BY <1>0, <1>1, <1>2, <1>3, <1>4, <1>5, Finished, Preserved, Zenon

LEMMA OwnerKeeps ==
    ASSUME IInv, NEW c \in Call, Owner(c)
    PROVE  IInv'
<1>0. CallTypeOK /\ job[c].email \in proven
  BY TypeGroups, Zenon DEF IInv, InHand, Owner
<1>1. UNCHANGED <<account, store, history>>
  BY Zenon DEF Owner
<1>2. CASE At(job[c].email) = {}
  BY <1>0, <1>1, <1>2, Finished, PreservedQuietly, Zenon DEF Owner
<1>3. CASE At(job[c].email) # {}
  <2>1. PICK a \in Account : a = CHOOSE x \in Account : x \in At(job[c].email)
    BY <1>3, Zenon DEF At
  <2>2. ProvenAccount(a)
    BY <2>1, <1>0, <1>3, Zenon DEF At, ProvenAccount
  <2> DEFINE j == Carry(a, NoOne, "none", FALSE)
  <2>3. pc' = [pc EXCEPT ![c] = "mark"] /\ job' = [job EXCEPT ![c] = j]
    BY <1>3, <2>1, Zenon DEF Owner, Goto
  <2>4. j \in Job /\ j.id = a
    BY <2>1, CarriedAccount, Zenon
  <2>5. "mark" \in Stage
    BY Zenon DEF Stage
  <2>6. CallTypeOK' /\ Others(c) /\ pc'[c] = "mark" /\ job'[c] = j
    BY <2>3, <2>4, <2>5, <1>0, Moved, Zenon
  <2>7. ProvenAccount(a)'
    BY <2>2, <1>1, Zenon DEF history, ProvenAccount
  <2>8. InHand(c)'
    BY <2>4, <2>6, <2>7, Zenon DEF InHand
  <2> QED BY <1>1, <2>6, <2>8, PreservedQuietly, Zenon
<1> QED BY <1>2, <1>3, Zenon

\* One field of one row changes, and nothing else does.
LEMMA Rewritten ==
    ASSUME IInv, NEW c \in Call, UNCHANGED <<store, history>>,
           NEW a \in Account, NEW row \in Row,
           account' = [account EXCEPT ![a] = row],
           row.verified = TRUE => row.email \in proven,
           account[a].email \in proven => row.email \in proven,
           account[a].pw \in {"old", "new"} => row.pw \in {account[a].pw, "new"},
           CallTypeOK', Others(c), InHand(c)'
    PROVE  IInv'
<1>0. StoreTypeOK /\ account \in [Account -> Row]
  BY TypeGroups, Zenon DEF IInv
<1>1. account' \in [Account -> Row] /\ proven' = proven /\ link' = link
  BY <1>0, Zenon DEF store, history
<1>2. Evolves
  BY <1>0, <1>1, Zenon DEF Evolves
<1>3. Verified'
  BY <1>0, <1>1, Zenon DEF Verified, IInv
<1>4. Linked'
  BY <1>1, <1>2, LinkedKept, Zenon DEF IInv
<1>5. StoreTypeOK'
  BY <1>0, Zenon DEF StoreTypeOK, store, history
<1> QED BY <1>1, <1>2, <1>3, <1>4, <1>5, Preserved, Zenon

LEMMA MarkKeeps ==
    ASSUME IInv, NEW c \in Call, Mark(c)
    PROVE  IInv'
<1>0. CallTypeOK /\ account \in [Account -> Row] /\ ProvenAccount(job[c].id)
  BY TypeGroups, Zenon DEF IInv, InHand, Mark
<1> DEFINE a == job[c].id
           row == [account[a] EXCEPT !.verified = TRUE]
<1>1. a \in Account /\ account[a] \in Row /\ account[a].email \in proven
  BY <1>0, Zenon DEF ProvenAccount
<1>2. row \in Row /\ row.email = account[a].email /\ row.pw = account[a].pw
  BY <1>1, Zenon DEF Row
<1>3. account' = [account EXCEPT ![a] = row] /\ Finish(c) /\ UNCHANGED <<store, history>>
  BY Zenon DEF Mark
<1>4. CallTypeOK' /\ Others(c) /\ InHand(c)'
  BY <1>0, <1>3, Finished, Zenon
<1> QED BY <1>1, <1>2, <1>3, <1>4, Rewritten, Zenon

LEMMA MoveKeeps ==
    ASSUME IInv, NEW c \in Call, Move(c)
    PROVE  IInv'
<1>0. /\ CallTypeOK /\ account \in [Account -> Row]
      /\ job[c].id \in Account /\ job[c].email \in Address /\ job[c].email \in proven
  BY TypeGroups, Zenon DEF IInv, InHand, Move, Copied
<1>1. Finish(c) /\ UNCHANGED <<store, history>>
  BY Zenon DEF Move
<1>2. CallTypeOK' /\ Others(c) /\ InHand(c)'
  BY <1>0, <1>1, Finished, Zenon
<1>3. CASE At(job[c].email) # {}
  BY <1>1, <1>2, <1>3, PreservedQuietly, Zenon DEF Move
<1>4. CASE At(job[c].email) = {}
  <2> DEFINE a == job[c].id
             row == [account[a] EXCEPT !.email = job[c].email]
  <2>1. account[a] \in Row
    BY <1>0, Zenon
  <2>2. row \in Row /\ row.email = job[c].email /\ row.pw = account[a].pw
    BY <1>0, <2>1, Zenon DEF Row
  <2>3. account' = [account EXCEPT ![a] = row]
    BY <1>4, Zenon DEF Move
  <2> QED BY <1>0, <1>1, <1>2, <2>2, <2>3, Rewritten, Zenon
<1> QED BY <1>3, <1>4, Zenon

LEMMA RequestChangeKeeps ==
    ASSUME IInv, NEW c \in Call, NEW a \in Account, NEW e \in Address, RequestChange(c, a, e)
    PROVE  IInv'
<1>0. CallTypeOK /\ account[a] \in Row /\ account[a].pw # "none"
  BY TypeGroups, Zenon DEF IInv, RequestChange
<1>1. PICK pw \in Password : pw = account[a].pw
  BY <1>0, Zenon DEF Row
<1>2. Copied(a, pw)
  BY <1>0, <1>1, Zenon DEF Copied, Password
<1> DEFINE j == Carry(a, e, pw, FALSE)
<1>3. j \in Job /\ j.id = a /\ j.email = e /\ j.pw = pw
  BY <1>1, Zenon DEF Carry, Job
<1>4. "free" \in Stage
  BY Zenon DEF Stage
<1>5. CallTypeOK' /\ Others(c) /\ pc'[c] = "free" /\ job'[c] = j
  <2>1. pc' = [pc EXCEPT ![c] = "free"] /\ job' = [job EXCEPT ![c] = Carry(a, e, account[a].pw, FALSE)]
    BY Zenon DEF RequestChange, Begin, Goto
  <2>2. job' = [job EXCEPT ![c] = j]
    BY <2>1, <1>1, Zenon
  <2> QED BY <2>1, <2>2, <1>0, <1>3, <1>4, Moved, Zenon
<1>6. UNCHANGED <<account, store, history>>
  BY Zenon DEF RequestChange
<1>7. Copied(a, pw)'
  BY <1>2, <1>6, Zenon DEF Copied
<1>8. InHand(c)'
  BY <1>3, <1>5, <1>7, Zenon DEF InHand
<1> QED BY <1>5, <1>6, <1>8, PreservedQuietly, Zenon

\* The steps that only test: assert_address_is_free and assert_still_bound.
LEMMA TestKeeps ==
    ASSUME IInv, NEW c \in Call, UNCHANGED <<account, store, history>>,
           pc[c] \in {"free", "bound", "recheck"},
           \/ Finish(c)
           \/ pc[c] = "free" /\ Proceed(c, "put")
           \/ pc[c] = "bound" /\ job[c].flag = FALSE /\ Proceed(c, "recheck")
           \/ pc[c] = "recheck" /\ Proceed(c, "move")
    PROVE  IInv'
<1>0. CallTypeOK /\ InHand(c)
  BY TypeGroups, Zenon DEF IInv
<1>1. CASE Finish(c)
  BY <1>0, <1>1, Finished, PreservedQuietly, Zenon
<1>2. ASSUME NEW stage \in {"put", "recheck", "move"}, Proceed(c, stage),
             stage = "put" => pc[c] = "free",
             stage # "put" => pc[c] \in {"bound", "recheck"} /\ job[c].flag = FALSE
      PROVE  IInv'
  <2>1. stage \in Stage
    BY Zenon DEF Stage
  <2>2. CallTypeOK' /\ Others(c) /\ pc'[c] = stage /\ job'[c] = job[c]
    BY <1>0, <1>2, <2>1, Proceeded, Zenon
  <2>3. job[c].email \in Address /\ Copied(job[c].id, job[c].pw)
    BY <1>0, <1>2, Zenon DEF InHand
  <2>4. stage # "put" => job[c].email \in proven /\ job[c].flag = FALSE
    BY <1>0, <1>2, Zenon DEF InHand
  <2>5. Copied(job[c].id, job[c].pw)'
    BY <2>2, <2>3, Zenon DEF Copied
  <2>6. InHand(c)'
    <3>1. stage # "put" => job'[c].email \in proven' /\ job'[c].flag = FALSE
      BY <2>2, <2>4, Zenon DEF history
    <3>2. job'[c].email \in Address /\ stage \in {"put", "recheck", "move"}
      BY <2>2, <2>3, <1>2, Zenon
    <3> QED BY <2>2, <2>5, <3>1, <3>2, Zenon DEF InHand
  <2> QED BY <2>2, <2>6, PreservedQuietly, Zenon
<1>3. pc[c] = "recheck" => job[c].flag = FALSE
  BY <1>0, Zenon DEF InHand
<1> QED BY <1>1, <1>2, <1>3, Zenon

LEMMA FreeKeeps ==
    ASSUME IInv, NEW c \in Call, Free(c)
    PROVE  IInv'
BY TestKeeps, Zenon DEF Free

LEMMA RecheckKeeps ==
    ASSUME IInv, NEW c \in Call, Recheck(c)
    PROVE  IInv'
BY TestKeeps, Zenon DEF Recheck

LEMMA JudgeKeeps ==
    ASSUME IInv, NEW c \in Call, Judge(c)
    PROVE  IInv'
<1>1. job[c].flag \in BOOLEAN
  BY TypeGroups, Zenon DEF IInv, CallTypeOK, Job
<1>2. job[c].flag = TRUE => account[job[c].id].pw # job[c].pw
  BY Zenon DEF IInv, InHand, Judge
<1> QED BY <1>1, <1>2, TestKeeps, Zenon DEF Judge

LEMMA PutLinkKeeps ==
    ASSUME IInv, NEW c \in Call, NEW l \in Link, PutLink(c, l)
    PROVE  IInv'
<1>0. StoreTypeOK /\ CallTypeOK /\ account \in [Account -> Row]
  BY TypeGroups, Zenon DEF IInv
<1>1. job[c].email \in Address /\ Copied(job[c].id, job[c].pw) /\ job[c] \in Job
  BY <1>0, Zenon DEF IInv, InHand, PutLink, CallTypeOK
<1> DEFINE new == [id |-> job[c].id, email |-> job[c].email, pw |-> job[c].pw]
<1>2. link' = [link EXCEPT ![l] = new] /\ used' = used \cup {l} /\ Finish(c)
  BY Zenon DEF PutLink
<1>3. account' = account /\ otp' = otp /\ state' = state /\ spent' = spent /\ proven' = proven
  BY Zenon DEF PutLink
<1>4. new \in [id : Account \cup {NoOne}, email : Address \cup {NoOne}, pw : Password]
  BY <1>1, Zenon DEF Job
<1>5. StoreTypeOK'
  BY <1>0, <1>2, <1>3, <1>4, Zenon DEF StoreTypeOK
<1>6. Evolves
  BY <1>3, StillEvolves, Zenon
<1>7. Linked'
  <2>1. \A a, pw : Copied(a, pw) => Copied(a, pw)'
    BY <1>6, CopiedKept, Zenon
  <2>2. ASSUME NEW k \in Link, link'[k] # NoLink
        PROVE  (link[k].email \in Address /\ Copied(link[k].id, link[k].pw))'
    <3>1. CASE k = l
      <4>1. link'[k] = new
        BY <1>0, <1>2, <3>1, Zenon DEF StoreTypeOK
      <4> QED BY <4>1, <1>1, <1>3 DEF Copied
    <3>2. CASE k # l
      <4>1. link'[k] = link[k]
        BY <1>0, <1>2, <3>2, Zenon DEF StoreTypeOK
      <4> QED BY <4>1, <2>2, <1>3, Zenon DEF IInv, Linked, Copied
    <3> QED BY <3>1, <3>2, Zenon
  <2> QED BY <2>2, Zenon DEF Linked
<1>8. Verified'
  BY <1>3, Zenon DEF IInv, Verified
<1> QED BY <1>0, <1>2, <1>3, <1>5, <1>6, <1>7, <1>8, Finished, Preserved, Zenon

LEMMA ConfirmKeeps ==
    ASSUME IInv, NEW c \in Call, NEW l \in Link, Confirm(c, l)
    PROVE  IInv'
<1>0. StoreTypeOK /\ CallTypeOK /\ account \in [Account -> Row]
  BY TypeGroups, Zenon DEF IInv
<1>1. link[l].email \in Address /\ Copied(link[l].id, link[l].pw)
  BY Zenon DEF IInv, Linked, Confirm
<1>2. PICK a \in Account, e \in Address, pw \in Password, flag \in BOOLEAN :
        /\ a = link[l].id /\ e = link[l].email /\ pw = link[l].pw
        /\ flag = (account[link[l].id].pw # link[l].pw)
  BY <1>1, Zenon DEF Copied, Password
<1> DEFINE j == Carry(a, e, pw, flag)
<1>3. j \in Job /\ j.id = a /\ j.email = e /\ j.pw = pw /\ j.flag = flag
  BY Zenon DEF Carry, Job
<1>4. "bound" \in Stage
  BY Zenon DEF Stage
<1>5. CallTypeOK' /\ Others(c) /\ pc'[c] = "bound" /\ job'[c] = j
  <2>1. /\ pc' = [pc EXCEPT ![c] = "bound"]
        /\ job' = [job EXCEPT ![c] = Carry(link[l].id, link[l].email, link[l].pw,
                                           account[link[l].id].pw # link[l].pw)]
    BY Zenon DEF Confirm, Begin, Goto
  <2>2. pc' = [pc EXCEPT ![c] = "bound"] /\ job' = [job EXCEPT ![c] = j]
    BY <2>1, <1>2, Zenon
  <2>3. CallTypeOK /\ j \in Job
    BY <1>0, <1>3, Zenon
  <2> HIDE DEF j
  <2> QED BY <2>2, <2>3, <1>4, Moved, Zenon
<1>6. /\ link' = [link EXCEPT ![l] = NoLink] /\ proven' = proven \cup {e}
      /\ account' = account /\ otp' = otp /\ state' = state /\ used' = used /\ spent' = spent
  BY <1>2, Zenon DEF Confirm
<1>7. StoreTypeOK'
  <2>1. NoLink \in [id : Account \cup {NoOne}, email : Address \cup {NoOne}, pw : Password]
    BY Zenon DEF NoLink, Password
  <2> QED BY <2>1, <1>0, <1>6, Zenon DEF StoreTypeOK
<1>8. Evolves
  BY <1>6, StillEvolves, Zenon
<1>9. Linked'
  <2>1. \A k \in Link : link'[k] # NoLink => link'[k] = link[k]
    BY <1>0, <1>6, Zenon DEF StoreTypeOK
  <2> QED BY <2>1, <1>6 DEF Linked, IInv, Copied
<1>10. Verified'
  BY <1>6, Zenon DEF IInv, Verified
<1>11. InHand(c)'
  <2>1. Copied(a, pw)' /\ (flag = TRUE => account'[a].pw # pw)
    BY <1>1, <1>2, <1>6, Zenon DEF Copied
  <2> QED BY <2>1, <1>3, <1>5, <1>6, Zenon DEF InHand
<1> QED BY <1>0, <1>5, <1>6, <1>7, <1>8, <1>9, <1>10, <1>11, Preserved, Zenon

LEMMA ExchangeKeeps ==
    ASSUME IInv, NEW c \in Call, NEW e \in Address, NEW vouched \in BOOLEAN,
           Exchange(c, e, vouched)
    PROVE  IInv'
<1>0. StoreTypeOK /\ CallTypeOK /\ account \in [Account -> Row]
  BY TypeGroups, Zenon DEF IInv
<1> DEFINE j == Carry(NoOne, e, "none", vouched)
<1>1. j \in Job /\ j.email = e /\ j.flag = vouched
  BY CarriedAddress, Zenon
<1>2. "identify" \in Stage
  BY Zenon DEF Stage
<1>3. CallTypeOK' /\ Others(c) /\ pc'[c] = "identify" /\ job'[c] = j
  BY <1>0, <1>1, <1>2, Moved, Zenon DEF Exchange, Goto
<1>4. /\ account' = account /\ link' = link /\ otp' = otp /\ state' = state
      /\ used' = used /\ spent' = spent
  BY Zenon DEF Exchange, store
<1>5. proven \subseteq proven' /\ proven' \subseteq Address /\ (vouched = TRUE => e \in proven')
  BY <1>0, Zenon DEF Exchange, StoreTypeOK
<1>6. Evolves
  BY <1>4, <1>5, StillEvolves, Zenon
<1>7. StoreTypeOK'
  BY <1>0, <1>4, <1>5, Zenon DEF StoreTypeOK
<1>8. Linked'
  BY <1>4, <1>6, LinkedKept, Zenon DEF IInv
<1>9. Verified'
  BY <1>4, <1>5, Zenon DEF IInv, Verified
<1>10. InHand(c)'
  BY <1>1, <1>3, <1>5, Zenon DEF InHand
<1> QED BY <1>0, <1>3, <1>4, <1>6, <1>7, <1>8, <1>9, <1>10, Preserved, Zenon

LEMMA DecideKeeps ==
    ASSUME IInv, NEW c \in Call, NEW decision, Decide(c, decision)
    PROVE  IInv'
<1>0. CallTypeOK /\ InHand(c) /\ pc[c] = "identify" /\ UNCHANGED <<account, store, history>>
  BY TypeGroups, Zenon DEF IInv, Decide
<1>1. CASE Finish(c)
  BY <1>0, <1>1, Finished, PreservedQuietly, Zenon
<1>2. CASE Proceed(c, "enrol")
  <2>1. "enrol" \in Stage
    BY Zenon DEF Stage
  <2>2. CallTypeOK' /\ Others(c) /\ pc'[c] = "enrol" /\ job'[c] = job[c]
    BY <1>0, <1>2, <2>1, Proceeded, Zenon
  <2>3. InHand(c)'
    BY <1>0, <2>2, Zenon DEF InHand, history
  <2> QED BY <1>0, <2>2, <2>3, PreservedQuietly, Zenon
<1>3. CASE /\ Bound # {}
           /\ Goto(c, "link")
           /\ job' = [job EXCEPT ![c] =
                         Carry(CHOOSE a \in Account : a \in Bound, NoOne, "none", FALSE)]
  <2>1. PICK a \in Account : a = CHOOSE x \in Account : x \in Bound
    BY <1>3, Zenon DEF Bound
  <2> DEFINE j == Carry(a, NoOne, "none", FALSE)
  <2>2. j \in Job /\ j.id = a
    BY CarriedAccount, Zenon
  <2>3. "link" \in Stage
    BY Zenon DEF Stage
  <2>4. CallTypeOK' /\ Others(c) /\ pc'[c] = "link" /\ job'[c] = j
    BY <1>0, <1>3, <2>1, <2>2, <2>3, Moved, Zenon DEF Goto
  <2>5. InHand(c)'
    BY <2>2, <2>4, Zenon DEF InHand
  <2> QED BY <1>0, <2>4, <2>5, PreservedQuietly, Zenon
<1> QED BY <1>1, <1>2, <1>3, Zenon DEF Decide

\* The gate of finish_oauth_login, passed or not.
LEMMA Entered ==
    ASSUME CallTypeOK, NEW c \in Call, NEW a \in Account,
           Goto(c, "issue"), job' = [job EXCEPT ![c] = Carry(a, NoOne, "none", FALSE)],
           Required = TRUE => ProvenAccount(a)'
    PROVE  CallTypeOK' /\ Others(c) /\ InHand(c)'
<1> DEFINE j == Carry(a, NoOne, "none", FALSE)
<1>1. j \in Job /\ j.id = a
  BY CarriedAccount, Zenon
<1>2. "issue" \in Stage
  BY Zenon DEF Stage
<1>3. CallTypeOK' /\ Others(c) /\ pc'[c] = "issue" /\ job'[c] = j
  BY <1>1, <1>2, Moved, Zenon DEF Goto
<1>4. Required = TRUE => ProvenAccount(job[c].id)'
  BY <1>1, <1>3, Zenon DEF ProvenAccount
<1>5. InHand(c)'
  BY <1>1, <1>3, <1>4, Zenon DEF InHand
<1> QED BY <1>3, <1>5, Zenon

LEMMA EnrolKeeps ==
    ASSUME IInv, NEW c \in Call, Enrol(c)
    PROVE  IInv'
<1>0. /\ StoreTypeOK /\ CallTypeOK /\ account \in [Account -> Row]
      /\ job[c].email \in Address /\ (job[c].flag = TRUE => job[c].email \in proven)
  BY TypeGroups, Zenon DEF IInv, InHand, Enrol
<1>1. UNCHANGED <<store, history>>
  BY Zenon DEF Enrol
<1>2. CASE At(job[c].email) # {} \/ Bound # {}
  <2>1. UNCHANGED account /\ Finish(c)
    BY <1>2, Zenon DEF Enrol
  <2> QED BY <2>1, <1>0, <1>1, Finished, PreservedQuietly, Zenon
<1>3. CASE ~(At(job[c].email) # {} \/ Bound # {})
  <2> DEFINE e == job[c].email
             row == [email |-> e, verified |-> Vouched(c), pw |-> "none", oauth |-> TRUE,
                     active |-> TRUE]
  <2>1. PICK a \in Account :
            /\ ~Exists(a)
            /\ account' = [account EXCEPT ![a] = row]
            /\ IF MayEnter(account'[a])
               THEN Goto(c, "issue") /\ job' = [job EXCEPT ![c] = Carry(a, NoOne, "none", FALSE)]
               ELSE Finish(c)
    BY <1>3, Zenon DEF Enrol
  <2>2. Vouched(c) \in BOOLEAN /\ Vouched(c) = job[c].flag
    BY <1>0, Zenon DEF Vouched, CallTypeOK, Job
  <2>3. row \in Row /\ row.verified = Vouched(c) /\ row.email = e
    BY <1>0, <2>2, Zenon DEF Row, Password
  <2>4. proven' = proven /\ link' = link
    BY <1>1, Zenon DEF history, store
  <2>5. Evolves /\ Verified' /\ account' \in [Account -> Row]
    <3>1. row.verified = TRUE => row.email \in proven'
      BY <1>0, <2>2, <2>3, <2>4, Zenon
    <3> HIDE DEF row
    <3> QED BY <2>1, <2>3, <2>4, <3>1, Created, Zenon
  <2>6. StoreTypeOK'
    BY <1>0, <1>1, Zenon DEF StoreTypeOK, store, history
  <2>7. Linked'
    BY <2>4, <2>5, LinkedKept, Zenon DEF IInv
  <2>8. account'[a] = row
    BY <1>0, <2>1, Zenon
  <2>9. CallTypeOK' /\ Others(c) /\ InHand(c)'
    <3>1. CASE Finish(c)
      BY <3>1, <1>0, Finished, Zenon
    <3>2. CASE MayEnter(account'[a])
      <4>1. Required = TRUE => job[c].flag = TRUE
        BY <3>2, <2>2, <2>3, <2>8, Zenon DEF MayEnter
      <4>2. Required = TRUE => ProvenAccount(a)'
        BY <4>1, <1>0, <2>3, <2>4, <2>8, Zenon DEF ProvenAccount
      <4> QED BY <4>2, <3>2, <2>1, <1>0, Entered, Zenon
    <3> QED BY <3>1, <3>2, <2>1, Zenon
  <2> QED BY <2>5, <2>6, <2>7, <2>9, Preserved, Zenon
<1> QED BY <1>2, <1>3, Zenon

LEMMA LinkOauthKeeps ==
    ASSUME IInv, NEW c \in Call, LinkOauth(c)
    PROVE  IInv'
<1>0. CallTypeOK /\ account \in [Account -> Row] /\ job[c].id \in Account
  BY TypeGroups, Zenon DEF IInv, InHand, LinkOauth
<1> DEFINE a == job[c].id
           row == [account[a] EXCEPT !.oauth = TRUE]
<1>1. account[a] \in Row
  BY <1>0, Zenon
<1>2. /\ row \in Row /\ row.email = account[a].email /\ row.pw = account[a].pw
      /\ row.verified = account[a].verified
  BY <1>1, Zenon DEF Row
<1>3. account' = [account EXCEPT ![a] = row] /\ UNCHANGED <<store, history>>
  BY Zenon DEF LinkOauth
<1>4. "refetch" \in Stage
  BY Zenon DEF Stage
<1>5. CallTypeOK' /\ Others(c) /\ pc'[c] = "refetch" /\ job'[c] = job[c]
  BY <1>0, <1>4, Proceeded, Zenon DEF LinkOauth
<1>6. InHand(c)'
  BY <1>0, <1>5, Zenon DEF InHand
<1>7. row.verified = TRUE => row.email \in proven
  BY <1>0, <1>2, Zenon DEF IInv, Verified
<1> HIDE DEF row
<1> QED BY <1>0, <1>2, <1>3, <1>5, <1>6, <1>7, Rewritten, Zenon

LEMMA RefetchKeeps ==
    ASSUME IInv, NEW c \in Call, Refetch(c)
    PROVE  IInv'
<1>0. CallTypeOK /\ account \in [Account -> Row] /\ job[c].id \in Account
  BY TypeGroups, Zenon DEF IInv, InHand, Refetch
<1>1. UNCHANGED <<account, store, history>>
  BY Zenon DEF Refetch
<1>2. PICK a \in Account : a = job[c].id
  BY <1>0, Zenon
<1>3. CallTypeOK' /\ Others(c) /\ InHand(c)'
  <2>1. CASE Finish(c)
    BY <2>1, <1>0, Finished, Zenon
  <2>2. CASE /\ MayEnter(account[a]) /\ Goto(c, "issue")
             /\ job' = [job EXCEPT ![c] = Carry(a, NoOne, "none", FALSE)]
    <3>1. Required = TRUE => account[a].verified = TRUE
      BY <2>2, <1>0, Zenon DEF MayEnter, Row
    <3>2. Required = TRUE => ProvenAccount(a)'
      BY <3>1, <1>1, Zenon DEF ProvenAccount, IInv, Verified, history
    <3> QED BY <3>2, <2>2, <1>0, Entered, Zenon
  <2> QED BY <2>1, <2>2, <1>2, Zenon DEF Refetch
<1> QED BY <1>1, <1>3, PreservedQuietly, Zenon

LEMMA IssueKeeps ==
    ASSUME IInv, NEW c \in Call, Issue(c) \/ Fail(c)
    PROVE  IInv'
<1>1. Finish(c) /\ UNCHANGED <<account, store, history>>
  BY Zenon DEF Issue, Fail
<1> QED BY <1>1, Finished, TypeGroups, PreservedQuietly, Zenon DEF IInv

\* Steps no call takes: nothing is in hand that was not before.
LEMMA PreservedIdly ==
    ASSUME IInv, pc' = pc, job' = job, Evolves, Linked', Verified', StoreTypeOK',
           account' \in [Account -> Row]
    PROVE  IInv'
<1>1. CallTypeOK
  BY TypeGroups, Zenon DEF IInv
<1>2. TypeOK'
  BY <1>1, Zenon DEF TypeOK, StoreTypeOK, CallTypeOK, Row, Job
<1>3. \A c \in Call : InHand(c)'
  BY InHandKept, Zenon DEF IInv
<1> QED BY <1>2, <1>3, Zenon DEF IInv

LEMMA CallbackKeeps ==
    ASSUME IInv, NEW c \in Call, NEW n \in Nonce, NEW same \in BOOLEAN, Callback(c, n, same)
    PROVE  IInv'
<1>0. StoreTypeOK /\ CallTypeOK /\ account \in [Account -> Row]
  BY TypeGroups, Zenon DEF IInv
<1>1. /\ account' = account /\ proven' = proven /\ link' = link /\ otp' = otp /\ used' = used
      /\ state' \subseteq state /\ spent' = spent \cup {n}
  BY Zenon DEF Callback, TakeState
<1>2. Evolves
  BY <1>1, StillEvolves, Zenon
<1>3. StoreTypeOK'
  BY <1>0, <1>1, Zenon DEF StoreTypeOK
<1>4. Linked' /\ Verified'
  <2>1. Linked'
    BY <1>1, <1>2, LinkedKept, Zenon DEF IInv
  <2>2. Verified'
    BY <1>1, Zenon DEF IInv, Verified
  <2> QED BY <2>1, <2>2, Zenon
<1>5. CASE UNCHANGED <<pc, job>>
  BY <1>0, <1>1, <1>2, <1>3, <1>4, <1>5, PreservedIdly, Zenon
<1>6. CASE Begin(c, "exchange", NoJob)
  <2>1. "exchange" \in Stage
    BY Zenon DEF Stage
  <2>2. CallTypeOK' /\ Others(c) /\ pc'[c] = "exchange"
    BY <1>0, <1>6, <2>1, NoJobTyped, Moved, Zenon DEF Begin, Goto
  <2>3. InHand(c)'
    BY <2>2, Zenon DEF InHand
  <2> QED BY <1>0, <1>1, <1>2, <1>3, <1>4, <2>2, <2>3, Preserved, Zenon
<1> QED BY <1>5, <1>6, Zenon DEF Callback

LEMMA InitiateKeeps ==
    ASSUME IInv, NEW n \in Nonce, Initiate(n)
    PROVE  IInv'
<1>0. StoreTypeOK /\ account \in [Account -> Row]
  BY TypeGroups, Zenon DEF IInv
<1>1. Evolves /\ StoreTypeOK'
  BY <1>0, StillEvolves, Zenon DEF Initiate, PutState, StoreTypeOK
<1>2. Linked'
  BY <1>1, LinkedKept, Zenon DEF IInv, Initiate
<1>3. Verified'
  BY Zenon DEF IInv, Verified, Initiate
<1> QED BY <1>0, <1>1, <1>2, <1>3, PreservedIdly, Zenon DEF Initiate

LEMMA HostUpdatesKeeps ==
    ASSUME IInv, NEW a \in Account, HostUpdates(a)
    PROVE  IInv'
<1>0. StoreTypeOK /\ account \in [Account -> Row] /\ account[a] \in Row
  BY TypeGroups, Zenon DEF IInv
<1>1. PICK row \in Row :
        /\ account' = [account EXCEPT ![a] = row]
        /\ row.email = account[a].email /\ row.verified = account[a].verified
        /\ row.pw \in {account[a].pw, "new"}
  <2>1. CASE account' = [account EXCEPT ![a].active = FALSE]
    <3> DEFINE row == [account[a] EXCEPT !.active = FALSE]
    <3>1. /\ row \in Row /\ row.email = account[a].email /\ row.verified = account[a].verified
          /\ row.pw = account[a].pw
      BY <1>0, Zenon DEF Row
    <3> QED BY <2>1, <3>1, Zenon
  <2>2. CASE account' = [account EXCEPT ![a].pw = "new"]
    <3> DEFINE row == [account[a] EXCEPT !.pw = "new"]
    <3>1. /\ row \in Row /\ row.email = account[a].email /\ row.verified = account[a].verified
          /\ row.pw = "new"
      BY <1>0, Zenon DEF Row, Password
    <3> QED BY <2>2, <3>1, Zenon
  <2>3. CASE account' = [account EXCEPT ![a].oauth = TRUE]
    <3> DEFINE row == [account[a] EXCEPT !.oauth = TRUE]
    <3>1. /\ row \in Row /\ row.email = account[a].email /\ row.verified = account[a].verified
          /\ row.pw = account[a].pw
      BY <1>0, Zenon DEF Row
    <3> QED BY <2>3, <3>1, Zenon
  <2> QED BY <2>1, <2>2, <2>3, Zenon DEF HostUpdates
<1>2. /\ proven' = proven /\ link' = link /\ account' \in [Account -> Row]
      /\ pc' = pc /\ job' = job
  BY <1>0, <1>1, Zenon DEF HostUpdates, store, history
<1>3. Evolves
  BY <1>0, <1>1, <1>2, Zenon DEF Evolves
<1>4. Verified'
  BY <1>0, <1>1, <1>2, Zenon DEF Verified, IInv
<1>5. Linked'
  BY <1>2, <1>3, LinkedKept, Zenon DEF IInv
<1>6. StoreTypeOK'
  BY <1>0, Zenon DEF StoreTypeOK, HostUpdates, store, history
<1> QED BY <1>2, <1>3, <1>4, <1>5, <1>6, PreservedIdly, Zenon

LEMMA LapseKeeps ==
    ASSUME IInv, Lapse
    PROVE  IInv'
<1>0. StoreTypeOK /\ account \in [Account -> Row]
  BY TypeGroups, Zenon DEF IInv
<1>1. /\ account' = account /\ proven' = proven /\ used' = used /\ spent' = spent
      /\ pc' = pc /\ job' = job
  BY Zenon DEF Lapse, history
<1>2. otp' \subseteq otp /\ state' \subseteq state
  BY Zenon DEF Lapse
<1>3. link' = link \/ \E l \in Link : link' = [link EXCEPT ![l] = NoLink]
  BY Zenon DEF Lapse
<1>4. NoLink \in [id : Account \cup {NoOne}, email : Address \cup {NoOne}, pw : Password]
  BY Zenon DEF NoLink, Password
<1>5. StoreTypeOK'
  BY <1>0, <1>1, <1>2, <1>3, <1>4, Zenon DEF StoreTypeOK
<1>6. Evolves
  BY <1>1, StillEvolves, Zenon
<1>7. Linked'
  <2>1. \A k \in Link : link'[k] # NoLink => link'[k] = link[k]
    BY <1>0, <1>3, Zenon DEF StoreTypeOK
  <2> QED BY <2>1, <1>1 DEF Linked, IInv, Copied
<1>8. Verified'
  BY <1>1, Zenon DEF IInv, Verified
<1> QED BY <1>0, <1>1, <1>5, <1>6, <1>7, <1>8, PreservedIdly, Zenon

LEMMA StutterKeeps ==
    ASSUME IInv, UNCHANGED vars
    PROVE  IInv'
<1>1. StoreTypeOK /\ account \in [Account -> Row]
  BY TypeGroups, Zenon DEF IInv
<1>2. Evolves /\ StoreTypeOK' /\ account' = account /\ link' = link /\ proven' = proven
  BY <1>1, StillEvolves, Zenon DEF vars, store, history, StoreTypeOK
<1>3. Linked'
  BY <1>2, LinkedKept, Zenon DEF IInv
<1>4. Verified'
  BY <1>2, Zenon DEF IInv, Verified
<1> QED BY <1>1, <1>2, <1>3, <1>4, PreservedIdly, Zenon DEF vars

-----------------------------------------------------------------------------
\* The inductive invariant: what the repository says of an address, and what
\* every call and link in flight carries, fit together in every reachable state.
THEOREM Invariance == Spec => []IInv
<1>1. ASSUME IInv, [Next]_vars PROVE IInv'
  <2>1. ASSUME NEW c \in Call, Enrolling(c) PROVE IInv'
    BY <1>1, <2>1, RegisterKeeps, ResendKeeps, VerifyKeeps, CreateKeeps, StoreCodeKeeps,
       OwnerKeeps, MarkKeeps, Zenon DEF Enrolling
  <2>2. ASSUME NEW c \in Call, Moving(c) PROVE IInv'
    BY <1>1, <2>2, RequestChangeKeeps, PutLinkKeeps, ConfirmKeeps, FreeKeeps, JudgeKeeps,
       RecheckKeeps, MoveKeeps, Zenon DEF Moving
  <2>3. ASSUME NEW c \in Call, SigningIn(c) PROVE IInv'
    BY <1>1, <2>3, CallbackKeeps, ExchangeKeeps, DecideKeeps, EnrolKeeps, LinkOauthKeeps,
       RefetchKeeps, IssueKeeps, Zenon DEF SigningIn
  <2>4. ASSUME NEW c \in Call, Fail(c) PROVE IInv'
    BY <1>1, <2>4, IssueKeeps, Zenon
  <2> QED BY <1>1, <2>1, <2>2, <2>3, <2>4, InitiateKeeps, HostUpdatesKeeps, LapseKeeps,
             StutterKeeps, Zenon DEF Next
<1> QED BY <1>1, Initially, PTL DEF Spec

\* Every record, row and stage keeps its type.
THEOREM TypeCorrect == Spec => []TypeOK
<1>1. IInv => TypeOK
  BY Zenon DEF IInv
<1> QED BY <1>1, Invariance, PTL

\* No interleaving of registrations, codes, provider sign-ins and moves leaves a
\* verified flag on an address nobody proved or vouched for.
THEOREM VerifiedAddressesAreProven == Spec => []VerifiedIsProven
<1>1. IInv => VerifiedIsProven
  BY TypeGroups, Zenon DEF IInv, Verified, VerifiedIsProven, Row
<1> QED BY <1>1, Invariance, PTL

\* Where verification is required, finish_oauth_login lets only accounts with a
\* proven address through, even when the address moves before the session is
\* issued.
THEOREM OauthSessionsAreProven == Spec => []OauthSessionIsProven
<1>1. IInv => OauthSessionIsProven
  BY IdentityAssumption, Zenon DEF IInv, InHand, ProvenAccount, OauthSessionIsProven
<1> QED BY <1>1, Invariance, PTL

\* A change link outlived by the password it was asked for with moves nothing.
THEOREM StaleLinksMoveNothing == Spec => []StaleLinkMovesNothing
<1>1. IInv => StaleLinkMovesNothing
  BY Zenon DEF IInv, InHand, StaleLinkMovesNothing
<1> QED BY <1>1, Invariance, PTL

-----------------------------------------------------------------------------
\* The OAuth state store implements the abstract single-use credential: a state
\* in the store or spent was handed out, and each step maps to one of SingleUse.
HandedOut == state \cup spent \subseteq used
THEOREM OauthStatesAreSingleUse == Spec => OauthStateSpec
<1>1. Init => HandedOut /\ StateIsSingleUse!Init
  BY Zenon DEF Init, HandedOut, StateIsSingleUse!Init
<1>2. ASSUME IInv, HandedOut, [Next]_vars
      PROVE  HandedOut' /\ [StateIsSingleUse!Next]_<<state, spent>>
  <2>1. CASE \E n \in Nonce : Initiate(n)
    BY <1>2, <2>1, Zenon DEF Initiate, PutState, HandedOut, StateIsSingleUse!Next, StateIsSingleUse!Issue
  <2>2. CASE \E c \in Call, n \in Nonce, same \in BOOLEAN : Callback(c, n, same)
    BY <1>2, <2>2, Zenon DEF Callback, TakeState, HandedOut, StateIsSingleUse!Next, StateIsSingleUse!Redeem
  <2>3. CASE Lapse
    <3>1. used' = used /\ spent' = spent /\ state' \subseteq state
      BY <2>3, Zenon DEF Lapse, history
    <3>2. StateIsSingleUse!Lapse(state \ state')
      BY <3>1, Zenon DEF StateIsSingleUse!Lapse
    <3> QED BY <3>1, <3>2, <1>2, Zenon DEF HandedOut, StateIsSingleUse!Next
  <2>4. ASSUME state' = state, spent' = spent, used \subseteq used'
        PROVE  HandedOut' /\ [StateIsSingleUse!Next]_<<state, spent>>
    BY <1>2, <2>4, Zenon DEF HandedOut
  <2>5. ASSUME NEW c \in Call, Enrolling(c)
        PROVE  state' = state /\ spent' = spent /\ used' = used
    BY <2>5, Zenon DEF Enrolling, Register, Resend, Verify, Create, StoreCode, Owner, Mark, store, history
  <2>6. ASSUME NEW c \in Call, Moving(c)
        PROVE  state' = state /\ spent' = spent /\ used \subseteq used'
    BY <2>6, Zenon DEF Moving, RequestChange, PutLink, Confirm, Free, Judge, Recheck, Move, store, history
  <2>7. ASSUME NEW c \in Call, SigningIn(c)
        PROVE  \/ \E n \in Nonce, same \in BOOLEAN : Callback(c, n, same)
               \/ state' = state /\ spent' = spent /\ used' = used
    BY <2>7, Zenon DEF SigningIn, Exchange, Decide, Enrol, LinkOauth, Refetch, Issue, store, history
  <2>8. ASSUME NEW c \in Call, Fail(c)
        PROVE  state' = state /\ spent' = spent /\ used' = used
    BY <2>8, Zenon DEF Fail, store, history
  <2>9. ASSUME NEW a \in Account, HostUpdates(a)
        PROVE  state' = state /\ spent' = spent /\ used' = used
    BY <2>9, Zenon DEF HostUpdates, store, history
  <2>10. CASE UNCHANGED vars
    BY <2>10, <2>4, Zenon DEF vars, store, history
  <2> QED BY <1>2, <2>1, <2>2, <2>3, <2>4, <2>5, <2>6, <2>7, <2>8, <2>9, <2>10, Zenon DEF Next
<1> QED BY <1>1, <1>2, Invariance, PTL DEF Spec, OauthStateSpec, StateIsSingleUse!Spec

-----------------------------------------------------------------------------
(* The status gate.  Which facts a request holds is known by its stage     *)
(* (OnPlane).  A status that was replaced lives in the cache or in a check *)
(* about to write it, each of which began before the change (LateWrite);   *)
(* and while a request is current, nothing stale is left anywhere          *)
(* (NothingStale), so what it reads is the account's (FactsAreCurrent).    *)

GateStage == {"idle", "status", "flag", "repo", "admin", "fillStatus", "fillFlag", "judge"}
Read == [status : {"active", "blocked", None}, verified : Flag \cup {None}]

GateTypeOK ==
    /\ conf \in [required : BOOLEAN, cached : BOOLEAN]
    /\ user \in Facts
    /\ us \in [value : {"active", "blocked", None}, ttl : 0..CacheTtl]
    /\ uev \in [value : Flag \cup {None}, ttl : 0..CacheTtl]
    /\ writer \in {"idle", "flag", "status"}
    /\ since \in 0..SinceCap
    /\ gate \in [Request -> GateStage \cup Outcome]
    /\ ask \in [Request -> Ask]
    /\ got \in [Request -> Read]
    /\ held \in [Request -> 0..Delay]
    /\ settled \in BOOLEAN
    /\ current \in SUBSET Request

\* A check that is about to write a status that was replaced read it before the
\* last change.
LateWrite ==
    \A r \in Request : gate[r] = "fillStatus" /\ got[r].status # user.status => since <= held[r]

\* Without a cache nothing is cached; with one, an entry whose delete succeeded,
\* and which no check wrote an old value behind, holds the present value.
Invalidated ==
    /\ ~conf.cached => /\ us = NoEntry /\ uev = NoEntry
                       /\ \A r \in Request : gate[r] \notin Waiting
    /\ settled => /\ writer \in {"status", "idle"} => uev.value \in {None, user.verified}
                  /\ writer = "idle" => us.value \in {None, user.status}

\* While a request that began with nothing stale is current, nothing is.
NothingStale ==
    \A r \in current : ask[r].plane # "platform" =>
        settled /\ writer = "idle" /\ \A q \in Request : ~StaleCheck(q)

\* What a request does by its plane, and what it holds before the gate.
OnPlane ==
    \A r \in Request :
        /\ ~Running(r) => got[r] = NoFacts
        /\ gate[r] = "admin" => ask[r].plane = "platform"
        /\ gate[r] \in {"status", "flag", "repo"} \cup Waiting => ask[r].plane # "platform"
        /\ gate[r] \in {"status", "flag", "repo", "admin"} \cup Waiting
              => ask[r].status \/ ask[r].plane = "route"
        /\ Running(r) => ask[r].status \/ ask[r].challenge
        /\ gate[r] \in {"status", "flag", "repo", "admin"} => got[r].verified = None
        /\ gate[r] = "flag" => WantVerified(ask[r])
        /\ gate[r] \in Waiting => got[r].status # None

\* The facts a current request has resolved are the account's.
FactsAreCurrent ==
    \A r \in current :
        /\ Running(r)
        /\ gate[r] = "flag" => got[r].status \in {None, user.status}
        /\ gate[r] = "judge" =>
              IF ask[r].status \/ ask[r].plane = "route"
              THEN /\ got[r].status = user.status
                   /\ WantVerified(ask[r]) => got[r].verified = user.verified
              ELSE got[r] = NoFacts

GInv ==
    /\ GateTypeOK /\ StaleStatusExpires /\ LateWrite
    /\ Invalidated /\ NothingStale /\ OnPlane /\ FactsAreCurrent

\* What the repository returns is what a check may hold.
LEMMA RepositoryFacts == ASSUME user \in Facts, user.status # "gone" PROVE user \in Read
    BY Zenon DEF Facts, Status, Read

LEMMA GateInitInv == GateInit => GInv
<1> SUFFICES ASSUME GateInit PROVE GInv
    BY Zenon
<1> USE GateAssumption DEF GateInit, NoEntry, NoFacts, None, Flag
<1>1. GateTypeOK
    BY DEF GateTypeOK, Facts, Status, GateStage, SinceCap, Ask, NoAsk, Plane, Read
<1>2. StaleStatusExpires /\ LateWrite /\ Invalidated /\ NothingStale
    BY Zenon DEF StaleStatusExpires, LateWrite, Invalidated, Waiting, NothingStale
<1>3. OnPlane /\ FactsAreCurrent
    BY Zenon DEF OnPlane, FactsAreCurrent, Running, Waiting
<1> QED
    BY <1>1, <1>2, <1>3, Zenon DEF GInv

\* A request begins.
LEMMA CheckInv == ASSUME GInv, NEW r \in Request, NEW a \in Ask, Check(r, a) PROVE GInv'
<1> USE DEF GInv, GateTypeOK, Check, Pass, Entry, GateStart, host, cache
<1>0. Entry(a) \in {"status", "repo", "admin", "judge"}
    BY Zenon
<1>1. GateTypeOK'
    BY <1>0, Zenon DEF GateStage
<1>2. StaleStatusExpires' /\ LateWrite'
    BY <1>0, Zenon DEF StaleStatusExpires, LateWrite
<1>3. Invalidated'
    BY <1>0, Zenon DEF Invalidated, Waiting
<1>4. NothingStale'
    BY <1>0 DEF NothingStale, StaleCheck, Waiting
<1>5. OnPlane'
    BY <1>0 DEF OnPlane, Running, Waiting, Outcome, NoFacts, WantVerified
<1>6. FactsAreCurrent'
    BY <1>0 DEF OnPlane, FactsAreCurrent, Running, Outcome, WantVerified
<1> QED
    BY <1>1, <1>2, <1>3, <1>4, <1>5, <1>6, Zenon

\* The cached status is read.
LEMMA ReadStatusInv == ASSUME GInv, NEW r \in Request, ReadStatus(r) PROVE GInv'
<1> USE DEF GInv, GateTypeOK, ReadStatus, Pass, host, cache
<1>1. GateTypeOK'
    BY GateAssumption DEF GateStage, Read, None
<1>2. StaleStatusExpires' /\ LateWrite'
    BY GateAssumption, Zenon DEF StaleStatusExpires, LateWrite, Facts, Read, SinceCap, Outcome, NoEntry
<1>3. Invalidated'
    BY Zenon DEF Invalidated, Waiting, Outcome, NoEntry, None
<1>4. NothingStale'
    BY DEF NothingStale, StaleCheck, Waiting, Outcome, OnPlane
<1>5. OnPlane'
    BY DEF OnPlane, Running, Waiting, Outcome, NoFacts, WantVerified, Facts, Status, None
<1>6. FactsAreCurrent'
    BY DEF OnPlane, FactsAreCurrent, NothingStale, Invalidated, StaleCheck, Waiting, Running, Outcome, WantVerified, NoFacts, None
<1> QED
    BY <1>1, <1>2, <1>3, <1>4, <1>5, <1>6, Zenon

\* The cached flag is read.
LEMMA ReadFlagInv == ASSUME GInv, NEW r \in Request, ReadFlag(r) PROVE GInv'
<1> USE DEF GInv, GateTypeOK, ReadFlag, Hit, Pass, host, cache
<1> DEFINE f == [got[r] EXCEPT !.verified = uev.value]
<1>0. f \in Read /\ NoFacts \in Read /\ f.status = got[r].status /\ f.verified = uev.value
    BY DEF Read, NoFacts
<1>1. GateTypeOK'
    BY <1>0 DEF GateStage
<1>2. StaleStatusExpires' /\ LateWrite'
    BY GateAssumption DEF StaleStatusExpires, LateWrite, Facts, Read, SinceCap, Outcome, NoEntry
<1>3. Invalidated'
    BY DEF Invalidated, Waiting, Outcome, NoEntry, None
<1>4. NothingStale'
    BY DEF NothingStale, StaleCheck, Waiting, Outcome, OnPlane
<1>5. OnPlane'
    BY DEF OnPlane, Running, Waiting, Outcome, NoFacts, WantVerified, Facts, Status, None
<1>6. FactsAreCurrent'
  <2>1. CASE Hit(f)
    <3>1. r \in current => f.status = user.status /\ f.verified = user.verified
        BY <1>0, <2>1, Zenon DEF OnPlane, FactsAreCurrent, NothingStale, Invalidated, Waiting
    <3>2. gate' = [gate EXCEPT ![r] = "judge"] /\ got' = [got EXCEPT ![r] = f]
        BY <2>1, Zenon
    <3> QED
        BY <3>1, <3>2 DEF OnPlane, FactsAreCurrent, Waiting, Running, Outcome, WantVerified
  <2>2. CASE ~Hit(f)
      BY <2>2 DEF FactsAreCurrent, Running, Outcome, WantVerified
  <2> QED
      BY <2>1, <2>2, Zenon
<1> QED
    BY <1>1, <1>2, <1>3, <1>4, <1>5, <1>6, Zenon

\* The account is read from the repository.
LEMMA ReadRepositoryInv == ASSUME GInv, NEW r \in Request, ReadRepository(r) PROVE GInv'
<1> USE DEF GInv, GateTypeOK, ReadRepository, Answer, Pass, host, cache
<1>0. NoFacts \in Read /\ NoAsk \in Ask
    BY Zenon DEF Read, NoFacts, NoAsk, Ask, Plane, Flag
<1>1. GateTypeOK'
    BY <1>0, RepositoryFacts, GateAssumption DEF GateStage, Outcome
<1>2. StaleStatusExpires' /\ LateWrite'
    BY GateAssumption DEF StaleStatusExpires, LateWrite, Facts, Read, SinceCap, Outcome, NoEntry
<1>3. Invalidated'
    BY DEF Invalidated, Waiting, Outcome, NoEntry, None
<1>4. NothingStale'
    BY DEF NothingStale, StaleCheck, Waiting, Outcome, OnPlane
<1>5. OnPlane'
    BY DEF OnPlane, Running, Waiting, Outcome, NoFacts, WantVerified, Facts, Status, None
<1>6. FactsAreCurrent'
    BY DEF OnPlane, FactsAreCurrent, NothingStale, Invalidated, StaleCheck, Waiting, Running, Outcome, WantVerified, NoFacts, None
<1> QED
    BY <1>1, <1>2, <1>3, <1>4, <1>5, <1>6, Zenon

\* The administrator is read from the repository.
LEMMA ReadAdminInv == ASSUME GInv, NEW r \in Request, ReadAdmin(r) PROVE GInv'
<1> USE DEF GInv, GateTypeOK, ReadAdmin, Answer, Pass, host, cache
<1>0. NoFacts \in Read /\ NoAsk \in Ask
    BY Zenon DEF Read, NoFacts, NoAsk, Ask, Plane, Flag
<1>1. GateTypeOK'
    BY <1>0, RepositoryFacts, GateAssumption DEF GateStage, Outcome
<1>2. StaleStatusExpires' /\ LateWrite'
    BY GateAssumption DEF StaleStatusExpires, LateWrite, Facts, Read, SinceCap, Outcome, NoEntry
<1>3. Invalidated'
    BY DEF Invalidated, Waiting, Outcome, NoEntry, None
<1>4. NothingStale'
    BY DEF NothingStale, StaleCheck, Waiting, Outcome, OnPlane
<1>5. OnPlane'
    BY DEF OnPlane, Running, Waiting, Outcome, NoFacts, WantVerified, Facts, Status, None
<1>6. FactsAreCurrent'
    BY DEF OnPlane, FactsAreCurrent, NothingStale, Invalidated, StaleCheck, Waiting, Running, Outcome, WantVerified, NoFacts, None
<1> QED
    BY <1>1, <1>2, <1>3, <1>4, <1>5, <1>6, Zenon

\* The status read is written back.
LEMMA FillStatusInv == ASSUME GInv, NEW r \in Request, FillStatus(r) PROVE GInv'
<1> USE DEF GInv, GateTypeOK, FillStatus, Pass, host
<1>0. us' \in [value : {"active", "blocked", None}, ttl : 0..CacheTtl]
    BY GateAssumption DEF Read
<1>1. GateTypeOK'
    BY <1>0, GateAssumption DEF GateStage
<1>2. StaleStatusExpires' /\ LateWrite'
    BY GateAssumption DEF StaleStatusExpires, LateWrite, Facts, Read, SinceCap, Outcome, NoEntry
<1>3. Invalidated'
    BY Zenon DEF Invalidated, Waiting, Outcome, NoEntry, None
<1>4. NothingStale'
    BY DEF NothingStale, StaleCheck, Waiting, Outcome, OnPlane
<1>5. OnPlane'
    BY DEF OnPlane, Running, Waiting, Outcome, NoFacts, WantVerified, Facts, Status, None
<1>6. FactsAreCurrent'
    BY DEF OnPlane, FactsAreCurrent, NothingStale, Invalidated, StaleCheck, Waiting, Running, Outcome, WantVerified, NoFacts, None
<1> QED
    BY <1>1, <1>2, <1>3, <1>4, <1>5, <1>6, Zenon

\* The flag read is written back.
LEMMA FillFlagInv == ASSUME GInv, NEW r \in Request, FillFlag(r) PROVE GInv'
<1> USE DEF GInv, GateTypeOK, FillFlag, Pass, host
<1>1. GateTypeOK'
    BY GateAssumption DEF GateStage, Read, Facts, Status, Outcome, Ask, None, NoFacts, NoAsk, Plane, SinceCap, NoEntry
<1>2. StaleStatusExpires' /\ LateWrite'
    BY GateAssumption, Zenon DEF StaleStatusExpires, LateWrite, Facts, Read, SinceCap, Outcome, NoEntry
<1>3. Invalidated'
    BY Zenon DEF Invalidated, Waiting, Outcome, NoEntry, None
<1>4. NothingStale'
    BY DEF NothingStale, StaleCheck, Waiting, Outcome, OnPlane
<1>5. OnPlane'
    BY DEF OnPlane, Running, Waiting, Outcome, NoFacts, WantVerified, Facts, Status, None
<1>6. FactsAreCurrent'
    BY DEF OnPlane, FactsAreCurrent, NothingStale, Invalidated, StaleCheck, Waiting, Running, Outcome, WantVerified, NoFacts, None
<1> QED
    BY <1>1, <1>2, <1>3, <1>4, <1>5, <1>6, Zenon

\* A route's second extractor asks for the second factor alone.
LEMMA SecondAsk == ASSUME NEW a \in Ask PROVE [a EXCEPT !.status = FALSE] \in Ask
    BY Zenon DEF Ask

\* The account is judged.
LEMMA ConcludeInv == ASSUME GInv, NEW r \in Request, Conclude(r) PROVE GInv'
<1> DEFINE verdict == Verdict(ask[r], got[r])
           rerun == verdict = "mfa_required" /\ ask[r].plane = "route" /\ ask[r].status
<1> USE DEF GInv, GateTypeOK, host, cache
<1>1. /\ gate[r] = "judge" /\ ask[r] \in Ask
      /\ verdict \in Outcome
      /\ verdict = "mfa_required" => ask[r].challenge
      /\ GateStart(ask[r]) \in {"status", "repo", "admin"}
      /\ UNCHANGED <<host, cache, settled>>
    BY Zenon DEF Conclude, Verdict, Outcome, GateStart
<1>2. CASE rerun
  <2>1. /\ gate' = [gate EXCEPT ![r] = GateStart(ask[r])]
        /\ ask' = [ask EXCEPT ![r] = [ask[r] EXCEPT !.status = FALSE]]
        /\ got' = [got EXCEPT ![r] = NoFacts]
        /\ UNCHANGED <<held, current>>
      BY <1>2, Zenon DEF Conclude, Pass
  <2>2. NoFacts \in Read /\ [ask[r] EXCEPT !.status = FALSE] \in Ask
      BY <1>1, SecondAsk, Zenon DEF Read, NoFacts, Flag
  <2>3. GateTypeOK'
      BY <1>1, <2>1, <2>2 DEF GateStage
  <2>4. StaleStatusExpires' /\ LateWrite' /\ Invalidated' /\ NothingStale'
      BY <1>1, <2>1 DEF StaleStatusExpires, LateWrite, Invalidated, NothingStale, StaleCheck, Waiting, Ask
  <2>5. OnPlane'
      BY <1>1, <1>2, <2>1 DEF OnPlane, Running, Waiting, Outcome, NoFacts, WantVerified, Ask, GateStart
  <2>6. FactsAreCurrent'
      BY <1>1, <2>1 DEF FactsAreCurrent, Running, Outcome, WantVerified, Ask
  <2> QED
      BY <2>3, <2>4, <2>5, <2>6, Zenon
<1>3. CASE ~rerun
  <2>1. Answer(r, verdict)
      BY <1>3, Zenon DEF Conclude
  <2>2. NoFacts \in Read /\ NoAsk \in Ask
      BY Zenon DEF Read, NoFacts, Flag, Ask, NoAsk, Plane
  <2>3. GateTypeOK'
      BY <1>1, <2>1, <2>2, GateAssumption DEF Answer, Pass
  <2>4. StaleStatusExpires' /\ LateWrite' /\ Invalidated' /\ NothingStale'
      BY <1>1, <2>1 DEF StaleStatusExpires, LateWrite, Invalidated, NothingStale, StaleCheck, Waiting,
         Outcome, Answer, Pass
  <2>5. OnPlane'
      BY <1>1, <2>1 DEF OnPlane, Running, Waiting, Outcome, WantVerified, Answer, Pass
  <2>6. FactsAreCurrent'
      BY <1>1, <2>1 DEF FactsAreCurrent, Running, Outcome, WantVerified, Answer, Pass
  <2> QED
      BY <2>3, <2>4, <2>5, <2>6, Zenon
<1> QED
    BY <1>2, <1>3, Zenon

\* A request fails.
LEMMA CallFailsInv == ASSUME GInv, NEW r \in Request, CallFails(r) PROVE GInv'
<1> USE DEF GInv, GateTypeOK, CallFails, Answer, Pass, host, cache
<1>1. GateTypeOK'
    BY GateAssumption DEF GateStage, Read, Facts, Status, Outcome, Ask, None, NoFacts, NoAsk, Plane, SinceCap, NoEntry
<1>2. StaleStatusExpires' /\ LateWrite'
    BY GateAssumption, Zenon DEF StaleStatusExpires, LateWrite, Facts, Read, SinceCap, Outcome, NoEntry
<1>3. Invalidated'
    BY Zenon DEF Invalidated, Waiting, Outcome, NoEntry, None
<1>4. NothingStale'
    BY DEF NothingStale, StaleCheck, Waiting, Outcome, OnPlane
<1>5. OnPlane'
    BY DEF OnPlane, Running, Waiting, Outcome, NoFacts, WantVerified, Facts, Status, None
<1>6. FactsAreCurrent'
    BY DEF OnPlane, FactsAreCurrent, NothingStale, Invalidated, StaleCheck, Waiting, Running, Outcome, WantVerified, NoFacts, None
<1> QED
    BY <1>1, <1>2, <1>3, <1>4, <1>5, <1>6, Zenon

\* The account changes.
LEMMA ChangeInv == ASSUME GInv, NEW now \in Facts, Change(now) PROVE GInv'
<1> USE DEF GInv, GateTypeOK, Change, local, cache
<1>1. GateTypeOK'
    BY GateAssumption DEF GateStage, Read, Facts, Status, Outcome, Ask, None, NoFacts, NoAsk, Plane, SinceCap, NoEntry
<1>2. StaleStatusExpires' /\ LateWrite'
    BY GateAssumption DEF StaleStatusExpires, LateWrite, Facts, Read, SinceCap, Outcome, NoEntry
<1>3. Invalidated'
    BY DEF Invalidated, Waiting, Outcome, NoEntry, None
<1>4. NothingStale'
    BY Zenon DEF NothingStale, StaleCheck, Waiting, Outcome, OnPlane
<1>5. OnPlane'
    BY DEF OnPlane, Running, Waiting, Outcome, NoFacts, WantVerified, Facts, Status, None
<1>6. FactsAreCurrent'
    BY Zenon DEF OnPlane, FactsAreCurrent, NothingStale, Invalidated, StaleCheck, Waiting, Running, Outcome, WantVerified, NoFacts, None
<1> QED
    BY <1>1, <1>2, <1>3, <1>4, <1>5, <1>6, Zenon

\* The cached flag is deleted.
LEMMA DropFlagInv == ASSUME GInv, DropFlag PROVE GInv'
<1> USE DEF GInv, GateTypeOK, DropFlag, local
<1>1. GateTypeOK'
    BY GateAssumption DEF GateStage, Read, Facts, Status, Outcome, Ask, None, NoFacts, NoAsk, Plane, SinceCap, NoEntry
<1>2. StaleStatusExpires' /\ LateWrite'
    BY GateAssumption, Zenon DEF StaleStatusExpires, LateWrite, Facts, Read, SinceCap, Outcome, NoEntry
<1>3. Invalidated'
    BY Zenon DEF Invalidated, Waiting, Outcome, NoEntry, None
<1>4. NothingStale'
    BY Zenon DEF NothingStale, StaleCheck, Waiting, Outcome, OnPlane
<1>5. OnPlane'
    BY DEF OnPlane, Running, Waiting, Outcome, NoFacts, WantVerified, Facts, Status, None
<1>6. FactsAreCurrent'
    BY DEF OnPlane, FactsAreCurrent, NothingStale, Invalidated, StaleCheck, Waiting, Running, Outcome, WantVerified, NoFacts, None
<1> QED
    BY <1>1, <1>2, <1>3, <1>4, <1>5, <1>6, Zenon

\* The cached status is deleted.
LEMMA DropStatusInv == ASSUME GInv, DropStatus PROVE GInv'
<1> USE DEF GInv, GateTypeOK, DropStatus, local
<1>1. GateTypeOK'
    BY GateAssumption DEF GateStage, Read, Facts, Status, Outcome, Ask, None, NoFacts, NoAsk, Plane, SinceCap, NoEntry
<1>2. StaleStatusExpires' /\ LateWrite'
    BY GateAssumption, Zenon DEF StaleStatusExpires, LateWrite, Facts, Read, SinceCap, Outcome, NoEntry
<1>3. Invalidated'
    BY Zenon DEF Invalidated, Waiting, Outcome, NoEntry, None
<1>4. NothingStale'
    BY Zenon DEF NothingStale, StaleCheck, Waiting, Outcome, OnPlane
<1>5. OnPlane'
    BY DEF OnPlane, Running, Waiting, Outcome, NoFacts, WantVerified, Facts, Status, None
<1>6. FactsAreCurrent'
    BY DEF OnPlane, FactsAreCurrent, NothingStale, Invalidated, StaleCheck, Waiting, Running, Outcome, WantVerified, NoFacts, None
<1> QED
    BY <1>1, <1>2, <1>3, <1>4, <1>5, <1>6, Zenon

\* A delete fails.
LEMMA DropFailsInv == ASSUME GInv, DropFails PROVE GInv'
<1> USE DEF GInv, GateTypeOK, DropFails, local, cache
<1>1. GateTypeOK'
    BY GateAssumption, Zenon DEF GateStage, Read, Facts, Status, Outcome, Ask, None, NoFacts, NoAsk, Plane, SinceCap, NoEntry
<1>2. StaleStatusExpires' /\ LateWrite'
    BY GateAssumption, Zenon DEF StaleStatusExpires, LateWrite, Facts, Read, SinceCap, Outcome, NoEntry
<1>3. Invalidated'
    BY Zenon DEF Invalidated, Waiting, Outcome, NoEntry, None
<1>4. NothingStale'
    BY Zenon DEF NothingStale, StaleCheck, Waiting, Outcome, OnPlane
<1>5. OnPlane'
    BY DEF OnPlane, Running, Waiting, Outcome, NoFacts, WantVerified, Facts, Status, None
<1>6. FactsAreCurrent'
    BY DEF OnPlane, FactsAreCurrent, NothingStale, Invalidated, StaleCheck, Waiting, Running, Outcome, WantVerified, NoFacts, None
<1> QED
    BY <1>1, <1>2, <1>3, <1>4, <1>5, <1>6, Zenon

\* Time passes.
LEMMA GateTickInv == ASSUME GInv, GateTick PROVE GInv'
<1> USE DEF GInv, GateTypeOK, GateTick, Aged
<1>0. /\ us' \in [value : {"active", "blocked", None}, ttl : 0..CacheTtl]
      /\ uev' \in [value : Flag \cup {None}, ttl : 0..CacheTtl]
      /\ us'.value # None => us'.value = us.value /\ us'.ttl = us.ttl - 1
    BY GateAssumption DEF NoEntry
<1>1. GateTypeOK'
    BY <1>0, GateAssumption DEF SinceCap
<1>2. StaleStatusExpires'
    BY <1>0, GateAssumption DEF StaleStatusExpires, SinceCap
<1>3a. LateWrite'
    BY GateAssumption DEF LateWrite, Waiting, SinceCap
<1>3. Invalidated'
    BY DEF Invalidated, Waiting, Outcome, NoEntry, None
<1>4. NothingStale'
    BY Zenon DEF NothingStale, StaleCheck, Waiting, Outcome, OnPlane
<1>5. OnPlane'
    BY DEF OnPlane, Running, Waiting, Outcome, NoFacts, WantVerified, Facts, Status, None
<1>6. FactsAreCurrent'
    BY DEF OnPlane, FactsAreCurrent, NothingStale, Invalidated, StaleCheck, Waiting, Running, Outcome, WantVerified, NoFacts, None
<1> QED
    BY <1>1, <1>2, <1>3a, <1>3, <1>4, <1>5, <1>6, Zenon

\* Every step of the gate keeps the invariant.
LEMMA GateNextInv == ASSUME GInv, [GateNext]_gateVars PROVE GInv'
<1>1. ASSUME UNCHANGED gateVars PROVE GInv'
    BY <1>1 DEF gateVars, host, cache, local, GInv, GateTypeOK, StaleStatusExpires, LateWrite, Invalidated,
       NothingStale, StaleCheck, OnPlane, FactsAreCurrent, Running, WantVerified
<1>2. ASSUME NEW r \in Request, RequestSteps(r) PROVE GInv'
    BY <1>2, CheckInv, ReadStatusInv, ReadFlagInv, ReadRepositoryInv, ReadAdminInv, FillStatusInv,
       FillFlagInv, ConcludeInv, CallFailsInv, Zenon DEF RequestSteps
<1>3. CASE HostChange
  <2> PICK s \in Status \ {user.status} : Change([user EXCEPT !.status = s])
      BY <1>3, Zenon DEF HostChange
  <2>1. [user EXCEPT !.status = s] \in Facts
      BY Zenon DEF GInv, GateTypeOK, Facts
  <2> QED
      BY <2>1, ChangeInv, Zenon
<1>4. CASE MarkVerified
  <2>1. [user EXCEPT !.verified = "1"] \in Facts
      BY Zenon DEF GInv, GateTypeOK, Facts, Flag
  <2> QED
      BY <1>4, <2>1, ChangeInv, Zenon DEF MarkVerified
<1>5. CASE DropFlag \/ DropStatus \/ DropFails \/ GateTick
    BY <1>5, DropFlagInv, DropStatusInv, DropFailsInv, GateTickInv, Zenon
<1> QED
    BY <1>1, <1>2, <1>3, <1>4, <1>5, Zenon DEF GateNext

THEOREM GateInvariance == GateSpec => []GInv
<1>1. GInv /\ [GateNext]_gateVars => GInv'
    BY GateNextInv, Zenon
<1> QED
    BY GateInitInv, <1>1, PTL DEF GateSpec

\* A cached status that no longer holds outlives the change by no more than the
\* entry's lifetime and the delay of the check that wrote it, whether or not the
\* invalidation succeeds (user_status_cache_ttl as the backstop).
THEOREM StaleStatusesExpire == GateSpec => []StaleStatusExpires
<1>1. GInv => StaleStatusExpires
    BY Zenon DEF GInv
<1> QED
    BY GateInvariance, <1>1, PTL

\* A current request that is answered is answered by the account as it is.
LEMMA AnswerIsDue ==
    ASSUME GInv, [GateNext]_gateVars, NEW r \in current, Running(r), gate'[r] \in Outcome \ {"error"}
    PROVE  gate'[r] = Due(ask[r])
<1>1. r \in Request /\ gate[r] \notin Outcome
    BY Zenon DEF GInv, GateTypeOK, Running
<1>2. ~ UNCHANGED gate
    BY <1>1, Zenon
<1>3. PICK q \in Request : RequestSteps(q)
    BY <1>2, Zenon DEF GateNext, gateVars, HostChange, MarkVerified, Change, DropFlag, DropStatus, DropFails, GateTick
<1>4. q = r /\ (ReadRepository(r) \/ ReadAdmin(r) \/ Conclude(r))
  <2>1. \A p \in Request : \A t : Pass(p, t) => \A o \in Request \ {p} : gate'[o] = gate[o]
      BY Zenon DEF Pass, GInv, GateTypeOK
  <2>2. \E t : Pass(q, t)
      BY <1>3, Zenon DEF RequestSteps, Check, ReadStatus, ReadFlag, ReadRepository, ReadAdmin, FillStatus, FillFlag,
         Conclude, CallFails, Answer
  <2>3. q = r
      BY <1>1, <2>1, <2>2, Zenon
  <2>4. \A t : Pass(r, t) => gate'[r] = t
      BY <1>1, Zenon DEF Pass, GInv, GateTypeOK
  <2>5. ~ \E a \in Ask : Check(r, a)
      BY Zenon DEF Check
  <2>6. ~ (ReadStatus(r) \/ ReadFlag(r) \/ FillStatus(r) \/ FillFlag(r) \/ CallFails(r))
      BY <2>4, Zenon DEF ReadStatus, ReadFlag, FillStatus, FillFlag, CallFails, Answer, Outcome
  <2> QED
      BY <1>3, <2>3, <2>5, <2>6, Zenon DEF RequestSteps
<1>5. ASSUME ReadRepository(r) \/ ReadAdmin(r) PROVE gate'[r] = Due(ask[r])
    BY <1>1, <1>5 DEF ReadRepository, ReadAdmin, Answer, Pass, GInv, GateTypeOK, OnPlane, Due, Outcome, Waiting
<1>6. ASSUME Conclude(r) PROVE gate'[r] = Due(ask[r])
  <2>1. gate'[r] = Verdict(ask[r], got[r]) /\ gate[r] = "judge"
      BY <1>1, <1>6 DEF Conclude, Answer, Pass, GateStart, GInv, GateTypeOK, Outcome
  <2>2. CASE ask[r].status \/ ask[r].plane = "route"
    <3>1. got[r].status = user.status /\ got[r].status # "gone"
        BY <1>1, <2>1, <2>2, Zenon DEF GInv, GateTypeOK, FactsAreCurrent, Read, None
    <3>2. WantVerified(ask[r]) => got[r].verified = user.verified
        BY <1>1, <2>1, <2>2, Zenon DEF GInv, FactsAreCurrent
    <3> QED
        BY <2>1, <2>2, <3>1, <3>2, Zenon DEF Verdict, Due, Blocked
  <2>3. CASE ~ (ask[r].status \/ ask[r].plane = "route")
      BY <1>1, <2>1, <2>3 DEF GInv, FactsAreCurrent, OnPlane, Verdict, Due, Blocked, NoFacts, None
  <2> QED
      BY <2>2, <2>3, Zenon
<1> QED
    BY <1>4, <1>5, <1>6, Zenon

\* A request begun with nothing stale anywhere is answered by the account as it
\* is, through every interleaving of checks, cache writes and expiries; on the
\* platform plane every request is.
THEOREM CurrentAnswers == GateSpec => AnswersAreCurrent
<1>1. GInv /\ [GateNext]_gateVars =>
        [\A r \in current :
            Running(r) /\ gate'[r] \in Outcome \ {"error"} => gate'[r] = Due(ask[r])]_gateVars
    BY AnswerIsDue, Zenon
<1> QED
    BY GateInvariance, <1>1, PTL DEF GateSpec, AnswersAreCurrent
=============================================================================
