---------------------------- MODULE ServerProofs ----------------------------
(***************************************************************************)
(* Machine-checked proofs about the deployment around the services: secret *)
(* and key rotations, for any number of engines, secrets, tokens and keys; *)
(* the platform plane, for any number of sessions and requests; the        *)
(* cookies and headers that carry tokens (Delivery); and the budgets of    *)
(* the rate limiter (RateLimit).  The later parts say what they rest on    *)
(* where they begin.                                                       *)
(*                                                                         *)
(* Rotations: what the fleet runs with and what is being rolled out differ *)
(* by one step of the operator, so everything an engine may still sign,    *)
(* name or encrypt with is known to the configuration being rolled out     *)
(* (Known); in a routine rotation both name the account by the secret the  *)
(* deployment started with (Named); and then the epochs of tokens compare  *)
(* as they do without a rotation (Stamps).                                 *)
(***************************************************************************)
EXTENDS KeyRotation, Platform, Delivery, RateLimit, TLAPS

Config ==
    [secret : Secret, previous : SUBSET Secret, identifier : {{}} \cup {{s} : s \in Secret},
     key : Nat \ {0}, retired : SUBSET Nat]

RotationTypeOK ==
    /\ routine \in BOOLEAN
    /\ target \in Config
    /\ conf \in [Engine -> Config]
    /\ dropped \in SUBSET Secret
    /\ ep \in [Secret -> Nat]
    /\ out \in SUBSET Access
    /\ signed \in [Access -> [secret : Secret, epoch : Nat]]
    /\ refused \in SUBSET out
    /\ digest \in Secret
    /\ cipher \in Nat
    /\ opened \in [Engine -> Nat]

\* How one configuration names the account.
NamedBy(c) ==
    IF routine
    THEN c.identifier = {First} \/ (c.identifier = {} /\ c.secret = First)
    ELSE c.identifier = {}

\* The current key is the newest an engine opens with.
Newest(c) == \A k \in Opening(c) : k <= c.key

Named == NamedBy(target) /\ \A e \in Engine : NamedBy(conf[e])
Ordered == Newest(target) /\ \A e \in Engine : Newest(conf[e])

\* The configuration being rolled out knows what the engines may still write.
Known ==
    /\ Valid(target)
    /\ \A e \in Engine : conf[e].secret \in Verifying(target) /\ conf[e].key \in Opening(target)
    /\ \A j \in out : signed[j].secret \in Verifying(target)
    /\ digest \in (IF routine THEN {First} ELSE Candidates(target) \cup dropped)
    /\ cipher \in Opening(target)

\* Epochs, under the one name of a routine rotation.
Stamps ==
    /\ routine => \A j \in out : signed[j].epoch <= ep[First]
    /\ routine => \A j \in refused : signed[j].epoch < ep[First]
    /\ routine => \A j \in out \ refused : signed[j].epoch = ep[First]

RotationInv == RotationTypeOK /\ Named /\ Ordered /\ Known /\ Stamps

-----------------------------------------------------------------------------
\* In a routine rotation every engine, and the configuration it will be given,
\* calls the account by the name it had at the start.
LEMMA NameIsFirst ==
    ASSUME NEW c \in Config, routine, NamedBy(c)
    PROVE  Name(c) = First
BY Zenon DEF NamedBy, Name

\* Otherwise the name is the signing secret.
LEMMA NameIsSecret ==
    ASSUME NEW c \in Config, ~routine, NamedBy(c)
    PROVE  Name(c) = c.secret
BY Zenon DEF NamedBy, Name

\* Either way it is one of the secrets.
LEMMA NameIsASecret ==
    ASSUME NEW c \in Config, routine \in BOOLEAN, NamedBy(c)
    PROVE  Name(c) \in Secret
BY NameIsFirst, NameIsSecret, RotationAssumption, Zenon DEF Config

\* The invariant holds when the deployment starts.
THEOREM RotationInitial == RotationInit => RotationInv
<1> SUFFICES ASSUME RotationInit PROVE RotationInv
  BY Zenon
<1> USE RotationAssumption DEF RotationInit, Plain
<1>1. RotationTypeOK
  BY DEF RotationTypeOK, Config
<1>2. Named
  BY Zenon DEF Named, NamedBy
<1>3. Ordered
  BY DEF Ordered, Newest, Opening
<1>4. Known
  <2>1. ~routine => First \in Candidates(target)
    BY NameIsSecret, <1>1, <1>2, Zenon DEF Candidates, Named, RotationTypeOK
  <2> QED
    BY <2>1, Zenon DEF Known, Valid, Verifying, Opening
<1>5. Stamps
  BY Zenon DEF Stamps
<1> QED
  BY <1>1, <1>2, <1>3, <1>4, <1>5, Zenon DEF RotationInv

-----------------------------------------------------------------------------
(* The operator.                                                           *)

\* What a change of the wanted configuration has to keep.
LEMMA OperatorStep ==
    ASSUME RotationInv, NEW c \in Config, Want(c), dropped' \in SUBSET Secret,
           NamedBy(c), Newest(c),
           target.secret \in Verifying(c), target.key \in Opening(c),
           \A j \in out : signed[j].secret \in Verifying(c),
           ~routine => digest \in Candidates(c) \cup dropped',
           cipher \in Opening(c)
    PROVE  RotationInv'
<1> USE DEF RotationInv, Want
<1>1. RotationTypeOK'
  BY Zenon DEF RotationTypeOK, tokens, factor
<1>2. Named'
  BY Zenon DEF Named, NamedBy
<1>3. Ordered'
  BY Zenon DEF Ordered, Newest, Opening
<1>4. Known'
  <2>1. \A e \in Engine : conf[e] = target
    BY Zenon DEF Settled, Current
  <2>2. Valid(target)' /\ (cipher \in Opening(target))'
    BY Zenon DEF Valid, Opening, factor
  <2>3. \A e \in Engine : (conf[e].secret \in Verifying(target) /\ conf[e].key \in Opening(target))'
    BY <2>1, Zenon DEF Verifying, Opening
  <2>4. \A j \in out' : (signed[j].secret \in Verifying(target))'
    BY Zenon DEF Verifying, tokens
  <2>5. (digest \in (IF routine THEN {First} ELSE Candidates(target) \cup dropped))'
    BY Zenon DEF Known, Candidates, Name, factor
  <2> QED
    BY <2>2, <2>3, <2>4, <2>5, Zenon DEF Known
<1>5. Stamps'
  BY Zenon DEF Stamps, tokens
<1> QED
  BY <1>1, <1>2, <1>3, <1>4, <1>5, Zenon

\* Pinning identifier_key to the present secret keeps the invariant.
LEMMA PinKeeps == RotationInv /\ Pin => RotationInv'
<1> SUFFICES ASSUME RotationInv, Pin PROVE RotationInv'
  BY Zenon
<1> DEFINE c == [target EXCEPT !.identifier = {target.secret}]
<1>0. target \in Config /\ dropped \in SUBSET Secret
  BY Zenon DEF RotationInv, RotationTypeOK
<1>1. /\ c \in Config
      /\ c.secret = target.secret
      /\ c.previous = target.previous
      /\ c.identifier = {target.secret}
      /\ c.key = target.key
      /\ c.retired = target.retired
  BY <1>0, Zenon DEF Config
<1>2. Want(c) /\ routine /\ dropped' = dropped /\ dropped' \in SUBSET Secret
  BY <1>0, Zenon DEF Pin
<1> HIDE DEF c
<1>3. NamedBy(c)
  BY <1>0, <1>1, Zenon DEF RotationInv, Named, NamedBy, Pin, Config
<1>4. Newest(c) /\ target.key \in Opening(c) /\ cipher \in Opening(c)
  BY <1>0, <1>1, Zenon DEF RotationInv, Ordered, Known, Newest, Opening, Config
<1>5. target.secret \in Verifying(c) /\ \A j \in out : signed[j].secret \in Verifying(c)
  BY <1>0, <1>1, Zenon DEF RotationInv, Known, Verifying, Config
<1> QED
  BY <1>1, <1>2, <1>3, <1>4, <1>5, OperatorStep, Zenon

\* A new signing secret, with the old one listed, keeps it.
LEMMA RotateKeeps == \A s \in Secret : RotationInv /\ RotateSecret(s) => RotationInv'
<1> SUFFICES ASSUME NEW s \in Secret, RotationInv, RotateSecret(s) PROVE RotationInv'
  BY Zenon
<1> DEFINE c == [target EXCEPT !.secret = s, !.previous = @ \cup {target.secret}]
<1>0. target \in Config /\ dropped \in SUBSET Secret
  BY Zenon DEF RotationInv, RotationTypeOK
<1>1. /\ c \in Config
      /\ c.secret = s
      /\ c.previous = target.previous \cup {target.secret}
      /\ c.identifier = target.identifier
      /\ c.key = target.key
      /\ c.retired = target.retired
  BY <1>0, Zenon DEF Config
<1>2. Want(c) /\ dropped' = dropped \ {s} /\ dropped' \in SUBSET Secret
  BY <1>0, Zenon DEF RotateSecret
<1> HIDE DEF c
<1>3. NamedBy(c)
  BY <1>0, <1>1, Zenon DEF RotationInv, Named, NamedBy, RotateSecret, Config
<1>4. Newest(c) /\ target.key \in Opening(c) /\ cipher \in Opening(c)
  BY <1>0, <1>1, Zenon DEF RotationInv, Ordered, Known, Newest, Opening, Config
<1>5. target.secret \in Verifying(c) /\ \A j \in out : signed[j].secret \in Verifying(c)
  BY <1>0, <1>1, Zenon DEF RotationInv, Known, Verifying, Config
<1>6. ~routine => digest \in Candidates(c) \cup dropped'
  <2> SUFFICES ASSUME ~routine PROVE digest \in Candidates(c) \cup dropped'
    BY Zenon
  <2>1. Name(c) = s /\ Name(target) = target.secret
    BY <1>0, <1>1, <1>3, NameIsSecret, Zenon DEF RotationInv, Named, Config
  <2> QED
    BY <1>0, <1>1, <1>2, <2>1, Zenon DEF RotationInv, Known, Candidates, Config
<1> QED
  BY <1>1, <1>2, <1>3, <1>4, <1>5, <1>6, OperatorStep, Zenon

\* Dropping a secret whose last token has expired keeps it.
LEMMA DropKeeps == \A s \in Secret : RotationInv /\ Drop(s) => RotationInv'
<1> SUFFICES ASSUME NEW s \in Secret, RotationInv, Drop(s) PROVE RotationInv'
  BY Zenon
<1> DEFINE c == [target EXCEPT !.previous = @ \ {s}]
<1>0. target \in Config /\ dropped \in SUBSET Secret
  BY Zenon DEF RotationInv, RotationTypeOK
<1>1. /\ c \in Config
      /\ c.secret = target.secret
      /\ c.previous = target.previous \ {s}
      /\ c.identifier = target.identifier
      /\ c.key = target.key
      /\ c.retired = target.retired
  BY <1>0, Zenon DEF Config
<1>2. Want(c) /\ dropped' = dropped \cup {s} /\ dropped' \in SUBSET Secret
  BY <1>0, Zenon DEF Drop
<1> HIDE DEF c
<1>3. NamedBy(c)
  BY <1>0, <1>1, Zenon DEF RotationInv, Named, NamedBy, Config
<1>4. Newest(c) /\ target.key \in Opening(c) /\ cipher \in Opening(c)
  BY <1>0, <1>1, Zenon DEF RotationInv, Ordered, Known, Newest, Opening, Config
<1>5. target.secret \in Verifying(c) /\ \A j \in out : signed[j].secret \in Verifying(c)
  BY <1>0, <1>1, Zenon DEF RotationInv, Known, Verifying, Drop, Config
<1>6. ~routine => digest \in Candidates(c) \cup dropped'
  <2>1. Name(c) = Name(target)
    BY <1>0, <1>1 DEF RotationInv, Name, Config
  <2> QED
    BY <1>0, <1>1, <1>2, <2>1, Zenon DEF RotationInv, Known, Candidates, Config
<1> QED
  BY <1>1, <1>2, <1>3, <1>4, <1>5, <1>6, OperatorStep, Zenon

\* A new MFA key, with the old one listed, keeps it.
LEMMA RotateCipherKeeps == RotationInv /\ RotateCipher => RotationInv'
<1> SUFFICES ASSUME RotationInv, RotateCipher PROVE RotationInv'
  BY Zenon
<1> DEFINE c == [target EXCEPT !.key = @ + 1, !.retired = @ \cup {target.key}]
<1>0. target \in Config /\ dropped \in SUBSET Secret
  BY Zenon DEF RotationInv, RotationTypeOK
<1>1. /\ c \in Config
      /\ c.secret = target.secret
      /\ c.previous = target.previous
      /\ c.identifier = target.identifier
      /\ c.key = target.key + 1
      /\ c.retired = target.retired \cup {target.key}
  <2> DEFINE n == target.key + 1  r == target.retired \cup {target.key}
  <2>1. n \in Nat \ {0} /\ r \in SUBSET Nat
    BY <1>0 DEF Config
  <2> HIDE DEF n, r
  <2>2. c = [target EXCEPT !.key = n, !.retired = r]
    BY Zenon DEF n, r
  <2>3. c \in Config /\ c.key = n /\ c.retired = r
    BY <1>0, <2>1, <2>2, Zenon DEF Config
  <2> QED
    BY <1>0, <2>2, <2>3, Zenon DEF Config, n, r
<1>2. Want(c) /\ dropped' = dropped /\ dropped' \in SUBSET Secret
  BY <1>0, Zenon DEF RotateCipher
<1> HIDE DEF c
<1>3. NamedBy(c)
  BY <1>0, <1>1, Zenon DEF RotationInv, Named, NamedBy, Config
<1>4. Newest(c) /\ target.key \in Opening(c) /\ cipher \in Opening(c)
  BY <1>0, <1>1 DEF RotationInv, Ordered, Known, Newest, Opening, Config
<1>5. target.secret \in Verifying(c) /\ \A j \in out : signed[j].secret \in Verifying(c)
  BY <1>0, <1>1, Zenon DEF RotationInv, Known, Verifying, Config
<1>6. ~routine => digest \in Candidates(c) \cup dropped'
  <2>1. Name(c) = Name(target)
    BY <1>0, <1>1 DEF RotationInv, Name, Config
  <2> QED
    BY <1>0, <1>1, <1>2, <2>1, Zenon DEF RotationInv, Known, Candidates, Config
<1> QED
  BY <1>1, <1>2, <1>3, <1>4, <1>5, <1>6, OperatorStep, Zenon

\* Dropping a key under which nothing is stored keeps it.
LEMMA DropCipherKeeps == \A k \in target.retired : RotationInv /\ DropCipher(k) => RotationInv'
<1> SUFFICES ASSUME NEW k \in target.retired, RotationInv, DropCipher(k) PROVE RotationInv'
  BY Zenon
<1> DEFINE c == [target EXCEPT !.retired = @ \ {k}]
<1>0. target \in Config /\ dropped \in SUBSET Secret
  BY Zenon DEF RotationInv, RotationTypeOK
<1>1. /\ c \in Config
      /\ c.secret = target.secret
      /\ c.previous = target.previous
      /\ c.identifier = target.identifier
      /\ c.key = target.key
      /\ c.retired = target.retired \ {k}
  BY <1>0, Zenon DEF Config
<1>2. Want(c) /\ dropped' = dropped /\ dropped' \in SUBSET Secret
  BY <1>0, Zenon DEF DropCipher
<1> HIDE DEF c
<1>3. NamedBy(c)
  BY <1>0, <1>1, Zenon DEF RotationInv, Named, NamedBy, Config
<1>4. Newest(c) /\ target.key \in Opening(c) /\ cipher \in Opening(c)
  BY <1>0, <1>1, Zenon DEF RotationInv, Ordered, Known, Newest, Opening, DropCipher, Config
<1>5. target.secret \in Verifying(c) /\ \A j \in out : signed[j].secret \in Verifying(c)
  BY <1>0, <1>1, Zenon DEF RotationInv, Known, Verifying, Config
<1>6. ~routine => digest \in Candidates(c) \cup dropped'
  <2>1. Name(c) = Name(target)
    BY <1>0, <1>1 DEF RotationInv, Name, Config
  <2> QED
    BY <1>0, <1>1, <1>2, <2>1, Zenon DEF RotationInv, Known, Candidates, Config
<1> QED
  BY <1>1, <1>2, <1>3, <1>4, <1>5, <1>6, OperatorStep, Zenon

\* Restarting an engine into the wanted configuration keeps it.
LEMMA RestartKeeps == \A e \in Engine : RotationInv /\ Restart(e) => RotationInv'
<1> SUFFICES ASSUME NEW e \in Engine, RotationInv, Restart(e) PROVE RotationInv'
  BY Zenon
<1> USE DEF RotationInv, Restart, operator, tokens, factor
<1>1. RotationTypeOK'
  BY Zenon DEF RotationTypeOK
<1>2. \A d \in Engine : conf'[d] = target \/ conf'[d] = conf[d]
  BY Zenon DEF RotationTypeOK
<1>3. Named'
  BY <1>2, Zenon DEF Named, NamedBy
<1>4. Ordered'
  BY <1>2, Zenon DEF Ordered, Newest, Opening
<1>5. Known'
  BY <1>2, Zenon DEF Known, Valid, Verifying, Opening, Candidates, Name
<1>6. Stamps'
  BY Zenon DEF Stamps
<1> QED
  BY <1>1, <1>3, <1>4, <1>5, <1>6, Zenon

-----------------------------------------------------------------------------
(* The engines.                                                            *)

\* A step that leaves every configuration alone leaves names and keys alone.
LEMMA SameConfigurations ==
    ASSUME RotationInv, UNCHANGED <<operator, conf>>
    PROVE  Named' /\ Ordered' /\ Valid(target)'
BY Zenon DEF RotationInv, Named, NamedBy, Ordered, Newest, Opening, Known, Valid, operator

\* An engine of either configuration signs under a secret the other will know.
LEMMA SignKeeps == \A e \in Engine, j \in Access : RotationInv /\ Sign(e, j) => RotationInv'
<1> SUFFICES ASSUME NEW e \in Engine, NEW j \in Access, RotationInv, Sign(e, j) PROVE RotationInv'
  BY Zenon
<1> USE DEF RotationInv, Sign, operator, factor
<1>1. conf[e] \in Config /\ NamedBy(conf[e]) /\ routine \in BOOLEAN
  BY Zenon DEF RotationTypeOK, Named
<1>2. Name(conf[e]) \in Secret /\ conf[e].secret \in Secret
  BY <1>1, NameIsASecret, Zenon DEF Config
<1>3. RotationTypeOK'
  BY <1>2, Zenon DEF RotationTypeOK
<1>4. Named' /\ Ordered' /\ Valid(target)'
  BY SameConfigurations, Zenon
<1>5. \A i \in out' : signed'[i] = IF i = j THEN [secret |-> conf[e].secret, epoch |-> ep[Name(conf[e])]] ELSE signed[i]
  BY Zenon DEF RotationTypeOK
<1>6. Known'
  <2>1. \A i \in out' : signed'[i].secret \in Verifying(target)
    BY <1>5 DEF Known
  <2> QED
    BY <2>1, <1>4, Zenon DEF Known, Verifying, Opening, Candidates, Name
<1>7. Stamps'
  BY <1>1, <1>5, NameIsFirst, <1>2 DEF Stamps, RotationTypeOK
<1> QED
  BY <1>3, <1>4, <1>6, <1>7, Zenon

\* A bump refuses every token out, under the one name there is.
LEMMA BumpKeeps == \A e \in Engine : RotationInv /\ BumpEpoch(e) => RotationInv'
<1> SUFFICES ASSUME NEW e \in Engine, RotationInv, BumpEpoch(e) PROVE RotationInv'
  BY Zenon
<1> USE DEF RotationInv, BumpEpoch, operator, factor
<1>1. conf[e] \in Config /\ NamedBy(conf[e]) /\ routine \in BOOLEAN
  BY Zenon DEF RotationTypeOK, Named
<1>2. Name(conf[e]) \in Secret
  BY <1>1, NameIsASecret, Zenon
<1>3. RotationTypeOK'
  BY <1>2 DEF RotationTypeOK
<1>4. Named' /\ Ordered' /\ Valid(target)'
  BY SameConfigurations, Zenon
<1>5. Known'
  BY <1>4, Zenon DEF Known, Verifying, Opening, Candidates, Name
<1>6. Stamps'
  <2>1. routine => ep'[First] = ep[First] + 1
    BY <1>1, <1>2, NameIsFirst, Zenon DEF RotationTypeOK
  <2> QED
    BY <2>1 DEF Stamps, RotationTypeOK
<1> QED
  BY <1>3, <1>4, <1>5, <1>6, Zenon

\* An engine of either configuration writes what the other will read.
LEMMA EnrolKeeps == \A e \in Engine : RotationInv /\ Enrol(e) => RotationInv'
<1> SUFFICES ASSUME NEW e \in Engine, RotationInv, Enrol(e) PROVE RotationInv'
  BY Zenon
<1> USE DEF RotationInv, Enrol, operator, tokens
<1>1. conf[e] \in Config /\ NamedBy(conf[e]) /\ routine \in BOOLEAN
  BY Zenon DEF RotationTypeOK, Named
<1>2. Name(conf[e]) \in Secret /\ conf[e].key \in Nat
  BY <1>1, NameIsASecret, Zenon DEF Config
<1>3. RotationTypeOK'
  BY <1>2, Zenon DEF RotationTypeOK
<1>4. Named' /\ Ordered' /\ Valid(target)'
  BY SameConfigurations, Zenon
<1>5. (digest \in (IF routine THEN {First} ELSE Candidates(target) \cup dropped))'
  <2>1. CASE routine
    BY <2>1, <1>1, NameIsFirst, Zenon
  <2>2. CASE ~routine
    <3>1. Name(conf[e]) = conf[e].secret /\ Name(target) = target.secret
      BY <2>2, <1>1, NameIsSecret, Zenon DEF Named, RotationTypeOK
    <3> QED
      BY <2>2, <3>1 DEF Known, Verifying, Candidates, Name
  <2> QED
    BY <1>1, <2>1, <2>2, Zenon
<1>6. Known'
  BY <1>4, <1>5, Zenon DEF Known, Verifying, Opening
<1>7. Stamps'
  BY Zenon DEF Stamps
<1> QED
  BY <1>3, <1>4, <1>6, <1>7, Zenon

\* Opening a secret, and giving a challenge up.
LEMMA OpenKeeps == \A e \in Engine : RotationInv /\ (OpenFactor(e) \/ GiveUp(e)) => RotationInv'
<1> SUFFICES ASSUME NEW e \in Engine, RotationInv, OpenFactor(e) \/ GiveUp(e) PROVE RotationInv'
  BY Zenon
<1> USE DEF RotationInv, OpenFactor, GiveUp, operator, tokens, factor
<1>1. RotationTypeOK'
  BY DEF RotationTypeOK
<1>2. Named' /\ Ordered' /\ Valid(target)'
  BY SameConfigurations, Zenon
<1>3. Known'
  BY <1>2 DEF Known, Verifying, Opening, Candidates, Name
<1>4. Stamps'
  BY DEF Stamps
<1> QED
  BY <1>1, <1>2, <1>3, <1>4, Zenon

\* What the end of a challenge leaves the secret encrypted under.
LEMMA FinishWrites ==
    ASSUME NEW e \in Engine, Finish(e)
    PROVE  cipher' = cipher \/ (cipher' = conf[e].key /\ HoldsChallengedSecret(e))
BY Zenon DEF Finish

\* The end of a challenge keeps it.
LEMMA FinishKeeps == \A e \in Engine : RotationInv /\ Finish(e) => RotationInv'
<1> SUFFICES ASSUME NEW e \in Engine, RotationInv, Finish(e) PROVE RotationInv'
  BY Zenon
<1>0. UNCHANGED <<operator, conf, ep, tokens, digest>> /\ opened' = [opened EXCEPT ![e] = 0]
  BY Zenon DEF Finish
<1> USE <1>0 DEF RotationInv, operator, tokens
<1>1. cipher' = cipher \/ cipher' = conf[e].key
  BY FinishWrites, Zenon
<1>2. RotationTypeOK'
  BY <1>1, Zenon DEF RotationTypeOK, Config
<1>3. Named' /\ Ordered' /\ Valid(target)'
  BY SameConfigurations, Zenon
<1>4. Known'
  BY <1>1, <1>3, Zenon DEF Known, Verifying, Opening, Candidates, Name
<1>5. Stamps'
  BY Zenon DEF Stamps
<1> QED
  BY <1>2, <1>3, <1>4, <1>5, Zenon

\* So does the expiry of a token.
LEMMA ExpireKeeps == \A j \in Access : RotationInv /\ Expire(j) => RotationInv'
<1> SUFFICES ASSUME NEW j \in Access, RotationInv, Expire(j) PROVE RotationInv'
  BY Zenon
<1> USE DEF RotationInv, Expire, operator, factor
<1>1. RotationTypeOK'
  BY Zenon DEF RotationTypeOK
<1>2. Named' /\ Ordered' /\ Valid(target)'
  BY SameConfigurations, Zenon
<1>3. Known'
  BY <1>2, Zenon DEF Known, Verifying, Opening, Candidates, Name
<1>4. Stamps'
  BY Zenon DEF Stamps
<1> QED
  BY <1>1, <1>2, <1>3, <1>4, Zenon

-----------------------------------------------------------------------------
(* The theorems.                                                           *)

\* The invariant is inductive.
THEOREM RotationStep == RotationInv /\ [RotationNext]_rotationVars => RotationInv'
<1> SUFFICES ASSUME RotationInv, [RotationNext]_rotationVars PROVE RotationInv'
  BY Zenon
<1>1. CASE Pin
  BY <1>1, PinKeeps, Zenon
<1>2. CASE RotateCipher
  BY <1>2, RotateCipherKeeps, Zenon
<1>3. CASE \E s \in Secret : RotateSecret(s) \/ Drop(s)
  BY <1>3, RotateKeeps, DropKeeps, Zenon
<1>4. CASE \E k \in target.retired : DropCipher(k)
  BY <1>4, DropCipherKeeps, Zenon
<1>5. CASE \E e \in Engine : Restart(e) \/ BumpEpoch(e) \/ Enrol(e)
  BY <1>5, RestartKeeps, BumpKeeps, EnrolKeeps, Zenon
<1>6. CASE \E e \in Engine : OpenFactor(e) \/ Finish(e) \/ GiveUp(e)
  BY <1>6, OpenKeeps, FinishKeeps, Zenon
<1>7. CASE \E e \in Engine, j \in Access : Sign(e, j)
  BY <1>7, SignKeeps, Zenon
<1>8. CASE \E j \in Access : Expire(j)
  BY <1>8, ExpireKeeps, Zenon
<1>9. CASE UNCHANGED rotationVars
  <2> USE <1>9 DEF RotationInv, rotationVars, operator, tokens, factor
  <2>1. RotationTypeOK' /\ Stamps'
    BY Zenon DEF RotationTypeOK, Stamps
  <2>2. Named' /\ Ordered' /\ Valid(target)'
    BY SameConfigurations, Zenon
  <2>3. Known'
    BY <2>2, Zenon DEF Known, Verifying, Opening, Candidates, Name
  <2> QED
    BY <2>1, <2>2, <2>3, Zenon
<1> QED
  BY <1>1, <1>2, <1>3, <1>4, <1>5, <1>6, <1>7, <1>8, <1>9, Zenon DEF RotationNext

\* The inductive invariant holds throughout.
THEOREM RotationInvariant == RotationSpec => []RotationInv
BY RotationInitial, RotationStep, PTL DEF RotationSpec

\* Through any number of routine rotations, with any part of the fleet
\* restarted, a token that a bump of the epoch refused stays refused.
THEOREM RefusalSurvivesRotation == RotationSpec => []RefusedThroughRotation
<1>1. RotationInv => RefusedThroughRotation
  <2> SUFFICES ASSUME RotationInv, routine, NEW e \in Engine, NEW j \in refused
               PROVE  ~Accepts(conf[e], j)
    BY Zenon DEF RefusedThroughRotation
  <2>1. Name(conf[e]) = First
    BY NameIsFirst, Zenon DEF RotationInv, RotationTypeOK, Named
  <2>2. signed[j].epoch < ep[First]
    BY Zenon DEF RotationInv, Stamps
  <2>3. ep[First] \in Nat /\ signed[j].epoch \in Nat
    BY RotationAssumption, Zenon DEF RotationInv, RotationTypeOK
  <2> QED
    BY <2>1, <2>2, <2>3 DEF Accepts
<1> QED
  BY <1>1, RotationInvariant, PTL

\* No rotation locks anybody out of an engine that runs the wanted
\* configuration.
THEOREM RotationLocksNobodyOut == RotationSpec => []NobodyIsLockedOut
<1>1. RotationInv => NobodyIsLockedOut
  <2> SUFFICES ASSUME RotationInv, NEW e \in Engine, Current(e)
               PROVE  /\ routine \/ (\A s \in Secret : ep[s] = 0)
                            => \A j \in out \ refused : Accepts(conf[e], j)
                      /\ digest \in Candidates(conf[e]) \/ (~routine /\ digest \in dropped)
                      /\ cipher \in Opening(conf[e])
    BY Zenon DEF NobodyIsLockedOut
  <2>0. conf[e] = target /\ target \in Config /\ NamedBy(target) /\ routine \in BOOLEAN
    BY Zenon DEF Current, RotationInv, RotationTypeOK, Named
  <2>1. ASSUME routine \/ (\A s \in Secret : ep[s] = 0), NEW j \in out \ refused
        PROVE  Accepts(conf[e], j)
    <3>1. signed[j].secret \in Verifying(conf[e])
      BY <2>0, Zenon DEF RotationInv, Known
    <3>2. Name(target) \in Secret
      BY <2>0, NameIsASecret, Zenon
    <3>3. signed[j].epoch \in Nat /\ ep[Name(target)] \in Nat
      BY <3>2, Zenon DEF RotationInv, RotationTypeOK
    <3>4. routine => signed[j].epoch = ep[Name(target)]
      BY <2>0, NameIsFirst, Zenon DEF RotationInv, Stamps
    <3>5. ~routine => ep[Name(target)] = 0
      BY <2>1, <3>2, Zenon
    <3>6. signed[j].epoch >= ep[Name(conf[e])]
      BY <2>0, <3>3, <3>4, <3>5
    <3> QED
      BY <2>1, <3>1, <3>6, Zenon DEF Accepts
  <2>2. digest \in Candidates(conf[e]) \/ (~routine /\ digest \in dropped)
    BY <2>0, NameIsFirst, Zenon DEF RotationInv, Known, Candidates
  <2>3. cipher \in Opening(conf[e])
    BY <2>0, Zenon DEF RotationInv, Known
  <2> QED
    BY <2>1, <2>2, <2>3, Zenon
<1> QED
  BY <1>1, RotationInvariant, PTL

\* A challenge never puts the stored TOTP secret back under an older key.
THEOREM SecretsAreRekeyedForGood == RotationSpec => RekeyedForGood
<1>1. RotationInv /\ [RotationNext]_rotationVars =>
         [(\E e \in Engine : opened[e] # 0 /\ opened'[e] = 0) => cipher' >= cipher]_rotationVars
  <2> SUFFICES ASSUME RotationInv, RotationNext,
                      NEW e \in Engine, opened[e] # 0, opened'[e] = 0
               PROVE  cipher' >= cipher
    BY Zenon DEF rotationVars
  <2>0. cipher \in Nat /\ conf \in [Engine -> Config]
    BY Zenon DEF RotationInv, RotationTypeOK
  <2>1. ASSUME NEW d \in Engine, Finish(d) PROVE cipher' >= cipher
    <3>1. conf[d].key \in Nat
      BY <2>0, <2>1, Zenon DEF Config
    <3>2. HoldsChallengedSecret(d) => cipher <= conf[d].key
      BY <2>1, Zenon DEF RotationInv, Ordered, Newest, HoldsChallengedSecret
    <3> QED
      BY <2>0, <2>1, <3>1, <3>2, FinishWrites
  <2>2. (\A d \in Engine : ~Finish(d)) => cipher' = cipher \/ opened' = opened
    BY Zenon DEF RotationNext, Pin, RotateCipher, RotateSecret, Drop, DropCipher, Want, Restart,
           BumpEpoch, Enrol, OpenFactor, GiveUp, Sign, Expire, factor
  <2>3. opened' # opened
    BY Zenon
  <2> QED
    BY <2>0, <2>1, <2>2, <2>3
<1> QED
  BY <1>1, RotationInvariant, PTL DEF RotationSpec, RekeyedForGood

-----------------------------------------------------------------------------
(* The platform plane.  What a request carries is the authority it is      *)
(* entitled to and tokens that were issued, which no later session reuses  *)
(* (Carried); a store that only issues fresh tokens and only adds to the   *)
(* blacklist lets the other requests keep what they carry (Evolved).       *)

Stage ==
    {"idle", "stamp", "create", "rotate", "recover", "epoch", "verify", "reread", "restamp", "final",
     "me", "sweep", "bump", "blacklist", "revoke", "pointer"}
Route == {"none", "login", "refresh", "revoke", "logout"}
Claims == [authority : Authority, epoch : Nat]

PlatformTypeOK ==
    /\ lineage \in [Token -> Lineage \cup {Unissued}]
    /\ admin \in [status : {"active", "blocked", "gone"}, authority : Authority]
    /\ epoch \in Nat
    /\ record \in [Token -> Authority]
    /\ stage \in [Call -> Stage]
    /\ op \in [Call -> Route]
    /\ tok \in [Call -> Token \cup {NoToken}]
    /\ mint \in [Call -> Token \cup {NoToken}]
    /\ claims \in [Call -> Claims]
    /\ failure \in [Call -> BOOLEAN]
    /\ entitled \in [Call -> SUBSET Authority]

Issued(t) == t \in Token /\ lineage[t] # Unissued

Carried(c) ==
    /\ stage[c] \in {"stamp", "create"} => op[c] = "login"
    /\ stage[c] # "idle" /\ Admitted(admin) => admin.authority \in entitled[c]
    /\ stage[c] \in {"stamp", "create", "restamp", "final", "me"} => claims[c].authority \in entitled[c]
    /\ stage[c] \in {"rotate", "recover", "blacklist", "revoke", "pointer"} => Issued(tok[c])
    /\ stage[c] \in {"epoch", "verify", "reread", "restamp", "final", "me"} => Issued(mint[c])
    /\ stage[c] \in {"revoke", "pointer"} /\ ~failure[c] => tok[c] \in black
    /\ stage[c] = "pointer" /\ ~failure[c] => tok[c] \notin live

AllIssued == \A t \in live \cup handed \cup signedOut : Issued(t)
Shut == shut => live = {} /\ ~Admitted(admin) /\ ~SigningIn

PlatformInv ==
    /\ PlatformTypeOK
    /\ AllIssued
    /\ Shut
    /\ LogoutIsFinal
    /\ \A c \in Call : Carried(c)

LEMMA PlatformInitial == PlatformInit => PlatformInv
<1> SUFFICES ASSUME PlatformInit PROVE PlatformInv
    BY Zenon
<1>1. NoClaims \in Claims /\ admin \in [status : {"active", "blocked", "gone"}, authority : Authority]
    BY PlatformAssumption, Zenon DEF PlatformInit, NoClaims, Claims
<1>4. PlatformTypeOK
    BY <1>1, PlatformAssumption, Zenon DEF PlatformInit, ServiceInit, PlatformTypeOK, Stage, Route
<1>2. AllIssued /\ Shut /\ LogoutIsFinal
    BY Zenon DEF PlatformInit, ServiceInit, AllIssued, Shut, LogoutIsFinal
<1>3. \A c \in Call : Carried(c)
    BY Zenon DEF PlatformInit, Carried
<1> QED
    BY <1>4, <1>2, <1>3, Zenon DEF PlatformInv

LEMMA ClaimsSet ==
    ASSUME NEW f \in [Call -> Claims], NEW c \in Call
    PROVE  /\ \A a \in Authority : [f EXCEPT ![c].authority = a] \in [Call -> Claims]
           /\ \A e \in Nat : [f EXCEPT ![c].epoch = e] \in [Call -> Claims]
           /\ \A a \in Authority, e \in Nat :
                 [f EXCEPT ![c] = [authority |-> a, epoch |-> e]] \in [Call -> Claims]
    BY Zenon DEF Claims

\* How a step may change the store: it issues fresh tokens only, remembers the
\* blacklisted ones, and opens windows for tokens that were live.
Evolved ==
    /\ \A t : Issued(t) => Issued(t)'
    /\ \A t \in live' : t \in live \/ (~Issued(t) /\ Issued(t)')
    /\ grace' \subseteq grace \cup live
    /\ black \subseteq black'

\* ... and what the other requests rely on.
Alone(c) ==
    /\ UNCHANGED admin
    /\ \A d \in Call \ {c} :
          /\ stage'[d] = stage[d] /\ op'[d] = op[d] /\ tok'[d] = tok[d] /\ mint'[d] = mint[d]
          /\ claims'[d] = claims[d] /\ failure'[d] = failure[d] /\ entitled'[d] = entitled[d]

LEMMA OthersCarry ==
    ASSUME PlatformInv, Evolved, NEW c \in Call, Alone(c), Carried(c)' PROVE \A d \in Call : Carried(d)'
<1> SUFFICES ASSUME NEW d \in Call, d # c PROVE Carried(d)'
    BY Zenon
<1>1. Carried(d) /\ (Issued(tok[d]) => Issued(tok[d])') /\ (Issued(mint[d]) => Issued(mint[d])')
    BY Zenon DEF PlatformInv, Evolved, Alone
<1>2. Issued(tok[d]) /\ tok[d] \notin live => tok'[d] \notin live'
    BY Zenon DEF Evolved, Alone
<1> QED
    BY <1>1, <1>2, Zenon DEF Carried, Alone, Evolved, Admitted

\* A store that evolves keeps a signed-out pair out.
LEMMA FinalKept ==
    ASSUME PlatformInv, Evolved, UNCHANGED signedOut PROVE LogoutIsFinal'
    BY Zenon DEF PlatformInv, Evolved, AllIssued, LogoutIsFinal

LEMMA ReturnCarries == ASSUME PlatformTypeOK, NEW c \in Call, Return(c) PROVE Carried(c)'
    BY Zenon DEF PlatformTypeOK, Return, Go, Carried

LEMMA ReturnAlone == ASSUME PlatformTypeOK, NEW c \in Call, Return(c), UNCHANGED admin PROVE Alone(c)
    BY Zenon DEF PlatformTypeOK, Return, Go, Alone

LEMMA ReturnTyped ==
    ASSUME PlatformTypeOK, NEW c \in Call, Return(c), UNCHANGED admin,
           lineage' \in [Token -> Lineage \cup {Unissued}], record' \in [Token -> Authority], epoch' \in Nat
    PROVE  PlatformTypeOK'
<1>1. NoClaims \in Claims
    BY PlatformAssumption, Zenon DEF NoClaims, Claims
<1> QED
    BY <1>1, Zenon DEF PlatformTypeOK, Return, Go, Stage, Route

LEMMA StoreStill == ASSUME UNCHANGED <<service, black>> PROVE Evolved
    BY Zenon DEF Evolved, service, Issued

\* Nobody signs in while the administrator is inactive.
LEMMA ShutKept ==
    ASSUME PlatformInv, NEW c \in Call, Alone(c), UNCHANGED shut, live = {} => live' = {},
           op'[c] = "login" => op[c] = "login" \/ Admitted(admin)
    PROVE  Shut'
    BY DEF PlatformInv, Alone, Shut, SigningIn, Admitted

LEMMA StepKeeps ==
    ASSUME PlatformInv, Evolved, NEW c \in Call, Alone(c), PlatformTypeOK', Carried(c)', Shut',
           UNCHANGED signedOut, \A t \in handed' : t \in handed \/ Issued(t)'
    PROVE  PlatformInv'
<1>1. \A d \in Call : Carried(d)'
    BY OthersCarry, Zenon
<1>2. LogoutIsFinal'
    BY FinalKept, Zenon
<1>3. AllIssued'
    BY Zenon DEF PlatformInv, Evolved, AllIssued
<1> QED
    BY <1>1, <1>2, <1>3, Zenon DEF PlatformInv

\* A request begins.
LEMMA BeginInv ==
    ASSUME PlatformInv, NEW c \in Call,
           LogIn(c) \/ RevokeAll(c) \/ \E t \in Token : Present(c, t) \/ LogOut(c, t)
    PROVE  PlatformInv'
<1>0. stage[c] = "idle" /\ UNCHANGED <<store, host, mint, failure, handed, signedOut, shut>>
    BY Zenon DEF LogIn, RevokeAll, Present, LogOut, Begin, Idle, At
<1>1. PlatformTypeOK'
  <2>1. Due(admin) \in SUBSET Authority
      BY Zenon DEF PlatformInv, PlatformTypeOK, Due
  <2>2. claims' \in [Call -> Claims]
    <3>1. admin.authority \in Authority /\ claims \in [Call -> Claims]
        BY Zenon DEF PlatformInv, PlatformTypeOK
    <3>2. claims' = claims \/ claims' = [claims EXCEPT ![c].authority = admin.authority]
        BY Zenon DEF LogIn, RevokeAll, Present, LogOut
    <3> QED
        BY <3>1, <3>2, ClaimsSet
  <2> QED
      BY <1>0, <2>1, <2>2
      DEF PlatformInv, PlatformTypeOK, LogIn, RevokeAll, Present, LogOut, Begin, Go, store, service, host, Stage, Route
<1>2. Alone(c)
    BY <1>0 DEF PlatformInv, PlatformTypeOK, LogIn, RevokeAll, Present, LogOut, Begin, Go, Alone, host
<1>3. Carried(c)'
    BY <1>0 DEF PlatformInv, PlatformTypeOK, AllIssued, LogIn, RevokeAll, Present, LogOut, Begin, Go, Carried,
                Due, Admitted, store, service, host, Issued, Claims
<1>4. Shut'
    BY <1>0, <1>2, ShutKept, Zenon DEF PlatformInv, PlatformTypeOK, LogIn, RevokeAll, Present, LogOut, Begin, store, service
<1>5. Evolved
    BY <1>0, StoreStill, Zenon DEF store
<1> QED
    BY <1>0, <1>1, <1>2, <1>3, <1>4, <1>5, StepKeeps, Zenon

\* A request passes the gates of a refresh, or ends without a pair; the store
\* keeps all but its epoch.
LEMMA ClaimsInv ==
    ASSUME PlatformInv, NEW c \in Call,
           \/ Stamp(c) \/ StampRotated(c) \/ Verify(c, "verify", "reread") \/ Verify(c, "final", "me")
           \/ Reread(c) \/ SignAgain(c) \/ Deliver(c) \/ Bump(c) \/ Fail(c)
    PROVE  PlatformInv'
<1>0. UNCHANGED <<service, record, black, admin, signedOut, shut>>
    BY Zenon DEF Stamp, StampRotated, Verify, Reread, SignAgain, Deliver, Bump, Fail, store, host, history
<1>t. PlatformTypeOK /\ Carried(c) /\ epoch \in Nat /\ claims \in [Call -> Claims] /\ admin.authority \in Authority
    BY Zenon DEF PlatformInv, PlatformTypeOK
<1>1. PlatformTypeOK'
  <2>1. CASE Return(c)
    <3>1. lineage' = lineage /\ record' = record /\ epoch' \in Nat
      <4>1. epoch' \in {epoch, epoch + 1}
          BY <1>0, Zenon DEF Stamp, StampRotated, Verify, Reread, SignAgain, Deliver, Bump, Fail, store
      <4>2. epoch' \in Nat
          BY <1>t, <4>1
      <4> QED
          BY <1>0, <4>2, Zenon DEF service
    <3> QED
        BY <1>0, <1>t, <2>1, <3>1, ReturnTyped, Zenon DEF PlatformTypeOK
  <2>2. CASE ~ Return(c)
    <3>1. /\ UNCHANGED <<epoch, op, tok, mint, failure, entitled>>
          /\ \E l \in Stage : stage' = [stage EXCEPT ![c] = l]
        BY <2>2, Zenon DEF Stamp, StampRotated, Verify, Reread, SignAgain, Deliver, Bump, Fail, Go, Stage, store, history
    <3>2. mint[c] \in Token => record[mint[c]] \in Authority
        BY <1>t, Zenon DEF PlatformTypeOK
    <3>3. claims' \in [Call -> Claims]
      <4>1. CASE StampRotated(c)
          BY <1>t, <3>2, <4>1, ClaimsSet, Zenon DEF StampRotated, Carried, At, Issued
      <4>2. CASE Reread(c)
        <5> DEFINE a == IF Admitted(admin) /\ Restamp(c) THEN admin.authority ELSE claims[c].authority
        <5>1. claims' = [claims EXCEPT ![c].authority = a]
            BY <4>2, Zenon DEF Reread
        <5>2. a \in Authority
            BY <1>t, Zenon DEF Claims
        <5> QED
            BY <1>t, <5>1, <5>2, ClaimsSet, Zenon
      <4>3. CASE Stamp(c) \/ SignAgain(c)
          BY <1>t, <4>3, ClaimsSet DEF Stamp, SignAgain
      <4> QED
          BY <1>t, <2>2, <4>1, <4>2, <4>3, Zenon DEF Verify, Deliver, Bump, Fail
    <3>4. stage' \in [Call -> Stage]
        BY <1>t, <3>1, Zenon DEF PlatformTypeOK
    <3>5. lineage' = lineage
        BY <1>0, Zenon DEF service
    <3> QED
        BY <1>0, <1>t, <3>1, <3>3, <3>4, <3>5, Zenon DEF PlatformTypeOK
  <2> QED
      BY <2>1, <2>2, Zenon
<1>2. Alone(c)
    BY <1>0, ReturnAlone, Zenon DEF PlatformInv, PlatformTypeOK, Stamp, StampRotated, Verify, Reread, SignAgain, Deliver, Bump,
         Fail, Go, Alone, history
<1>3. Carried(c)'
  <2> USE <1>0, <1>t DEF Carried, At, Go, service, history, store, Issued
  <2>1. CASE Return(c)
      BY <2>1, ReturnCarries, Zenon
  <2>2. CASE Stamp(c)
      BY <2>2 DEF Stamp, PlatformTypeOK, Admitted, Claims
  <2>3. CASE StampRotated(c)
      BY <2>3, Zenon DEF StampRotated, PlatformTypeOK, Admitted
  <2>4. CASE Verify(c, "verify", "reread") /\ ~ Return(c)
      BY <2>4, Zenon DEF Verify, PlatformTypeOK, Admitted
  <2>5. CASE Verify(c, "final", "me") /\ ~ Return(c)
      BY <2>5, Zenon DEF Verify, PlatformTypeOK, Admitted
  <2>6. CASE Reread(c)
      BY <2>6 DEF Reread, PlatformTypeOK, Admitted, Restamp, Claims
  <2>7. CASE SignAgain(c)
      BY <2>7 DEF SignAgain, PlatformTypeOK, Admitted, Claims
  <2> QED
      BY <2>1, <2>2, <2>3, <2>4, <2>5, <2>6, <2>7, Zenon DEF Deliver, Bump, Fail
<1>4. Shut'
    BY <1>0, <1>2, ShutKept, Zenon DEF PlatformInv, PlatformTypeOK, Stamp, StampRotated, Verify, Reread, SignAgain, Deliver,
         Bump, Fail, Return, service
<1>5. Evolved
    BY <1>0, StoreStill, Zenon
<1>6. \A t \in handed' : t \in handed \/ Issued(t)'
    BY <1>0, Zenon DEF PlatformInv, Stamp, StampRotated, Verify, Reread, SignAgain, Deliver, Bump, Fail, Carried, At, Issued, service
<1> QED
    BY <1>0, <1>1, <1>2, <1>3, <1>4, <1>5, <1>6, StepKeeps, Zenon

\* A token is issued.
LEMMA OpenEvolves ==
    ASSUME PlatformTypeOK, NEW n \in Token, NEW l \in Lineage, Fresh(n),
           lineage' = [lineage EXCEPT ![n] = l], live' \subseteq live \cup {n}, grace' \subseteq grace \cup live,
           black' = black
    PROVE  Evolved /\ Issued(n)' /\ lineage' \in [Token -> Lineage \cup {Unissued}]
    BY ServiceAssumption DEF PlatformTypeOK, Evolved, Issued, Fresh

\* A login opens a session; while it runs the door is not shut.
LEMMA CreateInv ==
    ASSUME PlatformInv, NEW c \in Call, NEW n \in Token, NEW l \in Lineage, Create(c, n, l) PROVE PlatformInv'
<1>0. /\ Return(c) /\ UNCHANGED <<epoch, black, admin, signedOut, shut, grace>> /\ handed' = handed \cup {n}
      /\ Fresh(n) /\ lineage' = [lineage EXCEPT ![n] = l] /\ live' = live \cup {n}
      /\ record' = [record EXCEPT ![n] = claims[c].authority]
    BY Zenon DEF Create, Login, Open, host
<1>1. Evolved /\ Issued(n)' /\ lineage' \in [Token -> Lineage \cup {Unissued}]
    BY <1>0, OpenEvolves, Zenon DEF PlatformInv
<1>2. PlatformTypeOK'
  <2>1. record' \in [Token -> Authority]
      BY <1>0, Zenon DEF PlatformInv, PlatformTypeOK, Claims
  <2> QED
      BY <1>0, <1>1, <2>1, ReturnTyped, Zenon DEF PlatformInv, PlatformTypeOK
<1>3. Alone(c) /\ Carried(c)'
    BY <1>0, ReturnAlone, ReturnCarries, Zenon DEF PlatformInv
<1>4. Shut'
  <2>1. op[c] = "login"
      BY Zenon DEF PlatformInv, Carried, Create, At
  <2> QED
      BY <1>0, <2>1, Zenon DEF PlatformInv, Shut, SigningIn
<1> QED
    BY <1>0, <1>1, <1>2, <1>3, <1>4, StepKeeps, Zenon

\* A refresh that mints: its new session descends from a login that was issued.
LEMMA MintedInv ==
    ASSUME PlatformInv, NEW c \in Call, NEW n \in Token, Minted(c, n), Issued(tok[c]), Fresh(n),
           stage[c] \in {"rotate", "recover"}, live # {},
           lineage' = [lineage EXCEPT ![n] = lineage[tok[c]]], live' \subseteq live \cup {n},
           grace' \subseteq grace \cup live, UNCHANGED <<epoch, black, admin, handed, signedOut, shut>>
    PROVE  PlatformInv'
<1>0. lineage[tok[c]] \in Lineage
    BY Zenon DEF PlatformInv, PlatformTypeOK, Issued
<1>1. Evolved /\ Issued(n)' /\ lineage' \in [Token -> Lineage \cup {Unissued}]
    BY <1>0, OpenEvolves, Zenon DEF PlatformInv
<1>2. PlatformTypeOK'
    BY <1>1, Zenon DEF PlatformInv, PlatformTypeOK, Minted, Go, Stage, Issued
<1>3. Alone(c)
    BY Zenon DEF PlatformInv, PlatformTypeOK, Minted, Go, Alone
<1>4. Carried(c)'
    BY <1>1, Zenon DEF PlatformInv, PlatformTypeOK, Minted, Go, Carried, Admitted
<1>5. Shut'
    BY <1>3, ShutKept, Zenon DEF PlatformInv, Minted
<1> QED
    BY <1>1, <1>2, <1>3, <1>4, <1>5, StepKeeps, Zenon

LEMMA RotateInv == ASSUME PlatformInv, NEW c \in Call, NEW n \in Token, Rotate(c, n) PROVE PlatformInv'
<1>0. stage[c] = "rotate" /\ Issued(tok[c]) /\ UNCHANGED <<epoch, black, admin, handed, signedOut, shut>>
    BY Zenon DEF PlatformInv, Carried, Rotate, At, host
<1>1. CASE Rotated(tok[c], n) /\ Minted(c, n)
  <2>1. /\ Fresh(n) /\ live # {} /\ lineage' = [lineage EXCEPT ![n] = lineage[tok[c]]]
        /\ live' \subseteq live \cup {n} /\ grace' \subseteq grace \cup live
      BY <1>1, Zenon DEF Rotated, Exchange
  <2> QED
      BY <1>0, <1>1, <2>1, MintedInv, Zenon
<1>2. CASE GraceFound(tok[c]) /\ Go(c, "recover") /\ UNCHANGED <<record, op, tok, mint, claims, failure, entitled>>
  <2>1. PlatformTypeOK' /\ Alone(c)
      BY <1>0, <1>2, Zenon DEF PlatformInv, PlatformTypeOK, GraceFound, Go, Stage, Alone
  <2>2. Carried(c)'
      BY <1>0, <1>2, Zenon DEF PlatformInv, PlatformTypeOK, GraceFound, Go, Carried, Admitted, Issued
  <2>3. Evolved
      BY <1>0, <1>2, Zenon DEF GraceFound, Evolved, Issued
  <2>4. Shut'
      BY <1>0, <1>2, <2>1, ShutKept, Zenon DEF GraceFound
  <2> QED
      BY <1>0, <2>1, <2>2, <2>3, <2>4, StepKeeps, Zenon
<1>3. CASE (Reused(tok[c]) \/ Unknown(tok[c])) /\ Return(c) /\ UNCHANGED record
  <2>1. lineage' = lineage /\ live' \subseteq live /\ grace' \subseteq grace
      BY <1>3, Zenon DEF Reused, Unknown, service
  <2>2. PlatformTypeOK' /\ Alone(c) /\ Carried(c)'
      BY <1>0, <1>3, <2>1, ReturnTyped, ReturnAlone, ReturnCarries, Zenon DEF PlatformInv, PlatformTypeOK
  <2>3. Evolved
      BY <1>0, <2>1, Zenon DEF Evolved, Issued
  <2>4. Shut'
    <3>1. op'[c] = "none" /\ "none" # "login"
        BY <1>3, Zenon DEF PlatformInv, PlatformTypeOK, Return
    <3>2. (live = {} => live' = {}) /\ UNCHANGED shut
        BY <1>0, <2>1, Zenon
    <3> QED
        BY <2>2, <3>1, <3>2, ShutKept, Zenon
  <2> QED
      BY <1>0, <2>2, <2>3, <2>4, StepKeeps, Zenon
<1> QED
    BY <1>1, <1>2, <1>3, Zenon DEF Rotate

\* A recovery brings back a session only of a login that still has one.
LEMMA RecoverInv == ASSUME PlatformInv, NEW c \in Call, NEW n \in Token, Recover(c, n) PROVE PlatformInv'
<1>0. stage[c] = "recover" /\ Issued(tok[c]) /\ UNCHANGED <<epoch, black, admin, handed, signedOut, shut>>
    BY Zenon DEF PlatformInv, Carried, Recover, At, host
<1>1. CASE LineageLives(tok[c])
  <2>1. /\ Minted(c, n) /\ Fresh(n) /\ live # {} /\ lineage' = [lineage EXCEPT ![n] = lineage[tok[c]]]
        /\ live' \subseteq live \cup {n} /\ grace' \subseteq grace \cup live
      BY <1>1, Zenon DEF Recover, Recovered, Open, LineageLives
  <2> QED
      BY <1>0, <2>1, MintedInv, Zenon
<1>2. CASE ~ LineageLives(tok[c])
  <2>1. Return(c) /\ UNCHANGED <<service, record>>
      BY <1>2, Zenon DEF Recover
  <2>2. PlatformTypeOK' /\ Alone(c) /\ Carried(c)'
      BY <1>0, <2>1, ReturnTyped, ReturnAlone, ReturnCarries, Zenon DEF PlatformInv, PlatformTypeOK, service
  <2>3. Evolved
      BY <1>0, <2>1, StoreStill, Zenon
  <2>4. Shut'
      BY <1>0, <2>1, <2>2, ShutKept, Zenon DEF PlatformInv, PlatformTypeOK, Return, service
  <2> QED
      BY <1>0, <2>2, <2>3, <2>4, StepKeeps, Zenon
<1> QED
    BY <1>1, <1>2, Zenon

\* The sweep of a refused refresh leaves no session, and nobody who could open
\* one: that is when the door is shut.
LEMMA SweepInv == ASSUME PlatformInv, NEW c \in Call, Sweep(c) PROVE PlatformInv'
<1>0. /\ live' = {} /\ grace' \subseteq grace /\ UNCHANGED <<lineage, black, admin, handed, signedOut, op>>
      /\ UNCHANGED <<epoch, record, tok, mint, claims, failure, entitled>>
      /\ stage' = [stage EXCEPT ![c] = "bump"] /\ stage[c] # "idle"
      /\ shut' => shut \/ (~Admitted(admin) /\ ~SigningIn)
    BY Zenon DEF Sweep, Swept, host, At, Go
<1>1. PlatformTypeOK' /\ Alone(c)
    BY <1>0, Zenon DEF PlatformInv, PlatformTypeOK, Stage, Alone
<1>2. Carried(c)'
    BY <1>0, Zenon DEF PlatformInv, PlatformTypeOK, Carried, Admitted
<1>3. Evolved
    BY <1>0, Zenon DEF Evolved, Issued
<1>4. Shut'
    BY <1>0, Zenon DEF PlatformInv, Shut, SigningIn, Admitted
<1> QED
    BY <1>0, <1>1, <1>2, <1>3, <1>4, StepKeeps, Zenon

\* The first two writes of a logout.
LEMMA LogoutWritesInv ==
    ASSUME PlatformInv, NEW c \in Call, Blacklist(c) \/ EndSession(c) PROVE PlatformInv'
<1>0. /\ UNCHANGED <<lineage, epoch, record, admin, op, tok, mint, claims, handed, entitled, signedOut, shut>>
      /\ Issued(tok[c]) /\ live' \subseteq live /\ grace' \subseteq grace /\ black \subseteq black'
      /\ failure' \in {failure, [failure EXCEPT ![c] = TRUE]}
      /\ stage' = [stage EXCEPT ![c] = IF At(c, "blacklist") THEN "revoke" ELSE "pointer"]
    BY Zenon DEF PlatformInv, Carried, Blacklist, EndSession, Noted, At, Go, host, history, store, service
<1>1. PlatformTypeOK' /\ Alone(c)
    BY <1>0, Zenon DEF PlatformInv, PlatformTypeOK, Stage, Alone
<1>2. Carried(c)'
  <2>1. CASE Blacklist(c)
      BY <1>0, <2>1, Zenon DEF PlatformInv, PlatformTypeOK, Carried, Admitted, Issued, Blacklist, Noted, At, store
  <2>2. CASE EndSession(c)
      BY <1>0, <2>2, Zenon DEF PlatformInv, PlatformTypeOK, Carried, Admitted, Issued, EndSession, Noted, At, store
  <2> QED
      BY <2>1, <2>2, Zenon
<1>3. Evolved
    BY <1>0, Zenon DEF Evolved, Issued
<1>4. Shut'
    BY <1>0, <1>1, ShutKept, Zenon
<1> QED
    BY <1>0, <1>1, <1>2, <1>3, <1>4, StepKeeps, Zenon

\* The last one, and the answer.
LEMMA DropPointerInv == ASSUME PlatformInv, NEW c \in Call, DropPointer(c) PROVE PlatformInv'
<1>0. /\ UNCHANGED <<lineage, live, epoch, record, black, admin, handed, shut>> /\ Return(c)
      /\ grace' = grace \ {tok[c]} /\ Issued(tok[c])
      /\ signedOut' \subseteq signedOut \cup {tok[c]}
      /\ tok[c] \in signedOut' => tok[c] \in signedOut \/ (tok[c] \in black /\ tok[c] \notin live)
    BY Zenon DEF PlatformInv, Carried, DropPointer, Dropped, At, host
<1>1. PlatformTypeOK' /\ Alone(c) /\ Carried(c)'
    BY <1>0, ReturnTyped, ReturnAlone, ReturnCarries, Zenon DEF PlatformInv, PlatformTypeOK
<1>2. Evolved
    BY <1>0, Zenon DEF Evolved, Issued
<1>3. Shut'
    BY <1>0, <1>1, ShutKept, Zenon DEF PlatformInv, PlatformTypeOK, Return
<1>4. \A d \in Call : Carried(d)'
    BY <1>1, <1>2, OthersCarry, Zenon
<1>5. LogoutIsFinal'
    BY <1>0, Zenon DEF PlatformInv, LogoutIsFinal
<1>6. AllIssued'
    BY <1>0, Zenon DEF PlatformInv, AllIssued, Issued
<1> QED
    BY <1>1, <1>3, <1>4, <1>5, <1>6, Zenon DEF PlatformInv

\* The host's changes: each request is entitled to what it may read.
LEMMA HostChangeInv ==
    ASSUME PlatformInv, NEW a \in [status : {"active", "blocked", "gone"}, authority : Authority], HostChange(a)
    PROVE  PlatformInv'
<1>0. /\ UNCHANGED <<lineage, live, grace, epoch, record, black, handed, signedOut>>
      /\ UNCHANGED <<stage, op, tok, mint, claims, failure>> /\ admin' = a
      /\ entitled' = [c \in Call |-> IF Idle(c) THEN {} ELSE entitled[c] \cup Due(a)]
      /\ shut' => shut /\ ~Admitted(a)
    BY Zenon DEF HostChange, store, service, request
<1>1. PlatformTypeOK'
  <2>1. Due(a) \in SUBSET Authority
      BY Zenon DEF Due
  <2> QED
      BY <1>0, <2>1, Zenon DEF PlatformInv, PlatformTypeOK
<1>2. ASSUME NEW c \in Call PROVE Carried(c)'
    BY <1>0, Zenon DEF PlatformInv, Carried, Issued, Due, Idle, At, Admitted
<1>3. AllIssued' /\ Shut' /\ LogoutIsFinal'
    BY <1>0, Zenon DEF PlatformInv, AllIssued, Issued, Shut, SigningIn, Admitted, LogoutIsFinal
<1> QED
    BY <1>1, <1>2, <1>3, Zenon DEF PlatformInv

\* A window closes, or nothing happens.
LEMMA IdleInv == ASSUME PlatformInv, UNCHANGED platformVars \/ \E t \in Token : Lapse(t) PROVE PlatformInv'
<1>0. /\ UNCHANGED <<lineage, live, epoch, record, black, admin, handed, signedOut, shut>> /\ grace' \subseteq grace
      /\ UNCHANGED <<stage, op, tok, mint, claims, failure, entitled>>
    BY Zenon DEF Lapse, platformVars, store, service, host, request, history
<1>1. PlatformTypeOK'
    BY <1>0, Zenon DEF PlatformInv, PlatformTypeOK
<1>2. ASSUME NEW c \in Call PROVE Carried(c)'
    BY <1>0, Zenon DEF PlatformInv, Carried, Issued, Admitted
<1>3. AllIssued' /\ Shut' /\ LogoutIsFinal'
    BY <1>0, Zenon DEF PlatformInv, AllIssued, Issued, Shut, SigningIn, Admitted, LogoutIsFinal
<1> QED
    BY <1>1, <1>2, <1>3, Zenon DEF PlatformInv

LEMMA PlatformStep == PlatformInv /\ [PlatformNext]_platformVars => PlatformInv'
    BY BeginInv, ClaimsInv, CreateInv, RotateInv, RecoverInv, SweepInv, LogoutWritesInv, DropPointerInv,
       HostChangeInv, IdleInv, Zenon
    DEF PlatformNext, TurnedAway

\* Once a refresh is refused to an administrator who is blocked or gone, and
\* until they are active again, the plane holds no session.
THEOREM RefusedIsShutOut == PlatformSpec => []RefusalShutsOut
<1>1. PlatformInv => RefusalShutsOut
    BY Zenon DEF PlatformInv, Shut, RefusalShutsOut
<1> QED
    BY PlatformInitial, PlatformStep, <1>1, PTL DEF PlatformSpec

\* A logout answered 204 is final: the access token stays blacklisted, and no
\* rotation, recovery or grace window exchanges the refresh token again.
THEOREM LogoutsAreFinal == PlatformSpec => []LogoutIsFinal
<1>1. PlatformInv => LogoutIsFinal
    BY Zenon DEF PlatformInv
<1> QED
    BY PlatformInitial, PlatformStep, <1>1, PTL DEF PlatformSpec

\* A pair is handed over only with an authority the administrator held, while
\* active, since the request began.
THEOREM AuthoritiesAreCurrent == PlatformSpec => AuthorityIsCurrent
<1>1. ASSUME PlatformInv, PlatformNext, handed' # handed
      PROVE  \E c \in Call : Deliver(c) \/ \E n \in Token, l \in Lineage : Create(c, n, l)
  <2>1. \A c \in Call, t \in Token :
           ~Present(c, t) /\ ~LogOut(c, t) /\ ~Rotate(c, t) /\ ~Recover(c, t) /\ ~Lapse(t)
      BY <1>1, Zenon DEF Present, LogOut, Rotate, Recover, Lapse
  <2>2. \A c \in Call, l, m \in Stage :
           /\ ~TurnedAway(c) /\ ~LogIn(c) /\ ~Stamp(c) /\ ~StampRotated(c) /\ ~Verify(c, l, m)
           /\ ~Reread(c) /\ ~SignAgain(c) /\ ~RevokeAll(c)
      BY <1>1, Zenon DEF TurnedAway, platformVars, LogIn, Stamp, StampRotated, Verify, Reread, SignAgain, RevokeAll
  <2>3. \A c \in Call :
           ~Sweep(c) /\ ~Bump(c) /\ ~Blacklist(c) /\ ~EndSession(c) /\ ~DropPointer(c) /\ ~Fail(c)
      BY <1>1, Zenon DEF Sweep, Bump, Blacklist, EndSession, DropPointer, Fail
  <2>4. \A a : ~HostChange(a)
      BY <1>1, Zenon DEF HostChange
  <2>5. \A t \in Token : ~Lapse(t)
      BY <1>1, Zenon DEF Lapse
  <2> QED
      BY <1>1, <2>1, <2>2, <2>3, <2>4, <2>5 DEF PlatformNext, Stage
<1>2. ASSUME PlatformInv, NEW c \in Call, Deliver(c) \/ (\E n \in Token, l \in Lineage : Create(c, n, l)),
             NEW d \in Call, ~Idle(d), stage'[d] = "idle"
      PROVE  claims[d].authority \in entitled[d]
  <2>1. Return(c) /\ stage[c] \in {"me", "create"}
      BY <1>2, Zenon DEF Deliver, Create, At
  <2>2. d = c
      BY <1>2, <2>1, Zenon DEF PlatformInv, PlatformTypeOK, Return, Go, Idle, At
  <2> QED
      BY <1>2, <2>1, <2>2, Zenon DEF PlatformInv, Carried
<1>3. PlatformInv /\ [PlatformNext]_platformVars =>
        [\A c \in Call : handed' # handed /\ ~Idle(c) /\ stage'[c] = "idle" /\ op[c] \in {"login", "refresh"}
            => claims[c].authority \in entitled[c]]_platformVars
    BY <1>1, <1>2, Zenon
<1> QED
    BY PlatformInitial, PlatformStep, <1>3, PTL DEF PlatformSpec, AuthorityIsCurrent

-----------------------------------------------------------------------------
(* Delivery.  Hosts keep their scopes, so what a logout in flight found in *)
(* the jar is still planted and accepted where it was sent, and under a    *)
(* name it was sent with.                                                  *)

JarTypeOK ==
    /\ kept \in SUBSET Cookie
    /\ sent \in [Tab -> SUBSET CookieName]
    /\ held \in [Tab -> SUBSET Cookie]
    /\ DOMAIN origin = Tab

DeliveryInv ==
    /\ JarTypeOK
    /\ \A t \in away : \A c \in held[t] :
          /\ c \in Planted(origin[t]) /\ Takes(origin[t], c.scope)
          /\ (c.name = "refresh" => covered) => c.name \in sent[t]

LEMMA DeliveryInitial == DeliveryInit => DeliveryInv
    BY Zenon DEF DeliveryInit, DeliveryInv, JarTypeOK

LEMMA DeliveryStep == DeliveryInv /\ [DeliveryNext]_deliveryVars => DeliveryInv'
<1> SUFFICES ASSUME DeliveryInv, [DeliveryNext]_deliveryVars PROVE DeliveryInv'
    BY Zenon
<1>1. ASSUME UNCHANGED <<deployment, sent, held, origin, away>>, kept' \in SUBSET Cookie PROVE DeliveryInv'
  <2>1. UNCHANGED <<resolve, covered>>
      BY <1>1, Zenon DEF deployment
  <2>2. ASSUME NEW t \in away PROVE Planted(origin[t])' = Planted(origin[t])
      BY <1>1, <2>1, Zenon DEF Planted, Scopes
  <2> QED
      BY <1>1, <2>1, <2>2 DEF DeliveryInv, JarTypeOK, Takes
<1>2. ASSUME NEW t \in Tab, NEW h \in Host, SendLogout(t, h) PROVE DeliveryInv'
  <2>1. /\ {c.name : c \in Sends(h)} \in SUBSET CookieName
        /\ {c \in kept \cap Planted(h) : Takes(h, c.scope)} \in SUBSET Cookie
      BY Zenon DEF Sends, DeliveryInv, JarTypeOK, Cookie
  <2>2. UNCHANGED <<resolve, covered>>
      BY <1>2, Zenon DEF SendLogout, deployment
  <2>3. JarTypeOK'
      BY <1>2, <2>1, Zenon DEF SendLogout, DeliveryInv, JarTypeOK
  <2>4. ASSUME NEW u \in away' PROVE Planted(origin[u])' = Planted(origin'[u])
      BY <2>2, Zenon DEF Planted, Scopes
  <2>5. /\ origin'[t] = h /\ \A c \in held'[t] : c \in Planted(h) /\ Takes(h, c.scope)
        /\ \A c \in held'[t] : (c.name = "refresh" => covered) => c.name \in sent'[t]
        /\ \A u \in away : held'[u] = held[u] /\ sent'[u] = sent[u] /\ origin'[u] = origin[u]
      BY <1>2 DEF SendLogout, DeliveryInv, JarTypeOK, Sends
  <2>6. ASSUME NEW u \in away', NEW c \in held'[u]
        PROVE  /\ c \in Planted(origin'[u]) /\ Takes(origin'[u], c.scope)
               /\ (c.name = "refresh" => covered) => c.name \in sent'[u]
    <3>1. CASE u = t
        BY <2>5, <3>1, Zenon
    <3>2. CASE u \in away
        BY <2>5, <3>2, Zenon DEF DeliveryInv
    <3> QED
        BY <1>2, <3>1, <3>2, Zenon DEF SendLogout
  <2> QED
      BY <2>2, <2>3, <2>4, <2>6, Zenon DEF DeliveryInv, Takes
<1>3. ASSUME NEW t \in Tab, Back(t), kept' \in SUBSET Cookie PROVE DeliveryInv'
  <2>1. /\ UNCHANGED <<resolve, covered>> /\ away' = away \ {t}
        /\ \A u \in away' : held'[u] = held[u] /\ sent'[u] = sent[u] /\ origin'[u] = origin[u]
      BY <1>3 DEF Back, DeliveryInv, JarTypeOK, deployment
  <2>2. ASSUME NEW u \in away' PROVE Planted(origin[u])' = Planted(origin[u])
      BY <2>1 DEF Planted, Scopes
  <2>3. JarTypeOK'
      BY <1>3, Zenon DEF Back, DeliveryInv, JarTypeOK
  <2> QED
      BY <1>3, <2>1, <2>2, <2>3, Zenon DEF DeliveryInv, Takes
<1>4. ASSUME NEW h \in Host, DeliverAuth(h) \/ DeliverForBrowser(h) PROVE DeliveryInv'
    BY <1>1, <1>4, Zenon DEF DeliverAuth, DeliverForBrowser, DeliveryInv, JarTypeOK, Planted
<1>5. ASSUME NEW c \in Cookie, Age(c) PROVE DeliveryInv'
    BY <1>1, <1>5, Zenon DEF Age, DeliveryInv, JarTypeOK
<1>6. ASSUME NEW t \in Tab, LoggedOut(t) \/ LogoutRefused(t) PROVE DeliveryInv'
    BY <1>3, <1>6, Zenon DEF LoggedOut, LogoutRefused, DeliveryInv, JarTypeOK
<1>7. CASE UNCHANGED deliveryVars
    BY <1>1, <1>7, Zenon DEF deliveryVars, deployment, DeliveryInv, JarTypeOK
<1> QED
    BY <1>2, <1>4, <1>5, <1>6, <1>7, Zenon DEF DeliveryNext

\* A logout that is answered 204 leaves none of the cookies its host had planted
\* by the time it was sent, on any scope: the expiries of the first scope need
\* the name in the request, which a cookie in the jar puts there.
THEOREM LogoutsClearTheJar == DeliverySpec => LogoutClearsJar
<1>1. ASSUME DeliveryInv, NEW t \in Tab, LoggedOut(t), NEW c \in held[t], c.name = "refresh" => covered
      PROVE  c \notin kept'
  <2>1. c \in Planted(origin[t]) /\ Takes(origin[t], c.scope) /\ c.name \in sent[t]
      BY <1>1, Zenon DEF DeliveryInv, LoggedOut, Back
  <2>2. c \in Expired(origin[t], sent[t])
      BY <2>1, Zenon DEF Planted, Expired
  <2> QED
      BY <1>1, <2>1, <2>2, Zenon DEF LoggedOut
<1>2. DeliveryInv /\ [DeliveryNext]_deliveryVars =>
        [\A t \in Tab : LoggedOut(t) =>
            \A c \in held[t] : (c.name = "refresh" => covered) => c \notin kept']_deliveryVars
    BY <1>1, Zenon
<1> QED
    BY DeliveryInitial, DeliveryStep, <1>2, PTL DEF DeliverySpec, LogoutClearsJar

-----------------------------------------------------------------------------
(* RateLimit.  Every request is charged to the bucket of its owner         *)
(* (ResolvesClient), so a bucket's counter and its owner's window are one  *)
(* and the same.                                                           *)

LimitInv ==
    /\ source \in {"peer", "forwarded"}
    /\ hits \in [Bucket -> 0..(Burst + 1)]
    /\ left \in [Bucket -> 0..Span]
    /\ due = left
    /\ made = hits
    /\ passed \in [Bucket -> 0..Burst]
    /\ \A b \in Bucket : (hits[b] = 0 <=> left[b] = 0) /\ passed[b] <= hits[b]

\* The walk stops at the client, through however many proxies and whatever the
\* client wrote: everything to its right is a trusted proxy, and it is none.
LEMMA ResolvesClient ==
    ASSUME source = "forwarded", NEW c \in Client,
           NEW path \in Seq(Proxy), NEW written \in Seq(IpAddr \cup {Junk})
    PROVE  LET hops == <<c>> \o path IN
           Resolve(hops[Len(hops)], written \o SubSeq(hops, 1, Len(hops) - 1)) = c
<1> DEFINE S == IpAddr \cup {Junk}
           hops == <<c>> \o path
           seen == SubSeq(hops, 1, Len(hops) - 1)
           chain == written \o seen
           n == Len(path)
           m == Len(written)
<1>1. c # Junk /\ ~Trusted(c) /\ \A p \in Proxy : Trusted(p) /\ p # Junk
    BY LimitAssumption, Zenon DEF Trusted, IpAddr
<1>2. /\ hops \in Seq(S) /\ Len(hops) = n + 1 /\ n \in Nat
      /\ hops[1] = c /\ \A i \in 2..(n + 1) : hops[i] \in Proxy
    BY DEF IpAddr
<1>3. CASE n = 0
    BY <1>1, <1>2, <1>3 DEF Resolve
<1>4. CASE n > 0
  <2>1. seen \in Seq(S) /\ Len(seen) = n /\ \A j \in 1..n : seen[j] = hops[j]
      BY <1>2
  <2> HIDE DEF hops, seen
  <2>2. chain \in Seq(S) /\ Len(chain) = m + n /\ m \in Nat /\ \A j \in 1..n : chain[m + j] = seen[j]
      BY <2>1
  <2> HIDE DEF chain
  <2>3. chain[m + 1] = c
      BY <1>2, <1>4, <2>1, <2>2
  <2>4. ASSUME NEW k \in (m + 2)..(m + n) PROVE chain[k] \in Proxy
    <3>1. k - m \in 1..n /\ k - m \in 2..(n + 1) /\ m + (k - m) = k
        BY <1>2, <2>2
    <3>2. chain[m + (k - m)] = seen[k - m]
        BY <2>2, <3>1, Zenon
    <3> QED
        BY <1>2, <2>1, <3>1, <3>2, Zenon
  <2>5. Walked(chain) = (m + 1)..(m + n)
    <3>1. DOMAIN chain = 1..(m + n)
        BY <2>2
    <3>2. ASSUME NEW i \in (m + 1)..(m + n) PROVE i \in Walked(chain)
      <4>1. i \in 1..(m + n)
          BY <1>2, <2>2
      <4>2. ASSUME NEW k \in i..Len(chain) PROVE chain[k] # Junk /\ (k > i => Trusted(chain[k]))
        <5>1. k = m + 1 \/ k \in (m + 2)..(m + n)
            BY <1>2, <2>2
        <5>2. k > i => k \in (m + 2)..(m + n)
            BY <1>2, <2>2
        <5> QED
            BY <1>1, <2>3, <2>4, <5>1, <5>2, Zenon
      <4> QED
          BY <3>1, <4>1, <4>2, Zenon DEF Walked
    <3>3. ASSUME NEW i \in 1..m PROVE i \notin Walked(chain)
      <4>1. m + 1 \in i..Len(chain) /\ m + 1 > i
          BY <1>2, <1>4, <2>2
      <4> QED
          BY <1>1, <2>3, <4>1, Zenon DEF Walked
    <3>4. Walked(chain) \subseteq 1..(m + n)
        BY <3>1, Zenon DEF Walked
    <3>5. /\ \A i \in 1..(m + n) : i \in 1..m \/ i \in (m + 1)..(m + n)
          /\ (m + 1)..(m + n) \subseteq 1..(m + n)
        BY <1>2, <2>2
    <3> QED
        BY <3>2, <3>3, <3>4, <3>5, Zenon
  <2>6. (CHOOSE i \in Walked(chain) : \A k \in Walked(chain) : i <= k) = m + 1
      BY <1>2, <1>4, <2>2, <2>5
  <2>7. hops[Len(hops)] \in Proxy
      BY <1>2, <1>4
  <2>8. m + 1 \in Walked(chain)
      BY <1>2, <1>4, <2>2, <2>5
  <2>9. Resolve(hops[Len(hops)], chain) = c
      BY <1>1, <2>3, <2>6, <2>7, <2>8, Zenon DEF Resolve
  <2> QED
      BY <2>9, Zenon DEF chain, seen, hops
<1> QED
    BY <1>2, <1>3, <1>4

\* A bucket that is charged what its owner made keeps the invariant.
LEMMA ChargeKeeps ==
    ASSUME LimitInv, NEW b \in Bucket, NEW answered \in BOOLEAN, Charge(b, b, answered)
    PROVE  LimitInv'
<1> USE LimitAssumption DEF LimitInv, Charge, Hit, Counted
<1>1. /\ hits[b] \in 0..(Burst + 1) /\ left[b] \in 0..Span /\ passed[b] \in 0..Burst
      /\ hits[b] = 0 <=> left[b] = 0
      /\ passed[b] <= hits[b]
    BY Zenon
<1>2. /\ Counted(hits[b]) \in 1..(Burst + 1) /\ Counted(hits[b]) >= hits[b]
      /\ hits[b] < Burst => Counted(hits[b]) = hits[b] + 1
      /\ (IF due[b] = 0 THEN 1 ELSE Counted(made[b])) = Counted(hits[b])
    BY <1>1
<1> HIDE DEF Counted
<1>3. hits' = [hits EXCEPT ![b] = Counted(hits[b])] /\ made' = hits'
    BY <1>2, Zenon
<1>4. left' = [left EXCEPT ![b] = IF hits[b] = 0 THEN Span ELSE left[b]] /\ due' = left'
    BY <1>1, Zenon
<1>5. passed' = [passed EXCEPT ![b] = passed[b] + IF answered /\ hits[b] < Burst THEN 1 ELSE 0]
    BY Zenon
<1>6. hits' \in [Bucket -> 0..(Burst + 1)] /\ left' \in [Bucket -> 0..Span] /\ passed' \in [Bucket -> 0..Burst]
    BY <1>1, <1>2, <1>3, <1>4, <1>5
<1>7. ASSUME NEW x \in Bucket PROVE (hits'[x] = 0 <=> left'[x] = 0) /\ passed'[x] <= hits'[x]
    BY <1>1, <1>2, <1>3, <1>4, <1>5
<1> QED
    BY <1>3, <1>4, <1>6, <1>7, Zenon

LEMMA LimitStep == LimitInv /\ [LimitNext]_limitVars => LimitInv'
<1> SUFFICES ASSUME LimitInv, [LimitNext]_limitVars PROVE LimitInv'
    BY Zenon
<1>1. ASSUME NEW c \in Client, NEW path \in Path, NEW written \in Written, NEW answered \in BOOLEAN,
             Request(c, path, written, answered)
      PROVE  LimitInv'
  <2> DEFINE hops == <<c>> \o path
             peer == hops[Len(hops)]
             owner == IF source = "peer" THEN peer ELSE c
  <2>1. Resolve(peer, written \o SubSeq(hops, 1, Len(hops) - 1)) = owner
    <3>1. path \in Seq(Proxy) /\ written \in Seq(IpAddr \cup {Junk})
        BY LimitAssumption, Zenon
    <3> QED
        BY <3>1, ResolvesClient, Zenon DEF LimitInv, Resolve
  <2>2. peer \in IpAddr
    <3>1. path \in Seq(IpAddr)
        BY LimitAssumption DEF IpAddr
    <3> QED
        BY <3>1 DEF IpAddr
  <2>3. Net[owner] \in Bucket
      BY <2>2, Zenon DEF Bucket, IpAddr
  <2> QED
      BY <1>1, <2>1, <2>3, ChargeKeeps, Zenon DEF Request
<1>2. ASSUME NEW answered \in BOOLEAN, RequestUnknown(answered) PROVE LimitInv'
    BY <1>2, ChargeKeeps, Zenon DEF RequestUnknown, Bucket
<1>3. CASE LimitTick
    BY <1>3, LimitAssumption DEF LimitTick, LimitInv
<1>4. CASE UNCHANGED limitVars
    BY <1>4, Zenon DEF limitVars, LimitInv
<1> QED
    BY <1>1, <1>2, <1>3, <1>4, Zenon DEF LimitNext

\* A network is let through at most Burst times in a window, and only its own
\* requests spend its budget, through any proxies and whatever it writes into
\* X-Forwarded-For.
THEOREM EveryNetworkHasOneBudget == LimitSpec => []OneBudget
<1>1. LimitInit => LimitInv
    BY LimitAssumption DEF LimitInit, LimitInv
<1>2. LimitInv => OneBudget
    BY DEF LimitInv, OneBudget
<1> QED
    BY <1>1, LimitStep, <1>2, PTL DEF LimitSpec
=============================================================================
