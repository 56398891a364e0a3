------------------------------ MODULE MfaProofs ------------------------------
(***************************************************************************)
(* Proofs about Mfa, for any number of requests, secrets, code sets and    *)
(* temp tokens.                                                            *)
(*                                                                         *)
(* The inductive invariant MfaInv has a part that holds whatever happens   *)
(* (Basics) and one that holds while nothing was excused (Clean): no write *)
(* after the lock's TTL, no claim lost under a request that relies on it,  *)
(* no secret enrolled twice.  Clean is the life of a recovery code.  A set *)
(* nobody has seen (Unseen) is in the pending record or with a request     *)
(* that is to write it (Supplied); once written it may be copied by a      *)
(* challenge (Current), which claims one of its codes and keeps the claim  *)
(* until it has either taken the code out of the record or found it gone   *)
(* (Claimed).  So no code is accepted while it is still in the record, and *)
(* none gets back into it.                                                 *)
(***************************************************************************)
EXTENDS Mfa, TLAPS

-----------------------------------------------------------------------------
(* Types.                                                                  *)

Stage ==
    {"idle", "fetch", "code", "redeem", "issue", "acquire", "reread", "write", "release", "getsetup",
     "putsetup", "gate", "take", "revoke", "bump"}
Management == {"setup", "enable", "disable", "reset", "regenerate"}
Op == Management \cup {"challenge", None}

LocalOK ==
    /\ pc \in [Req -> Stage] /\ op \in [Req -> Op]
    /\ cred \in [Req -> Temp \cup {None}] /\ code \in [Req -> RCode \cup {None}]
    /\ view \in [Req -> Factor] /\ data \in [Req -> Draft] /\ plan \in [Req -> Factor \cup {None}]

\* The stages only some operations pass.
OnRoute(p, o) ==
    /\ p = "getsetup" => o \in {"setup", "enable"}
    /\ p \in {"fetch", "code", "redeem"} => o = "challenge"

MfaTypeOK ==
    /\ LocalOK
    /\ \A r \in Req : (pc[r] = "write" => plan[r] \in Factor) /\ OnRoute(pc[r], op[r])
    /\ mfa \in Factor
    /\ setup \in Draft \cup {None}
    /\ temp \subseteq Temp

-----------------------------------------------------------------------------
(* Recovery codes.                                                         *)

Published(codes) == \A c \in codes : c[1] \in generated

\* Every set that is about was handed out, and a request inside the lock holds
\* it or has overrun it.
HandedOut ==
    /\ Published(mfa.codes)
    /\ setup # None => Published(setup.codes)
    /\ \A r \in Req : Published(view[r].codes) /\ Published(data[r].codes)
    /\ \A r \in Req : pc[r] = "write" => Published(plan[r].codes)
LockHeld == \A r \in Req : pc[r] \in {"reread", "write"} /\ r \notin overran => lock = r

\* A request with a set of codes that is to be written and was never shown.
Supplies(r) ==
    /\ pc[r] \in {"gate", "take", "acquire", "reread", "write"}
    /\ op[r] = "regenerate" \/ (op[r] = "enable" /\ data[r].secret \notin used)

\* Nobody has seen these codes at work.
Unseen(codes) == codes \cap (mfa.codes \cup used) = {} /\ \A q \in Req : view[q].codes \cap codes = {}

\* The claim of the code a challenge holds.
Claimed(r) ==
    code[r] # None =>
        /\ code[r] \in (view[r].codes \cap rcu) \ used
        /\ op[r] = "challenge"
        /\ pc[r] \in {"redeem", "acquire", "reread", "write", "release", "issue"}
        /\ pc[r] \in {"release", "issue"} => code[r] \notin mfa.codes
        /\ \A q \in Req : code[q] = code[r] => q = r

Current(r) ==
    /\ At(r, "code") => view[r].codes \cap used \subseteq rcu
    /\ \A c \in view[r].codes \cap mfa.codes : mfa.secret = view[r].secret
    /\ At(r, "write") /\ r \notin overran => plan[r] = Mutate(r, mfa)

Supplied(r) ==
    Supplies(r) =>
        /\ Unseen(data[r].codes)
        /\ \A q \in Req \ {r} : Supplies(q) /\ data[q].codes \cap data[r].codes # {}
              => op[q] = "enable" /\ op[r] = "enable" /\ data[q].secret = data[r].secret
        /\ setup # None /\ data[r].codes \cap setup.codes # {}
              => op[r] = "enable" /\ data[r].secret = setup.secret

Clean ==
    /\ \A r \in Req : Claimed(r) /\ Current(r) /\ Supplied(r)
    /\ setup # None /\ setup.secret \notin used => Unseen(setup.codes)
    /\ mfa.on \/ mfa.codes = {}
    /\ mfa.codes \cap used = {}
    /\ Published(used \cap RCode)
    /\ doubled \cap RCode = {}

SessionInv ==
    \A r \in Req : r \in outlives => pc[r] \in {"release", "revoke"} /\ op[r] \in {"enable", "disable", "reset"}
TempInv == temp \cup redeemed \subseteq generated
TotpInv == used \cap Totp \subseteq tu /\ doubled \cap Totp = {}

Basics == MfaTypeOK /\ HandedOut /\ LockHeld /\ SessionInv /\ TempInv /\ TotpInv
MfaInv == Basics /\ (excused = {} => Clean)

-----------------------------------------------------------------------------
(* What a request's step does to the local state.                          *)

Same(q) ==
    /\ pc'[q] = pc[q] /\ op'[q] = op[q] /\ cred'[q] = cred[q] /\ code'[q] = code[q] /\ view'[q] = view[q]
    /\ data'[q] = data[q] /\ plan'[q] = plan[q]
    /\ q \in overran => q \in overran'

LEMMA BlankTyped == Off \in Factor /\ NoData \in Draft /\ Off.codes = {} /\ NoData.codes = {}
    BY Zenon DEF Off, NoData, Factor, Draft

LEMMA LeaveTyped ==
    ASSUME LocalOK, NEW r \in Req, Leave(r)
    PROVE  /\ LocalOK'
           /\ pc'[r] = "idle" /\ code'[r] = None /\ view'[r] = Off /\ data'[r] = NoData
           /\ \A q \in Req \ {r} : Same(q)
<1>1. pc' \in [Req -> Stage] /\ op' \in [Req -> Op] /\ cred' \in [Req -> Temp \cup {None}]
    BY Zenon DEF LocalOK, Leave, Stage, Op
<1>2. code' \in [Req -> RCode \cup {None}] /\ view' \in [Req -> Factor]
    BY BlankTyped, Zenon DEF LocalOK, Leave
<1>3. data' \in [Req -> Draft] /\ plan' \in [Req -> Factor \cup {None}]
    BY BlankTyped, Zenon DEF LocalOK, Leave
<1>4. pc'[r] = "idle" /\ code'[r] = None /\ view'[r] = Off /\ data'[r] = NoData
    BY Zenon DEF LocalOK, Leave
<1>5. ASSUME NEW q \in Req \ {r} PROVE Same(q)
    BY Zenon DEF LocalOK, Leave, Same
<1> QED
    BY <1>1, <1>2, <1>3, <1>4, <1>5, Zenon DEF LocalOK

LEMMA ProceedTyped ==
    ASSUME LocalOK, NEW r \in Req, NEW p \in Stage, Proceed(r, p)
    PROVE  /\ LocalOK' /\ pc'[r] = p
           /\ UNCHANGED <<op, cred, code, view, data, plan, overran, outlives>>
           /\ \A q \in Req \ {r} : Same(q)
<1>1. UNCHANGED <<op, cred, code, view, data, plan, overran, outlives>> /\ pc' = [pc EXCEPT ![r] = p]
    BY Zenon DEF Proceed, rest, Goto
<1>2. pc' \in [Req -> Stage] /\ pc'[r] = p /\ \A q \in Req \ {r} : pc'[q] = pc[q]
    BY <1>1, Zenon DEF LocalOK
<1> QED
    BY <1>1, <1>2, Zenon DEF LocalOK, Same

\* A new request, on an idle slot.
LEMMA BeginTyped ==
    ASSUME LocalOK, NEW r \in Req, NEW o \in Op, NEW p \in Stage, Begin(r, o, p)
    PROVE  /\ pc' \in [Req -> Stage] /\ op' \in [Req -> Op] /\ pc[r] = "idle" /\ pc'[r] = p /\ op'[r] = o
           /\ \A q \in Req \ {r} : pc'[q] = pc[q] /\ op'[q] = op[q]
    BY Zenon DEF LocalOK, Begin, Goto, At

LEMMA ChallengeTyped ==
    ASSUME LocalOK, NEW r \in Req, NEW t \in Temp, NEW b \in BOOLEAN, Challenge(r, t, b)
    PROVE  /\ LocalOK' /\ pc[r] = "idle" /\ pc'[r] = "fetch" /\ op'[r] = "challenge"
           /\ UNCHANGED <<mfa, setup, temp, tempEpoch, tu, rcu, lock, epoch, code, view, data, plan, overran,
                          outlives, generated, redeemed, used, doubled, excused>>
           /\ \A q \in Req \ {r} : Same(q)
<1>1. /\ Begin(r, "challenge", "fetch") /\ cred' = [cred EXCEPT ![r] = t]
      /\ UNCHANGED <<mfa, setup, temp, tempEpoch, tu, rcu, lock, epoch, code, view, data, plan, overran,
                     outlives, generated, redeemed, used, doubled, excused>>
    BY Zenon DEF Challenge, store
<1>2. /\ pc' \in [Req -> Stage] /\ op' \in [Req -> Op] /\ pc[r] = "idle" /\ pc'[r] = "fetch" /\ op'[r] = "challenge"
      /\ \A q \in Req \ {r} : pc'[q] = pc[q] /\ op'[q] = op[q]
  <2>1. "challenge" \in Op /\ "fetch" \in Stage
      BY Zenon DEF Op, Stage
  <2> QED
      BY <1>1, <2>1, BeginTyped, Zenon
<1>3. cred' \in [Req -> Temp \cup {None}] /\ \A q \in Req \ {r} : cred'[q] = cred[q]
    BY <1>1, Zenon DEF LocalOK
<1> QED
    BY <1>1, <1>2, <1>3, Zenon DEF LocalOK, Same

LEMMA FetchTyped ==
    ASSUME MfaTypeOK, NEW r \in Req, ChallengeFetch(r)
    PROVE  /\ LocalOK' /\ pc[r] = "fetch" /\ pc'[r] = "code" /\ view'[r] = mfa /\ op'[r] = "challenge"
           /\ UNCHANGED <<mfa, setup, temp, tempEpoch, tu, rcu, lock, epoch, op, cred, code, data, plan, overran,
                          outlives, generated, redeemed, used, doubled, excused>>
           /\ \A q \in Req \ {r} : Same(q)
<1>1. /\ pc[r] = "fetch" /\ pc' = [pc EXCEPT ![r] = "code"] /\ view' = [view EXCEPT ![r] = mfa]
      /\ UNCHANGED <<mfa, setup, temp, tempEpoch, tu, rcu, lock, epoch, op, cred, code, data, plan, overran,
                     outlives, generated, redeemed, used, doubled, excused>>
    BY Zenon DEF ChallengeFetch, store, past, At, Goto
<1>2. /\ pc' \in [Req -> Stage] /\ view' \in [Req -> Factor] /\ pc'[r] = "code" /\ view'[r] = mfa
      /\ \A q \in Req \ {r} : pc'[q] = pc[q] /\ view'[q] = view[q]
    BY <1>1, Zenon DEF MfaTypeOK, LocalOK, Stage
<1> QED
    BY <1>1, <1>2, Zenon DEF MfaTypeOK, LocalOK, Same, OnRoute

LEMMA RecoveryCodeTyped ==
    ASSUME MfaTypeOK, NEW r \in Req, NEW c \in RCode, AcceptRecoveryCode(r, c)
    PROVE  /\ LocalOK' /\ pc[r] = "code" /\ pc'[r] = "redeem" /\ code'[r] = c /\ rcu' = rcu \cup {c} /\ op'[r] = "challenge"
           /\ UNCHANGED <<mfa, setup, temp, tempEpoch, tu, lock, epoch, op, cred, view, data, plan, overran,
                          outlives, generated, redeemed, used, doubled, excused>>
           /\ \A q \in Req \ {r} : Same(q)
<1>1. /\ pc[r] = "code" /\ pc' = [pc EXCEPT ![r] = "redeem"] /\ code' = [code EXCEPT ![r] = c] /\ rcu' = rcu \cup {c}
      /\ UNCHANGED <<mfa, setup, temp, tempEpoch, tu, lock, epoch, op, cred, view, data, plan, overran,
                     outlives, generated, redeemed, used, doubled, excused>>
    BY Zenon DEF AcceptRecoveryCode, past, At, Goto
<1>2. /\ pc' \in [Req -> Stage] /\ code' \in [Req -> RCode \cup {None}] /\ pc'[r] = "redeem" /\ code'[r] = c
      /\ \A q \in Req \ {r} : pc'[q] = pc[q] /\ code'[q] = code[q]
    BY <1>1, Zenon DEF MfaTypeOK, LocalOK, Stage
<1> QED
    BY <1>1, <1>2, Zenon DEF MfaTypeOK, LocalOK, Same, OnRoute

LEMMA MutateTyped == ASSUME MfaTypeOK, NEW r \in Req PROVE Mutate(r, mfa) \in Factor \cup {None}
<1>1. mfa \in Factor /\ view[r] \in Factor /\ data[r] \in Draft
    BY Zenon DEF MfaTypeOK, LocalOK
<1>2. Splice(r, mfa) \in Factor \cup {None}
    BY <1>1, Zenon DEF Splice, Factor
<1>3. ReplaceCodes(r, mfa) \in Factor \cup {None}
    BY <1>1, Zenon DEF ReplaceCodes, Factor, Draft
<1>4. [on |-> TRUE, secret |-> data[r].secret, key |-> "current", codes |-> data[r].codes] \in Factor
    BY <1>1, Zenon DEF Factor, Draft
<1> QED
    BY <1>2, <1>3, <1>4, BlankTyped, Zenon DEF Mutate

\* What a transition writes was in the record or comes with the request.
LEMMA MutateCodes ==
    ASSUME MfaTypeOK, NEW r \in Req, Mutate(r, mfa) # None
    PROVE  Mutate(r, mfa).codes \subseteq mfa.codes \cup data[r].codes
<1>1. mfa \in Factor /\ view[r] \in Factor /\ data[r] \in Draft
    BY Zenon DEF MfaTypeOK, LocalOK
<1>2. Splice(r, mfa) # None => Splice(r, mfa).codes \subseteq mfa.codes
    BY <1>1, Zenon DEF Splice, Factor
<1>3. ReplaceCodes(r, mfa) # None => ReplaceCodes(r, mfa).codes = data[r].codes
    BY <1>1, Zenon DEF ReplaceCodes, Factor, Draft
<1> QED
    BY <1>2, <1>3, BlankTyped, Zenon DEF Mutate

LEMMA RereadTyped ==
    ASSUME MfaTypeOK, NEW r \in Req, Reread(r)
    PROVE  /\ LocalOK' /\ pc[r] = "reread" /\ plan'[r] = Mutate(r, mfa)
           /\ pc'[r] = IF Mutate(r, mfa) = None THEN "release" ELSE "write"
           /\ UNCHANGED <<mfa, setup, temp, tempEpoch, tu, rcu, lock, epoch, op, cred, code, view, data, overran,
                          outlives, generated, redeemed, used, doubled, excused>>
           /\ \A q \in Req \ {r} : Same(q)
<1>1. /\ pc[r] = "reread" /\ plan' = [plan EXCEPT ![r] = Mutate(r, mfa)]
      /\ pc' = [pc EXCEPT ![r] = IF plan'[r] = None THEN "release" ELSE "write"]
      /\ UNCHANGED <<mfa, setup, temp, tempEpoch, tu, rcu, lock, epoch, op, cred, code, view, data, overran,
                     outlives, generated, redeemed, used, doubled, excused>>
    BY Zenon DEF Reread, store, past, At, Goto
<1> DEFINE m == Mutate(r, mfa)
<1>2. m \in Factor \cup {None}
    BY MutateTyped, Zenon
<1> HIDE DEF m
<1>3. plan' = [plan EXCEPT ![r] = m]
    BY <1>1, Zenon DEF m
<1>4. plan' \in [Req -> Factor \cup {None}] /\ plan'[r] = m /\ \A q \in Req \ {r} : plan'[q] = plan[q]
    BY <1>2, <1>3, Zenon DEF MfaTypeOK, LocalOK
<1>5. /\ pc' \in [Req -> Stage] /\ pc'[r] = IF m = None THEN "release" ELSE "write"
      /\ \A q \in Req \ {r} : pc'[q] = pc[q]
    BY <1>1, <1>4, Zenon DEF MfaTypeOK, LocalOK, Stage
<1> QED
    BY <1>1, <1>4, <1>5, Zenon DEF MfaTypeOK, LocalOK, Same, m

LEMMA WriteTyped ==
    ASSUME MfaTypeOK, NEW r \in Req, Write(r)
    PROVE  /\ LocalOK' /\ pc[r] = "write" /\ pc'[r] = "release" /\ mfa' = plan[r]
           /\ UNCHANGED <<setup, temp, tempEpoch, tu, rcu, lock, epoch, op, cred, code, view, data, plan, overran,
                          generated, redeemed, doubled>>
           /\ used' = IF op[r] = "enable" THEN used \cup {plan[r].secret} ELSE used
           /\ excused \subseteq excused' /\ (r \in overran => "overrun" \in excused')
           /\ (op[r] = "enable" /\ plan[r].secret \in used => "reenrolled" \in excused')
           /\ \A q \in Req \ {r} : Same(q)
<1>1. /\ pc[r] = "write" /\ mfa' = plan[r] /\ pc' = [pc EXCEPT ![r] = "release"]
      /\ UNCHANGED <<setup, temp, tempEpoch, tu, rcu, lock, epoch, op, cred, code, view, data, plan, overran,
                     generated, redeemed, doubled>>
      /\ used' = IF op[r] = "enable" THEN used \cup {plan[r].secret} ELSE used
    BY Zenon DEF Write, Persist, store, At, Goto
<1>2. /\ excused \subseteq excused' /\ (r \in overran => "overrun" \in excused')
      /\ (op[r] = "enable" /\ plan[r].secret \in used => "reenrolled" \in excused')
    BY Zenon DEF Write, Persist
<1>3. pc' \in [Req -> Stage] /\ pc'[r] = "release" /\ \A q \in Req \ {r} : pc'[q] = pc[q]
    BY <1>1, Zenon DEF MfaTypeOK, LocalOK, Stage
<1> QED
    BY <1>1, <1>2, <1>3, Zenon DEF MfaTypeOK, LocalOK, Same

\* The management operations begin alike.
LEMMA ManageTyped ==
    ASSUME MfaTypeOK, NEW r \in Req, NEW o \in Management, NEW new \in SUBSET RCode, Manage(r, o, new)
    PROVE  /\ LocalOK' /\ pc[r] = "idle" /\ op'[r] = o /\ pc'[r] \in {"getsetup", "acquire", "gate"}
           /\ OnRoute(pc'[r], op'[r])
           /\ o = "enable" => pc'[r] = "getsetup"
           /\ view'[r] = mfa /\ data'[r].codes = new
           /\ UNCHANGED <<mfa, setup, temp, tempEpoch, tu, rcu, lock, epoch, cred, code, plan, overran, outlives,
                          redeemed, used, doubled, excused>>
           /\ \A q \in Req \ {r} : Same(q)
<1> DEFINE p == CASE o \in {"setup", "enable"} -> "getsetup" [] o = "reset" -> "acquire" [] OTHER -> "gate"
<1> DEFINE d == [secret |-> mfa.secret, codes |-> new]
<1>1. /\ Begin(r, o, p) /\ view' = [view EXCEPT ![r] = mfa] /\ data' = [data EXCEPT ![r] = d]
      /\ UNCHANGED <<mfa, setup, temp, tempEpoch, tu, rcu, lock, epoch, cred, code, plan, overran, outlives,
                     redeemed, used, doubled, excused>>
    BY Zenon DEF Manage, store
<1>2. /\ o \in Op /\ p \in {"getsetup", "acquire", "gate"} /\ (o = "enable" => p = "getsetup")
      /\ p = "getsetup" => o \in {"setup", "enable"}
    BY Zenon DEF Op, Management
<1>3. d \in Draft /\ d.codes = new
    BY Zenon DEF MfaTypeOK, Factor, Draft
<1> HIDE DEF p, d
<1>4. /\ pc' \in [Req -> Stage] /\ op' \in [Req -> Op] /\ pc[r] = "idle" /\ pc'[r] = p /\ op'[r] = o
      /\ \A q \in Req \ {r} : pc'[q] = pc[q] /\ op'[q] = op[q]
  <2>1. p \in Stage
      BY <1>2, Zenon DEF Stage
  <2> QED
      BY <1>1, <1>2, <2>1, BeginTyped, Zenon DEF MfaTypeOK
<1>5. /\ view' \in [Req -> Factor] /\ data' \in [Req -> Draft] /\ view'[r] = mfa /\ data'[r] = d
      /\ \A q \in Req \ {r} : view'[q] = view[q] /\ data'[q] = data[q]
    BY <1>1, <1>3, Zenon DEF MfaTypeOK, LocalOK
<1> QED
  <2>1. OnRoute(pc'[r], op'[r])
      BY <1>2, <1>4, Zenon DEF OnRoute
  <2> QED
      BY <1>1, <1>2, <1>3, <1>4, <1>5, <2>1, Zenon DEF MfaTypeOK, LocalOK, Same

\* A request that ends early or well.
LEMMA EndsTyped ==
    ASSUME LocalOK, NEW r \in Req, Fail(r) \/ BumpEpoch(r) \/ FailLocked(r) \/ Crash(r)
    PROVE  /\ Leave(r)
           /\ UNCHANGED <<mfa, setup, temp, tempEpoch, tu, rcu, generated, redeemed, used, doubled, excused>>
           /\ lock' = lock \/ lock = r
    BY Zenon DEF Fail, BumpEpoch, FailLocked, Crash, Unlocked, store, past

\* The steps that leave the local state alone but for the stage.
Advances(r, p) ==
    /\ Proceed(r, p)
    /\ UNCHANGED <<mfa, rcu, generated, excused>> /\ setup' \in {setup, None} /\ temp' \subseteq temp
    /\ p = "reread" <=> pc[r] = "acquire"
    /\ p = "reread" => lock = None /\ lock' = r
    /\ p # "reread" => lock' = lock \/ lock = r
    /\ p = "take" => pc[r] = "gate"
    /\ p = "acquire" => pc[r] \in {"code", "redeem", "gate", "take"}
    /\ p = "issue" => pc[r] \in {"code", "release"}
    /\ p = "putsetup" => pc[r] = "getsetup"
    /\ p = "revoke" => op[r] # "challenge"

LEMMA ProceedCases ==
    ASSUME MfaTypeOK, NEW r \in Req,
           (\E c \in Totp : AcceptTotp(r, c) \/ Gate(r, c)) \/ RedeemTemp(r) \/ Acquire(r) \/ TakeSetup(r)
           \/ (GetSetup(r) /\ op[r] = "setup" /\ setup = None) \/ (Release(r) /\ op[r] # "regenerate")
    PROVE  \E p \in {"acquire", "issue", "reread", "take", "putsetup", "revoke"} : Advances(r, p)
<1>1. ASSUME NEW c \in Totp, AcceptTotp(r, c) PROVE
         \E p \in {"acquire", "issue"} : Proceed(r, p) /\ UNCHANGED <<mfa, rcu, generated, excused, setup, lock>> /\ pc[r] = "code" /\ temp' \subseteq temp
    BY <1>1, Zenon DEF AcceptTotp, At, WithoutTemp
<1>2. ASSUME NEW c \in Totp, Gate(r, c) PROVE
         \E p \in {"acquire", "take"} : Proceed(r, p) /\ UNCHANGED <<mfa, rcu, generated, excused, setup, lock, temp>> /\ pc[r] = "gate"
    BY <1>2, Zenon DEF Gate, At
<1>3. ASSUME RedeemTemp(r)
      PROVE  Proceed(r, "acquire") /\ UNCHANGED <<mfa, rcu, generated, excused, setup, lock>> /\ pc[r] = "redeem" /\ temp' \subseteq temp
    BY <1>3, Zenon DEF RedeemTemp, At, WithoutTemp
<1>4. ASSUME Acquire(r) PROVE /\ Proceed(r, "reread") /\ UNCHANGED <<mfa, rcu, generated, excused, setup, temp>>
                              /\ lock = None /\ lock' = r /\ pc[r] = "acquire"
    BY <1>4, Zenon DEF Acquire, At, past
<1>5. ASSUME TakeSetup(r)
      PROVE  Proceed(r, "acquire") /\ UNCHANGED <<mfa, rcu, generated, excused, lock, temp>> /\ setup' = None /\ pc[r] = "take"
    BY <1>5, Zenon DEF TakeSetup, At, past
<1>6. ASSUME GetSetup(r), op[r] = "setup", setup = None
      PROVE  Proceed(r, "putsetup") /\ UNCHANGED <<mfa, rcu, generated, excused, lock, setup, temp>> /\ pc[r] = "getsetup"
    BY <1>6, Zenon DEF GetSetup, At, past, store
<1>7. ASSUME Release(r), op[r] # "regenerate"
      PROVE  /\ \E p \in {"issue", "revoke"} : Proceed(r, p) /\ (p = "revoke" => op[r] # "challenge")
             /\ UNCHANGED <<mfa, rcu, generated, excused, setup, temp>> /\ pc[r] = "release" /\ (lock' = lock \/ lock = r)
    BY <1>7, Zenon DEF Release, At, past, Unlocked
<1> QED
    BY <1>1, <1>2, <1>3, <1>4, <1>5, <1>6, <1>7, Zenon DEF Advances

LEMMA GetSetupEnableTyped ==
    ASSUME MfaTypeOK, NEW r \in Req, GetSetup(r), op[r] = "enable"
    PROVE  /\ LocalOK' /\ pc[r] = "getsetup" /\ pc'[r] = "gate" /\ setup # None /\ data'[r] = setup
           /\ UNCHANGED <<mfa, setup, temp, tempEpoch, tu, rcu, lock, epoch, op, cred, code, view, plan, overran,
                          outlives, generated, redeemed, used, doubled, excused>>
           /\ \A q \in Req \ {r} : Same(q)
<1>1. /\ pc[r] = "getsetup" /\ setup # None /\ pc' = [pc EXCEPT ![r] = "gate"] /\ data' = [data EXCEPT ![r] = setup]
      /\ UNCHANGED <<mfa, setup, temp, tempEpoch, tu, rcu, lock, epoch, op, cred, code, view, plan, overran,
                     outlives, generated, redeemed, used, doubled, excused>>
    BY Zenon DEF GetSetup, store, past, At, Goto
<1>2. /\ pc' \in [Req -> Stage] /\ data' \in [Req -> Draft] /\ pc'[r] = "gate" /\ data'[r] = setup
      /\ \A q \in Req \ {r} : pc'[q] = pc[q] /\ data'[q] = data[q]
    BY <1>1, Zenon DEF MfaTypeOK, LocalOK, Stage
<1> QED
    BY <1>1, <1>2, Zenon DEF MfaTypeOK, LocalOK, Same

LEMMA GetSetupLeaves ==
    ASSUME NEW r \in Req, (GetSetup(r) /\ op[r] = "setup" /\ setup # None) \/ (Release(r) /\ op[r] = "regenerate")
    PROVE  /\ Leave(r)
           /\ UNCHANGED <<mfa, setup, temp, tempEpoch, tu, rcu, generated, redeemed, used, doubled, excused>>
           /\ lock' = lock \/ lock = r
    BY Zenon DEF GetSetup, Release, Unlocked, store, past

LEMMA RevokeTyped ==
    ASSUME LocalOK, NEW r \in Req, Revoke(r)
    PROVE  /\ LocalOK' /\ pc'[r] = "bump" /\ outlives' = {}
           /\ UNCHANGED <<mfa, setup, temp, tempEpoch, tu, rcu, lock, epoch, op, cred, code, view, data, plan, overran,
                          generated, redeemed, used, doubled, excused>>
           /\ \A q \in Req \ {r} : Same(q)
<1>1. /\ pc' = [pc EXCEPT ![r] = "bump"] /\ outlives' = {}
      /\ UNCHANGED <<mfa, setup, temp, tempEpoch, tu, rcu, lock, epoch, op, cred, code, view, data, plan, overran,
                     generated, redeemed, used, doubled, excused>>
    BY Zenon DEF Revoke, store, past, Goto
<1>2. pc' \in [Req -> Stage] /\ pc'[r] = "bump" /\ \A q \in Req \ {r} : pc'[q] = pc[q]
    BY <1>1, Zenon DEF LocalOK, Stage
<1> QED
    BY <1>1, <1>2, Zenon DEF LocalOK, Same

LEMMA PutSetupEffect ==
    ASSUME MfaTypeOK, NEW r \in Req, NEW s \in Secret, NEW b \in Batch, PutSetup(r, s, b)
    PROVE  /\ Leave(r) /\ UNCHANGED <<mfa, temp, tempEpoch, tu, rcu, lock, epoch, redeemed, used, doubled, excused>>
           /\ b \notin generated /\ generated \subseteq generated'
           /\ \/ UNCHANGED <<setup, generated>>
              \/ setup' \in Draft /\ setup'.codes = Codes(b) /\ b \in generated' /\ Codes(b) \subseteq RCode
<1>1. [secret |-> s, codes |-> Codes(b)] \in Draft /\ Codes(b) \subseteq RCode
    BY Zenon DEF Draft, Codes, RCode
<1> QED
    BY <1>1, Zenon DEF PutSetup

LEMMA IssueEffect ==
    ASSUME NEW r \in Req, Issue(r)
    PROVE  /\ Leave(r) /\ pc[r] = "issue"
           /\ UNCHANGED <<mfa, setup, temp, tempEpoch, tu, rcu, lock, epoch, generated, redeemed, excused>>
           /\ used' = used \cup ({cred[r], code[r]} \ {None})
           /\ doubled' = doubled \cup (({cred[r], code[r]} \ {None}) \cap used)
    BY Zenon DEF Issue, Accept, store, At

-----------------------------------------------------------------------------
(* Types, the sets that were handed out, and the lock.                     *)

Ground == MfaTypeOK /\ HandedOut /\ LockHeld

LEMMA GroundFrame ==
    ASSUME Ground, NEW r \in Req, LocalOK', \A q \in Req \ {r} : Same(q),
           pc'[r] = "write" => plan'[r] \in Factor /\ \A c \in plan'[r].codes : c[1] \in generated',
           OnRoute(pc'[r], op'[r]),
           mfa' \in Factor, \A c \in mfa'.codes : c[1] \in generated',
           setup' \in Draft \cup {None}, setup' # None => \A c \in setup'.codes : c[1] \in generated',
           temp' \subseteq temp, generated \subseteq generated',
           \A c \in view'[r].codes \cup data'[r].codes : c[1] \in generated',
           pc'[r] \in {"reread", "write"} /\ r \notin overran' => lock' = r,
           \A q \in Req \ {r} : lock = q => lock' = q
    PROVE  Ground'
<1>1. MfaTypeOK'
  <2>1. temp' \subseteq Temp
      BY Zenon DEF Ground, MfaTypeOK
  <2>2. \A q \in Req : (pc'[q] = "write" => plan'[q] \in Factor) /\ OnRoute(pc'[q], op'[q])
      BY Zenon DEF Ground, MfaTypeOK, Same
  <2> QED
      BY <2>1, <2>2, Zenon DEF MfaTypeOK
<1>2. HandedOut'
  <2>1. \A q \in Req : /\ \A c \in view'[q].codes : c[1] \in generated'
                       /\ \A c \in data'[q].codes : c[1] \in generated'
      BY Zenon DEF Ground, HandedOut, Published, Same
  <2>2. ASSUME NEW q \in Req, pc'[q] = "write", NEW c \in plan'[q].codes PROVE c[1] \in generated'
    <3>1. CASE q = r
        BY <2>2, <3>1, Zenon
    <3>2. CASE q # r
        BY <2>2, <3>2 DEF Ground, HandedOut, Published, Same
    <3> QED
        BY <3>1, <3>2, Zenon
  <2> QED
      BY <2>1, <2>2, Zenon DEF HandedOut, Published
<1>3. LockHeld'
    BY Zenon DEF Ground, LockHeld, Same
<1> QED
    BY <1>1, <1>2, <1>3, Zenon DEF Ground

\* A step that hands nothing out and leaves the factor and the lock to others.
LEMMA GroundQuiet ==
    ASSUME Ground, NEW r \in Req, LocalOK', \A q \in Req \ {r} : Same(q), UNCHANGED mfa, temp' \subseteq temp,
           setup' \in {setup, None}, generated \subseteq generated',
           pc'[r] \notin {"reread", "write"}, OnRoute(pc'[r], op'[r]), lock' = lock \/ lock = r \/ lock = None,
           view'[r].codes \subseteq view[r].codes \cup mfa.codes,
           data'[r].codes \subseteq data[r].codes \/ (setup # None /\ data'[r] = setup)
    PROVE  Ground'
<1>1. /\ mfa \in Factor /\ setup' \in Draft \cup {None}
      /\ \A c \in mfa.codes : c[1] \in generated'
      /\ \A c \in view[r].codes : c[1] \in generated'
      /\ \A c \in data[r].codes : c[1] \in generated'
      /\ setup # None => \A c \in setup.codes : c[1] \in generated'
    BY Zenon DEF Ground, MfaTypeOK, HandedOut, Published
<1>2. \A c \in view'[r].codes \cup data'[r].codes : c[1] \in generated'
    BY <1>1, BlankTyped, Zenon
<1>3. \A q \in Req \ {r} : lock = q => lock' = q
    BY MfaAssumption, Zenon
<1> QED
    BY <1>1, <1>2, <1>3, GroundFrame, Zenon

LEMMA GroundRequest == ASSUME Ground, NEW r \in Req, ReqNext(r) PROVE Ground'
<1>0. MfaTypeOK /\ LocalOK
    BY Zenon DEF Ground, MfaTypeOK
<1>1. ASSUME NEW t \in Temp, NEW b \in BOOLEAN, Challenge(r, t, b) PROVE Ground'
  <2>1. /\ LocalOK' /\ (\A q \in Req \ {r} : Same(q)) /\ op'[r] = "challenge" /\ pc'[r] = "fetch"
        /\ UNCHANGED <<mfa, temp, setup, generated, lock, view, data>>
      BY <1>0, <1>1, ChallengeTyped, Zenon
  <2> QED
      BY <2>1, GroundQuiet, Zenon DEF OnRoute
<1>2. ASSUME ChallengeFetch(r) PROVE Ground'
  <2>1. /\ LocalOK' /\ (\A q \in Req \ {r} : Same(q)) /\ op'[r] = "challenge" /\ pc'[r] = "code" /\ view'[r] = mfa
        /\ UNCHANGED <<mfa, temp, setup, generated, lock, data>>
      BY <1>0, <1>2, FetchTyped, Zenon
  <2> QED
      BY <2>1, GroundQuiet, Zenon DEF OnRoute
<1>3. ASSUME NEW c \in RCode, AcceptRecoveryCode(r, c) PROVE Ground'
  <2>1. /\ LocalOK' /\ (\A q \in Req \ {r} : Same(q)) /\ op'[r] = "challenge" /\ pc'[r] = "redeem"
        /\ UNCHANGED <<mfa, temp, setup, generated, lock, view, data>>
      BY <1>0, <1>3, RecoveryCodeTyped, Zenon
  <2> QED
      BY <2>1, GroundQuiet, Zenon DEF OnRoute
<1>4. ASSUME GetSetup(r), op[r] = "enable" PROVE Ground'
  <2>1. /\ LocalOK' /\ (\A q \in Req \ {r} : Same(q)) /\ pc'[r] = "gate" /\ setup # None /\ data'[r] = setup
        /\ UNCHANGED <<mfa, temp, setup, generated, lock, view>>
      BY <1>0, <1>4, GetSetupEnableTyped, Zenon
  <2> QED
      BY <2>1, GroundQuiet, Zenon DEF OnRoute
<1>5. ASSUME Revoke(r) PROVE Ground'
  <2>1. /\ LocalOK' /\ (\A q \in Req \ {r} : Same(q)) /\ pc'[r] = "bump"
        /\ UNCHANGED <<mfa, temp, setup, generated, lock, view, data>>
      BY <1>0, <1>5, RevokeTyped, Zenon
  <2> QED
      BY <2>1, GroundQuiet, Zenon DEF OnRoute
<1>6. ASSUME Leave(r), UNCHANGED <<mfa, temp, setup, generated>>, lock' = lock \/ lock = r PROVE Ground'
  <2>1. /\ LocalOK' /\ (\A q \in Req \ {r} : Same(q)) /\ pc'[r] = "idle"
        /\ view'[r].codes = {} /\ data'[r].codes = {}
      BY <1>0, <1>6, LeaveTyped, BlankTyped, Zenon
  <2> QED
      BY <1>6, <2>1, GroundQuiet, Zenon DEF OnRoute
<1>7. ASSUME NEW s \in Secret, NEW b \in Batch, PutSetup(r, s, b) PROVE Ground'
  <2>1. CASE UNCHANGED <<setup, generated>>
      BY <1>0, <1>6, <1>7, <2>1, PutSetupEffect, Zenon
  <2>2. CASE setup' \in Draft /\ setup'.codes = Codes(b) /\ b \in generated' /\ Codes(b) \subseteq RCode
    <3>1. /\ LocalOK' /\ (\A q \in Req \ {r} : Same(q)) /\ pc'[r] = "idle"
          /\ view'[r].codes = {} /\ data'[r].codes = {}
          /\ UNCHANGED <<mfa, temp, lock>> /\ generated \subseteq generated'
        BY <1>0, <1>7, PutSetupEffect, LeaveTyped, BlankTyped, Zenon
    <3>2. \A c \in Codes(b) : c[1] \in generated'
        BY <2>2, Zenon DEF Codes
    <3>3. mfa \in Factor /\ \A c \in mfa.codes : c[1] \in generated'
        BY <3>1, Zenon DEF Ground, MfaTypeOK, HandedOut, Published
    <3> QED
        BY <2>2, <3>1, <3>2, <3>3, GroundFrame, Zenon DEF OnRoute
  <2> QED
      BY <1>0, <1>7, <2>1, <2>2, PutSetupEffect, Zenon
<1>8. ASSUME NEW o \in Management, NEW new \in SUBSET RCode, Manage(r, o, new),
             generated \subseteq generated', \A c \in new : c[1] \in generated'
      PROVE  Ground'
  <2>1. /\ LocalOK' /\ (\A q \in Req \ {r} : Same(q)) /\ pc'[r] \notin {"reread", "write"} /\ view'[r] = mfa /\ data'[r].codes = new
        /\ OnRoute(pc'[r], op'[r])
        /\ UNCHANGED <<mfa, temp, setup, lock>>
      BY <1>0, <1>8, ManageTyped, Zenon
  <2>2. mfa \in Factor /\ \A c \in mfa.codes : c[1] \in generated'
      BY <1>8, Zenon DEF Ground, MfaTypeOK, HandedOut, Published
  <2>3. setup \in Draft \cup {None} /\ (setup # None => \A c \in setup.codes : c[1] \in generated')
      BY <1>8, Zenon DEF Ground, MfaTypeOK, HandedOut, Published
  <2> QED
      BY <1>8, <2>1, <2>2, <2>3, GroundFrame, Zenon
<1>9. ASSUME \/ Setup(r) \/ VerifyAndEnable(r) \/ Disable(r) \/ ResetMfa(r) \/ \E b \in Batch : RegenerateRecoveryCodes(r, b)
      PROVE  Ground'
  <2>1. {} \in SUBSET RCode /\ {"setup", "enable", "disable", "reset", "regenerate"} \subseteq Management
      BY Zenon DEF Management
  <2>2. ASSUME NEW b \in Batch, RegenerateRecoveryCodes(r, b) PROVE Ground'
    <3>1. Codes(b) \in SUBSET RCode /\ \A c \in Codes(b) : c[1] = b
        BY Zenon DEF Codes, RCode
    <3>2. Manage(r, "regenerate", Codes(b)) /\ generated \subseteq generated' /\ b \in generated'
        BY <2>2, Zenon DEF RegenerateRecoveryCodes
    <3> QED
        BY <1>8, <2>1, <3>1, <3>2, Zenon
  <2> QED
      BY <1>8, <1>9, <2>1, <2>2, Zenon DEF Setup, VerifyAndEnable, Disable, ResetMfa
<1>10. ASSUME Reread(r) PROVE Ground'
  <2>1. /\ LocalOK' /\ (\A q \in Req \ {r} : Same(q)) /\ plan'[r] = Mutate(r, mfa)
        /\ pc[r] = "reread" /\ pc'[r] = IF Mutate(r, mfa) = None THEN "release" ELSE "write"
        /\ UNCHANGED <<mfa, temp, setup, lock, generated, view, data, overran>>
      BY <1>0, <1>10, RereadTyped, Zenon
  <2>2. pc'[r] = "write" => plan'[r] \in Factor /\ \A c \in plan'[r].codes : c \in mfa.codes \cup data[r].codes
      BY <1>0, <2>1, MutateTyped, MutateCodes, Zenon
  <2>3. mfa \in Factor /\ setup \in Draft \cup {None} /\ HandedOut
      BY Zenon DEF Ground, MfaTypeOK
  <2>4. r \notin overran => lock = r
      BY <2>1, Zenon DEF Ground, LockHeld
  <2> QED
      BY <2>1, <2>2, <2>3, <2>4, GroundFrame, Zenon DEF HandedOut, Published, OnRoute
<1>11. ASSUME Write(r) PROVE Ground'
  <2>1. /\ LocalOK' /\ (\A q \in Req \ {r} : Same(q)) /\ pc[r] = "write" /\ pc'[r] = "release" /\ mfa' = plan[r]
        /\ UNCHANGED <<temp, setup, lock, generated, view, data>>
      BY <1>0, <1>11, WriteTyped, Zenon
  <2>2. mfa' \in Factor /\ (\A c \in mfa'.codes : c[1] \in generated) /\ setup \in Draft \cup {None} /\ HandedOut
      BY <2>1, Zenon DEF Ground, MfaTypeOK, HandedOut, Published
  <2> QED
      BY <2>1, <2>2, GroundFrame, Zenon DEF HandedOut, Published, OnRoute
<1>12. ASSUME NEW p \in {"acquire", "issue", "reread", "take", "putsetup", "revoke"}, Advances(r, p)
       PROVE  Ground'
  <2>1. LocalOK' /\ (\A q \in Req \ {r} : Same(q)) /\ pc'[r] = p /\ UNCHANGED <<view, data>>
    <3>1. p \in Stage
        BY Zenon DEF Stage
    <3> QED
        BY <1>0, <1>12, <3>1, ProceedTyped, Zenon DEF Advances
  <2>2. CASE p # "reread"
      BY <1>12, <2>1, <2>2, GroundQuiet, Zenon DEF OnRoute, Advances
  <2>3. CASE p = "reread"
    <3>1. mfa \in Factor /\ setup' \in Draft \cup {None} /\ HandedOut
        BY <1>12, Zenon DEF Ground, MfaTypeOK, Advances
    <3>2. \A q \in Req \ {r} : lock # q
        BY <1>12, <2>3, MfaAssumption, Zenon DEF Advances
    <3> QED
        BY <1>12, <2>1, <2>3, <3>1, <3>2, GroundFrame DEF HandedOut, Published, OnRoute, Advances
  <2> QED
      BY <2>2, <2>3, Zenon
<1>13. ASSUME Fail(r) \/ BumpEpoch(r) \/ FailLocked(r) \/ Crash(r) PROVE Ground'
    BY <1>0, <1>6, <1>13, EndsTyped, Zenon
<1>14. ASSUME Issue(r) PROVE Ground'
    BY <1>6, <1>14, IssueEffect, Zenon
<1>15. ASSUME (\E c \in Totp : AcceptTotp(r, c) \/ Gate(r, c)) \/ RedeemTemp(r) \/ Acquire(r) \/ TakeSetup(r)
              \/ (GetSetup(r) /\ op[r] = "setup" /\ setup = None) \/ (Release(r) /\ op[r] # "regenerate")
       PROVE  Ground'
    BY <1>0, <1>12, <1>15, ProceedCases, Zenon
<1>16. ASSUME (GetSetup(r) /\ op[r] = "setup" /\ setup # None) \/ (Release(r) /\ op[r] = "regenerate") PROVE Ground'
    BY <1>6, <1>16, GetSetupLeaves, Zenon
<1>17. ASSUME GetSetup(r) PROVE op[r] \in {"setup", "enable"}
    BY <1>0, <1>17, Zenon DEF MfaTypeOK, GetSetup, At, OnRoute
<1>18. ASSUME ChallengeSteps(r) PROVE Ground'
    BY <1>2, <1>3, <1>14, <1>15, <1>18, Zenon DEF ChallengeSteps
<1>19. ASSUME Transition(r) \/ GetSetup(r) PROVE Ground'
    BY <1>4, <1>10, <1>11, <1>15, <1>16, <1>17, <1>19, Zenon DEF Transition
<1> QED
    BY <1>1, <1>5, <1>7, <1>9, <1>13, <1>15, <1>18, <1>19, Zenon
       DEF ReqNext, ChallengeDashboard, ChallengePlatform

LEMMA GroundStep == ASSUME Ground, [Next]_vars PROVE Ground'
<1>1. ASSUME NEW r \in Req, ReqNext(r) PROVE Ground'
    BY <1>1, GroundRequest, Zenon
<1>2. ASSUME UNCHANGED <<mfa, setup, lock, pc, op, cred, code, view, data, plan>>, overran \subseteq overran',
             temp' \subseteq Temp, generated \subseteq generated'
      PROVE  Ground'
  <2>1. MfaTypeOK'
      BY <1>2, Zenon DEF Ground, MfaTypeOK, LocalOK
  <2>2. HandedOut'
      BY <1>2, Zenon DEF Ground, HandedOut, Published
  <2>3. LockHeld'
      BY <1>2, Zenon DEF Ground, LockHeld
  <2> QED
      BY <2>1, <2>2, <2>3, Zenon DEF Ground
<1>3. temp \subseteq Temp
    BY Zenon DEF Ground, MfaTypeOK
<1>4. ASSUME NEW t \in Temp, IssueTemp(t) PROVE Ground'
  <2>1. UNCHANGED <<mfa, setup, lock, pc, op, cred, code, view, data, plan, overran>>
      BY <1>4, Zenon DEF IssueTemp, rest
  <2>2. temp' \subseteq Temp /\ generated \subseteq generated'
      BY <1>3, <1>4, Zenon DEF IssueTemp
  <2> QED
      BY <1>2, <2>1, <2>2, Zenon
<1>5. CASE PasswordLogin
    BY <1>2, <1>3, <1>5, Zenon DEF PasswordLogin, store, rest, past
<1>6. ASSUME NEW c \in RCode, ClaimExpires(c) PROVE Ground'
    BY <1>2, <1>3, <1>6, Zenon DEF ClaimExpires, rest
<1>7. CASE UNCHANGED vars
    BY <1>2, <1>3, <1>7, Zenon DEF vars, store, rest, past
<1>8. CASE SetupExpires
  <2>1. /\ UNCHANGED <<mfa, temp, lock, pc, op, cred, code, view, data, plan, overran, generated>>
        /\ setup' = None
      BY <1>8, Zenon DEF SetupExpires, rest, past
  <2>2. MfaTypeOK'
      BY <2>1, Zenon DEF Ground, MfaTypeOK, LocalOK
  <2>3. HandedOut' /\ LockHeld'
      BY <2>1, Zenon DEF Ground, HandedOut, Published, LockHeld
  <2> QED
      BY <2>2, <2>3, Zenon DEF Ground
<1>9. CASE LockExpires
  <2>1. /\ UNCHANGED <<mfa, temp, setup, pc, op, cred, code, view, data, plan, generated>>
        /\ overran' = overran \cup ({lock} \cap Req)
      BY <1>9, Zenon DEF LockExpires, past
  <2>2. MfaTypeOK'
      BY <2>1, Zenon DEF Ground, MfaTypeOK, LocalOK
  <2>3. HandedOut' /\ LockHeld'
      BY <2>1, Zenon DEF Ground, HandedOut, Published, LockHeld
  <2> QED
      BY <2>2, <2>3, Zenon DEF Ground
<1> QED
    BY <1>1, <1>4, <1>5, <1>6, <1>7, <1>8, <1>9, Zenon DEF Next

LEMMA GroundInit == Init => Ground
<1> SUFFICES ASSUME Init PROVE Ground
    BY Zenon
<1>1. mfa \in Factor /\ \A c \in mfa.codes : c[1] \in generated
  <2>1. PICK start \in Start, secret \in Secret, b \in Batch :
           mfa = IF start[2] = "off" THEN Off
                 ELSE [on |-> TRUE, secret |-> secret, key |-> start[2], codes |-> Codes(b)]
      BY Zenon DEF Init
  <2>2. start[2] \in {"off", "current", "retired"} /\ Codes(b) \subseteq RCode
      BY MfaAssumption, Zenon DEF Codes, RCode
  <2>3. mfa \in Factor
      BY <2>1, <2>2, BlankTyped, Zenon DEF Factor
  <2> QED
      BY <2>3, Zenon DEF Init
<1>2. LocalOK
    BY BlankTyped, Zenon DEF Init, LocalOK, Stage, Op
<1>3. MfaTypeOK
    BY <1>1, <1>2, Zenon DEF Init, MfaTypeOK, OnRoute
<1> QED
    BY <1>1, <1>3, BlankTyped, Zenon DEF Init, Ground, HandedOut, LockHeld, Published

-----------------------------------------------------------------------------
(* Temp tokens, TOTP codes and older sessions.                             *)

Quiet == UNCHANGED <<temp, redeemed, tu, used, doubled>> /\ generated \subseteq generated'

LEMMA QuietSteps ==
    ASSUME NEW r \in Req,
           \/ (\E t \in Temp, p \in BOOLEAN : Challenge(r, t, p)) \/ ChallengeFetch(r)
           \/ (\E c \in RCode : AcceptRecoveryCode(r, c))
           \/ Acquire(r) \/ Reread(r) \/ Release(r) \/ Setup(r) \/ VerifyAndEnable(r) \/ Disable(r) \/ ResetMfa(r)
           \/ (\E b \in Batch : RegenerateRecoveryCodes(r, b)) \/ GetSetup(r)
           \/ (\E s \in Secret, b \in Batch : PutSetup(r, s, b))
           \/ TakeSetup(r) \/ Revoke(r) \/ BumpEpoch(r) \/ Fail(r) \/ FailLocked(r) \/ Crash(r)
    PROVE  Quiet
<1>1. CASE (\E t \in Temp, p \in BOOLEAN : Challenge(r, t, p)) \/ ChallengeFetch(r)
           \/ (\E c \in RCode : AcceptRecoveryCode(r, c)) \/ Acquire(r) \/ Reread(r) \/ Release(r)
    BY <1>1, Zenon DEF Challenge, ChallengeFetch, AcceptRecoveryCode, Acquire, Reread, Release, store, past, Quiet
<1>2. CASE Setup(r) \/ VerifyAndEnable(r) \/ Disable(r) \/ ResetMfa(r) \/ (\E b \in Batch : RegenerateRecoveryCodes(r, b))
    BY <1>2, Zenon DEF Setup, VerifyAndEnable, Disable, ResetMfa, RegenerateRecoveryCodes, Manage, store, past, Quiet
<1>3. CASE GetSetup(r) \/ (\E s \in Secret, b \in Batch : PutSetup(r, s, b)) \/ TakeSetup(r)
    BY <1>3, Zenon DEF GetSetup, PutSetup, TakeSetup, store, past, Quiet
<1>4. CASE Revoke(r) \/ BumpEpoch(r) \/ Fail(r) \/ FailLocked(r) \/ Crash(r)
    BY <1>4, Zenon DEF Revoke, BumpEpoch, Fail, FailLocked, Crash, store, past, Quiet
<1> QED
    BY <1>1, <1>2, <1>3, <1>4, Zenon

LEMMA QuietWorld ==
    ASSUME PasswordLogin \/ LockExpires \/ (\E c \in RCode : ClaimExpires(c)) \/ SetupExpires \/ UNCHANGED vars
    PROVE  Quiet
    BY Zenon DEF PasswordLogin, LockExpires, ClaimExpires, SetupExpires, vars, store, past, Quiet

\* Every step leaves the credentials alone, or is one of these.
LEMMA CredentialSteps ==
    ASSUME Next
    PROVE  \/ Quiet
           \/ \E t \in Temp : IssueTemp(t)
           \/ \E r \in Req : \/ \E c \in Totp : AcceptTotp(r, c) \/ Gate(r, c)
                             \/ RedeemTemp(r) \/ Issue(r) \/ Write(r)
<1>1. ASSUME NEW r \in Req, ReqNext(r)
      PROVE  Quiet \/ (\E c \in Totp : AcceptTotp(r, c) \/ Gate(r, c)) \/ RedeemTemp(r) \/ Issue(r) \/ Write(r)
    BY <1>1, QuietSteps, Zenon DEF ReqNext, ChallengeDashboard, ChallengePlatform, ChallengeSteps, Transition
<1> QED
    BY <1>1, QuietWorld, Zenon DEF Next

\* A temp token goes in once and out once.
LEMMA TempMoves ==
    ASSUME MfaTypeOK, [Next]_vars
    PROVE  /\ generated \subseteq generated'
           /\ \/ UNCHANGED <<temp, redeemed>>
              \/ \E t \in Temp \ generated : /\ temp' = temp \cup {t} /\ UNCHANGED redeemed
                                            /\ t \in generated'
              \/ \E t \in temp \cap Temp : temp' = temp \ {t} /\ redeemed' = redeemed \cup {t}
<1>1. CASE Quiet \/ UNCHANGED vars
    BY <1>1, QuietWorld, Zenon DEF Quiet
<1>2. ASSUME NEW t \in Temp, IssueTemp(t)
      PROVE  t \notin generated /\ temp' = temp \cup {t} /\ UNCHANGED redeemed /\ generated' = generated \cup {t}
    BY <1>2, Zenon DEF IssueTemp
<1>3. ASSUME NEW r \in Req, (\E c \in Totp : AcceptTotp(r, c)) \/ RedeemTemp(r)
      PROVE  cred[r] \in temp /\ temp' = temp \ {cred[r]} /\ redeemed' = redeemed \cup {cred[r]} /\ UNCHANGED generated
    BY <1>3, Zenon DEF AcceptTotp, RedeemTemp, RedeemWon, WithoutTemp
<1>4. ASSUME NEW r \in Req, (\E c \in Totp : Gate(r, c)) \/ Issue(r) \/ Write(r)
      PROVE  UNCHANGED <<temp, redeemed, generated>>
    BY <1>4, Zenon DEF Gate, Issue, Write, store
<1>5. temp \subseteq Temp
    BY Zenon DEF MfaTypeOK
<1>6. CASE Next
    BY <1>1, <1>2, <1>3, <1>4, <1>5, <1>6, CredentialSteps, Zenon
<1> QED
    BY <1>1, <1>6, Zenon

LEMMA TempStep == ASSUME MfaTypeOK, TempInv, [Next]_vars PROVE TempInv'
    BY TempMoves, Zenon DEF TempInv

\* A code that was marked is not fresh: its marker lasts as long as it verifies.
LEMMA MarkedIsNotFresh == ASSUME NEW c, NEW s, FreshTotp(c, s) PROVE c \notin tu
    BY MfaAssumption DEF FreshTotp, AntiReplayTtl

LEMMA TotpStep == ASSUME MfaTypeOK, TotpInv, [Next]_vars PROVE TotpInv'
<1>1. CASE Quiet \/ UNCHANGED vars
    BY <1>1, QuietWorld, Zenon DEF Quiet, TotpInv
<1>2. ASSUME NEW t \in Temp, IssueTemp(t) PROVE TotpInv'
    BY <1>2, Zenon DEF IssueTemp, TotpInv
<1>3. ASSUME NEW r \in Req, NEW c \in Totp, AcceptTotp(r, c) \/ Gate(r, c) PROVE TotpInv'
  <2>1. tu' = tu \cup {c} /\ used' = used \cup {c} /\ doubled' = doubled \cup ({c} \cap used)
      BY <1>3, Zenon DEF AcceptTotp, Gate, Accept
  <2>2. c \notin tu
      BY <1>3, MarkedIsNotFresh, Zenon DEF AcceptTotp, Gate
  <2> QED
      BY <2>1, <2>2, Zenon DEF TotpInv
<1>4. ASSUME NEW r \in Req, RedeemTemp(r) PROVE TotpInv'
    BY <1>4, Zenon DEF RedeemTemp, TotpInv
<1>5. ASSUME NEW r \in Req, Issue(r) PROVE TotpInv'
  <2>1. cred[r] \in Temp \cup {None} /\ code[r] \in RCode \cup {None}
      BY Zenon DEF MfaTypeOK, LocalOK
  <2>2. ({cred[r], code[r]} \ {None}) \cap Totp = {}
      BY <2>1, MfaAssumption, Zenon
  <2> QED
      BY <1>5, <2>2, IssueEffect, Zenon DEF TotpInv
<1>6. ASSUME NEW r \in Req, Write(r) PROVE TotpInv'
  <2>1. plan[r] \in Factor /\ UNCHANGED <<tu, doubled>>
        /\ used' = IF op[r] = "enable" THEN used \cup {plan[r].secret} ELSE used
      BY <1>6, WriteTyped, Zenon DEF MfaTypeOK
  <2>2. plan[r].secret \notin Totp
      BY <2>1, MfaAssumption, Zenon DEF Factor
  <2> QED
      BY <2>1, <2>2, Zenon DEF TotpInv
<1> QED
    BY <1>1, <1>2, <1>3, <1>4, <1>5, <1>6, CredentialSteps, Zenon

LEMMA SessionStep == ASSUME Ground, SessionInv, [Next]_vars PROVE SessionInv'
<1>0. MfaTypeOK /\ LocalOK
    BY Zenon DEF Ground, MfaTypeOK
<1>1. ASSUME NEW r \in Req, Leave(r) PROVE SessionInv'
    BY <1>0, <1>1, LeaveTyped DEF Leave, SessionInv, Same
<1>2. ASSUME NEW r \in Req, \A q \in Req \ {r} : Same(q), UNCHANGED outlives, pc[r] \notin {"release", "revoke"}
      PROVE  SessionInv'
    BY <1>2, Zenon DEF SessionInv, Same
<1>p. ASSUME NEW r \in Req, NEW p \in Stage, Proceed(r, p), pc[r] \notin {"release", "revoke"} PROVE SessionInv'
    BY <1>0, <1>2, <1>p, ProceedTyped, Zenon
<1>3. ASSUME NEW r \in Req, NEW t \in Temp, NEW b \in BOOLEAN, Challenge(r, t, b) PROVE SessionInv'
    BY <1>0, <1>2, <1>3, ChallengeTyped, Zenon
<1>4. ASSUME NEW r \in Req, ChallengeFetch(r) PROVE SessionInv'
    BY <1>0, <1>2, <1>4, FetchTyped, Zenon
<1>5. ASSUME NEW r \in Req, NEW c \in RCode, AcceptRecoveryCode(r, c) PROVE SessionInv'
    BY <1>0, <1>2, <1>5, RecoveryCodeTyped, Zenon
<1>6. ASSUME NEW r \in Req, Reread(r) PROVE SessionInv'
    BY <1>0, <1>2, <1>6, RereadTyped, Zenon
<1>7. ASSUME NEW r \in Req, GetSetup(r) PROVE SessionInv'
  <2>1. op[r] \in {"setup", "enable"} /\ pc[r] = "getsetup"
      BY <1>0, <1>7, Zenon DEF MfaTypeOK, GetSetup, At, OnRoute
  <2>2. CASE op[r] = "enable"
      BY <1>0, <1>2, <1>7, <2>1, <2>2, GetSetupEnableTyped, Zenon
  <2>3. CASE op[r] = "setup" /\ setup # None
      BY <1>1, <1>7, <2>3, GetSetupLeaves, Zenon
  <2>4. CASE op[r] = "setup" /\ setup = None
    <3>1. Proceed(r, "putsetup") /\ "putsetup" \in Stage
        BY <1>7, <2>4, Zenon DEF GetSetup, Stage
    <3> QED
        BY <1>p, <2>1, <3>1, Zenon
  <2> QED
      BY <2>1, <2>2, <2>3, <2>4, Zenon
<1>8. ASSUME NEW r \in Req, Setup(r) \/ VerifyAndEnable(r) \/ Disable(r) \/ ResetMfa(r) \/ \E b \in Batch : RegenerateRecoveryCodes(r, b)
      PROVE SessionInv'
  <2>1. \E o \in Management, new \in SUBSET RCode : Manage(r, o, new)
    <3>1. \A b \in Batch : Codes(b) \in SUBSET RCode
        BY Zenon DEF Codes, RCode
    <3> QED
        BY <1>8, <3>1, Zenon DEF Setup, VerifyAndEnable, Disable, ResetMfa, RegenerateRecoveryCodes, Management
  <2> QED
      BY <1>0, <1>2, <2>1, ManageTyped, Zenon
<1>9. ASSUME NEW r \in Req, (\E c \in Totp : AcceptTotp(r, c) \/ Gate(r, c)) \/ RedeemTemp(r) \/ Acquire(r) \/ TakeSetup(r)
      PROVE  SessionInv'
  <2>1. pc[r] \in {"code", "gate", "redeem", "acquire", "take"} /\ {"acquire", "issue", "take", "reread"} \subseteq Stage
      BY <1>9, Zenon DEF AcceptTotp, Gate, RedeemTemp, Acquire, TakeSetup, At, Stage
  <2>2. \E p \in {"acquire", "issue", "take", "reread"} : Proceed(r, p)
      BY <1>9, Zenon DEF AcceptTotp, Gate, RedeemTemp, Acquire, TakeSetup
  <2> QED
      BY <1>p, <2>1, <2>2, Zenon
<1>10. ASSUME NEW r \in Req, Release(r) PROVE SessionInv'
  <2>1. CASE op[r] = "regenerate"
      BY <1>1, <1>10, <2>1, GetSetupLeaves, Zenon
  <2>2. CASE op[r] # "regenerate"
    <3>1. PICK p \in {"issue", "revoke"} : Proceed(r, p) /\ (p = "issue" => op[r] = "challenge")
        BY <1>10, <2>2, Zenon DEF Release
    <3>2. p \in Stage
        BY Zenon DEF Stage
    <3>3. /\ pc'[r] = p /\ UNCHANGED <<op, outlives>> /\ \A q \in Req \ {r} : Same(q)
        BY <1>0, <3>1, <3>2, ProceedTyped, Zenon
    <3> QED
        BY <3>1, <3>3, Zenon DEF SessionInv, Same
  <2> QED
      BY <2>1, <2>2, Zenon
<1>11. ASSUME NEW r \in Req, Write(r) PROVE SessionInv'
  <2>1. /\ pc[r] = "write" /\ pc'[r] = "release" /\ UNCHANGED op /\ \A q \in Req \ {r} : Same(q)
      BY <1>0, <1>11, WriteTyped, Zenon
  <2>2. outlives' = IF op[r] \in {"enable", "disable", "reset"} /\ signedIn THEN outlives \cup {r} ELSE outlives
      BY <1>11, Zenon DEF Write, Persist
  <2> QED
      BY <2>1, <2>2, Zenon DEF SessionInv, Same
<1>12. ASSUME NEW r \in Req, Revoke(r) PROVE SessionInv'
    BY <1>0, <1>12, RevokeTyped, Zenon DEF SessionInv
<1>13. ASSUME NEW r \in Req, \/ Fail(r) \/ BumpEpoch(r) \/ FailLocked(r) \/ Crash(r) \/ Issue(r)
                             \/ \E s \in Secret, b \in Batch : PutSetup(r, s, b)
       PROVE  SessionInv'
    BY <1>1, <1>13, Zenon DEF Fail, BumpEpoch, FailLocked, Crash, Issue, PutSetup
<1>14. ASSUME NEW r \in Req, ReqNext(r) PROVE SessionInv'
    BY <1>3, <1>4, <1>5, <1>6, <1>7, <1>8, <1>9, <1>10, <1>11, <1>12, <1>13, <1>14, Zenon
       DEF ReqNext, ChallengeDashboard, ChallengePlatform, ChallengeSteps, Transition
<1>15. ASSUME \/ PasswordLogin \/ LockExpires \/ (\E c \in RCode : ClaimExpires(c)) \/ SetupExpires \/ UNCHANGED vars
              \/ \E t \in Temp : IssueTemp(t)
       PROVE  SessionInv'
  <2>1. UNCHANGED <<pc, op, outlives>>
      BY <1>15, Zenon DEF PasswordLogin, LockExpires, ClaimExpires, SetupExpires, IssueTemp, vars, rest
  <2> QED
      BY <2>1, Zenon DEF SessionInv
<1> QED
    BY <1>14, <1>15, Zenon DEF Next

-----------------------------------------------------------------------------
(* Recovery codes.                                                         *)

\* A request moves without taking part in anything that concerns the codes.
Calm(q) ==
    /\ code'[q] # None => /\ code'[q] = code[q] /\ view'[q] = view[q] /\ op'[q] = op[q]
                          /\ pc'[q] \in {"redeem", "acquire", "reread", "write", "release", "issue"}
                          /\ pc'[q] \in {"release", "issue"} => code[q] \notin mfa.codes
    /\ pc'[q] = "code" => pc[q] = "code" /\ view'[q] = view[q]
    /\ view'[q] \in {view[q], Off}
    /\ pc'[q] = "write" /\ q \notin overran' => plan'[q] = Mutate(q, mfa)'
    /\ Supplies(q)' => Supplies(q) /\ data'[q] = data[q] /\ op'[q] = op[q]

LEMMA SameMutate ==
    ASSUME NEW q \in Req, op'[q] = op[q], code'[q] = code[q], view'[q] = view[q], data'[q] = data[q], UNCHANGED mfa
    PROVE  Mutate(q, mfa)' = Mutate(q, mfa)
    BY Zenon DEF Mutate, Splice, ReplaceCodes, HoldsChallengedSecret

LEMMA SameIsCalm == ASSUME Clean, NEW q \in Req, Same(q), UNCHANGED mfa, used \subseteq used' PROVE Calm(q)
<1>1. Claimed(q) /\ Current(q)
    BY Zenon DEF Clean
<1>2. code'[q] # None => /\ pc'[q] \in {"redeem", "acquire", "reread", "write", "release", "issue"}
                         /\ pc'[q] \in {"release", "issue"} => code[q] \notin mfa.codes
    BY <1>1, Zenon DEF Claimed, Same
<1>3. pc'[q] = "write" /\ q \notin overran' => plan'[q] = Mutate(q, mfa)'
    BY <1>1, SameMutate, Zenon DEF Current, Same, At
<1>4. Supplies(q)' => Supplies(q)
    BY Zenon DEF Supplies, Same
<1> QED
    BY <1>2, <1>3, <1>4, Zenon DEF Calm, Same

\* The pending record stays, goes, or is one nobody has seen.
NewSetup ==
    \/ setup' \in {setup, None}
    \/ /\ setup'.codes \subseteq RCode /\ setup'.codes \cap (mfa.codes \cup used) = {}
       /\ \A q \in Req : view[q].codes \cap setup'.codes = {} /\ data[q].codes \cap setup'.codes = {}

LEMMA CalmKeeps ==
    ASSUME MfaTypeOK, MfaTypeOK', Clean, \A q \in Req : Calm(q), UNCHANGED mfa, NewSetup, rcu \subseteq rcu',
           used \subseteq used', used' \cap RCode \subseteq used, doubled' \cap RCode \subseteq doubled,
           generated \subseteq generated'
    PROVE  Clean'
<1>0. /\ mfa.codes \subseteq RCode
      /\ \A q \in Req : view[q].codes \subseteq RCode /\ data[q].codes \subseteq RCode
      /\ setup # None => setup.codes \subseteq RCode
      /\ \A q \in Req : code[q] # None => code[q] \in RCode
  <2>1. mfa \in Factor /\ setup \in Draft \cup {None}
        /\ \A q \in Req : view[q] \in Factor /\ data[q] \in Draft /\ code[q] \in RCode \cup {None}
      BY Zenon DEF MfaTypeOK, LocalOK
  <2> QED
      BY <2>1, Zenon DEF Factor, Draft
<1>1. ASSUME NEW codes, codes \subseteq RCode, Unseen(codes) PROVE Unseen(codes)'
    BY <1>1, BlankTyped, Zenon DEF Unseen, Calm
<1>2. ASSUME NEW r \in Req PROVE Claimed(r)'
  <2> SUFFICES ASSUME code'[r] # None
               PROVE  /\ code'[r] \in (view'[r].codes \cap rcu') \ used'
                      /\ op'[r] = "challenge"
                      /\ pc'[r] \in {"redeem", "acquire", "reread", "write", "release", "issue"}
                      /\ pc'[r] \in {"release", "issue"} => code'[r] \notin mfa'.codes
                      /\ \A q \in Req : code'[q] = code'[r] => q = r
      BY Zenon DEF Claimed
  <2>1. Calm(r) /\ Claimed(r) /\ code'[r] = code[r]
      BY Zenon DEF Clean, Calm
  <2>2. \A q \in Req : code'[q] = code'[r] => q = r
      BY <2>1, Zenon DEF Claimed, Calm
  <2> QED
      BY <1>0, <2>1, <2>2 DEF Claimed, Calm
<1>3. ASSUME NEW r \in Req PROVE Current(r)'
    BY <1>0, BlankTyped DEF Clean, Current, Calm, At
<1>4. ASSUME NEW r \in Req PROVE Supplied(r)'
  <2> SUFFICES ASSUME Supplies(r)' PROVE Supplied(r)'
      BY Zenon DEF Supplied
  <2>1. Supplies(r) /\ data'[r] = data[r] /\ op'[r] = op[r] /\ Supplied(r)
      BY Zenon DEF Calm, Clean
  <2>2. Unseen(data[r].codes) /\ data[r].codes \subseteq RCode
      BY <1>0, <2>1, Zenon DEF Supplied
  <2>3. ASSUME NEW codes, codes = data[r].codes PROVE Unseen(codes)'
      BY <1>1, <2>2, <2>3, Zenon
  <2>4. Unseen(data[r].codes)'
      BY <2>1, <2>3, Zenon DEF Unseen
  <2>5. ASSUME NEW q \in Req \ {r}, Supplies(q)', data'[q].codes \cap data'[r].codes # {}
        PROVE  op'[q] = "enable" /\ op'[r] = "enable" /\ data'[q].secret = data'[r].secret
    <3>1. Supplies(q) /\ data'[q] = data[q] /\ op'[q] = op[q]
        BY <2>5, Zenon DEF Calm
    <3> QED
        BY <2>1, <2>5, <3>1, Zenon DEF Supplied
  <2>6. ASSUME setup' # None, data'[r].codes \cap setup'.codes # {}
        PROVE  op'[r] = "enable" /\ data'[r].secret = setup'.secret
    <3>1. setup' \in {setup, None}
        BY <2>1, <2>6, Zenon DEF NewSetup
    <3> QED
        BY <2>1, <2>6, <3>1, Zenon DEF Supplied
  <2> QED
      BY <2>4, <2>5, <2>6, Zenon DEF Supplied
<1>5. setup' # None /\ setup'.secret \notin used' => Unseen(setup.codes)'
  <2> SUFFICES ASSUME setup' # None, setup'.secret \notin used' PROVE Unseen(setup.codes)'
      BY Zenon
  <2>1. ASSUME NEW codes, codes = setup'.codes PROVE codes \subseteq RCode /\ Unseen(codes)
    <3>1. CASE setup' = setup
        BY <1>0, <2>1, <3>1, Zenon DEF Clean
    <3>2. CASE setup' # setup
        BY <2>1, <3>2, Zenon DEF NewSetup, Unseen
    <3> QED
        BY <3>1, <3>2, Zenon
  <2>2. ASSUME NEW codes, codes = setup'.codes PROVE Unseen(codes)'
      BY <1>1, <2>1, <2>2, Zenon
  <2> QED
      BY <2>2, Zenon DEF Unseen
<1>6. /\ mfa'.on \/ mfa'.codes = {}
      /\ mfa'.codes \cap used' = {}
      /\ Published(used \cap RCode)'
      /\ doubled' \cap RCode = {}
    BY <1>0, Zenon DEF Clean, Published
<1> QED
    BY <1>2, <1>3, <1>4, <1>5, <1>6, Zenon DEF Clean

\* One request moves, calmly.
LEMMA OneCalm ==
    ASSUME MfaTypeOK, MfaTypeOK', Clean, NEW r \in Req, Calm(r), \A q \in Req \ {r} : Same(q),
           UNCHANGED mfa, NewSetup, rcu \subseteq rcu',
           used \subseteq used', used' \cap RCode \subseteq used, doubled' \cap RCode \subseteq doubled,
           generated \subseteq generated'
    PROVE  Clean'
<1>1. \A q \in Req : Calm(q)
    BY SameIsCalm, Zenon
<1> QED
    BY <1>1, CalmKeeps, Zenon

LEMMA LeaveIsCalm == ASSUME LocalOK, NEW r \in Req, Leave(r) PROVE Calm(r)
<1>1. pc'[r] = "idle" /\ code'[r] = None /\ view'[r] = Off
    BY LeaveTyped, Zenon
<1> QED
    BY <1>1, Zenon DEF Calm, Supplies

LEMMA ProceedIsCalm ==
    ASSUME MfaTypeOK, Clean, NEW r \in Req, NEW p \in {"acquire", "issue", "reread", "take", "putsetup", "revoke"},
           Advances(r, p), used \subseteq used'
    PROVE  Calm(r)
<1>1. pc'[r] = p /\ UNCHANGED <<op, code, view, data>>
  <2>1. p \in Stage /\ LocalOK
      BY Zenon DEF Stage, MfaTypeOK
  <2> QED
      BY <2>1, ProceedTyped, Zenon DEF Advances
<1>2. Claimed(r) /\ OnRoute(pc[r], op[r])
    BY Zenon DEF Clean, MfaTypeOK
<1>3. ASSUME code'[r] # None
      PROVE  /\ pc'[r] \in {"redeem", "acquire", "reread", "write", "release", "issue"}
             /\ pc'[r] \in {"release", "issue"} => code[r] \notin mfa.codes
    BY <1>1, <1>2, <1>3, Zenon DEF Claimed, Advances
<1>4. Supplies(r)' => Supplies(r)
    BY <1>1, <1>2, Zenon DEF Supplies, OnRoute, Advances
<1> QED
    BY <1>1, <1>3, <1>4, Zenon DEF Calm

\* What an accepted credential other than a recovery code adds to the history.
LEMMA ProceedClean ==
    ASSUME MfaTypeOK, MfaTypeOK', Clean, NEW r \in Req,
           (\E c \in Totp : AcceptTotp(r, c) \/ Gate(r, c)) \/ RedeemTemp(r) \/ Acquire(r) \/ TakeSetup(r)
           \/ (GetSetup(r) /\ op[r] = "setup" /\ setup = None) \/ (Release(r) /\ op[r] # "regenerate")
    PROVE  Clean'
<1>1. used \subseteq used' /\ used' \cap RCode \subseteq used /\ doubled' \cap RCode \subseteq doubled
  <2>1. ASSUME NEW c \in Totp, AcceptTotp(r, c) \/ Gate(r, c)
        PROVE  used' = used \cup {c} /\ doubled' = doubled \cup ({c} \cap used)
      BY <2>1, Zenon DEF AcceptTotp, Gate, Accept
  <2>2. ASSUME RedeemTemp(r) \/ Acquire(r) \/ TakeSetup(r) \/ GetSetup(r) \/ Release(r) PROVE UNCHANGED <<used, doubled>>
      BY <2>2, Zenon DEF RedeemTemp, Acquire, TakeSetup, GetSetup, Release, past
  <2> QED
      BY <2>1, <2>2, MfaAssumption
<1>2. PICK p \in {"acquire", "issue", "reread", "take", "putsetup", "revoke"} : Advances(r, p)
    BY ProceedCases, Zenon
<1>3. Calm(r)
    BY <1>1, <1>2, ProceedIsCalm, Zenon
<1>4. \A q \in Req \ {r} : Same(q)
  <2>1. p \in Stage /\ LocalOK
      BY DEF Stage, MfaTypeOK
  <2> QED
      BY <1>2, <2>1, ProceedTyped, Zenon DEF Advances
<1> QED
    BY <1>1, <1>2, <1>3, <1>4, OneCalm, Zenon DEF Advances, NewSetup

LEMMA LeaveClean ==
    ASSUME MfaTypeOK, MfaTypeOK', Clean, NEW r \in Req,
           \/ Fail(r) \/ BumpEpoch(r) \/ FailLocked(r) \/ Crash(r)
           \/ (GetSetup(r) /\ op[r] = "setup" /\ setup # None) \/ (Release(r) /\ op[r] = "regenerate")
    PROVE  Clean'
<1>0. LocalOK
    BY DEF MfaTypeOK
<1>1. Leave(r) /\ UNCHANGED <<mfa, setup, rcu, used, doubled, generated>>
    BY <1>0, EndsTyped, GetSetupLeaves, Zenon
<1>2. Calm(r) /\ \A q \in Req \ {r} : Same(q)
    BY <1>0, <1>1, LeaveIsCalm, LeaveTyped, Zenon
<1> QED
    BY <1>1, <1>2, OneCalm DEF NewSetup

\* The transition is abandoned only when the code is no longer in the record.
LEMMA AbandonedSplice ==
    ASSUME MfaTypeOK, Clean, NEW r \in Req, code[r] # None, Mutate(r, mfa) = None PROVE code[r] \notin mfa.codes
<1>1. Claimed(r) /\ Current(r) /\ (mfa.on \/ mfa.codes = {})
    BY Zenon DEF Clean
<1>2. op[r] = "challenge" /\ code[r] \in view[r].codes
    BY <1>1, Zenon DEF Claimed
<1>3. Splice(r, mfa) = None
    BY <1>2, Zenon DEF Mutate
<1>4. mfa \in Factor /\ view[r] \in Factor
    BY Zenon DEF MfaTypeOK, LocalOK
<1>5. [on |-> TRUE, secret |-> view[r].secret, key |-> "current", codes |-> mfa.codes \ {code[r]}] # None
  <2>1. [on |-> TRUE, secret |-> view[r].secret, key |-> "current", codes |-> mfa.codes \ {code[r]}] \in Factor
      BY <1>4, Zenon DEF Factor
  <2> QED
      BY <2>1, MfaAssumption, Zenon
<1>6. ~(HoldsChallengedSecret(mfa, view[r].secret) /\ code[r] \in mfa.codes)
    BY <1>3, <1>5, Zenon DEF Splice
<1> QED
    BY <1>1, <1>2, <1>6, Zenon DEF HoldsChallengedSecret, Current

LEMMA ReadsClean ==
    ASSUME MfaTypeOK, MfaTypeOK', Clean, NEW r \in Req,
           (\E t \in Temp, b \in BOOLEAN : Challenge(r, t, b)) \/ Revoke(r) \/ Reread(r)
    PROVE  Clean'
<1>0. LocalOK /\ Claimed(r) /\ Current(r)
    BY Zenon DEF MfaTypeOK, Clean
<1>1. ASSUME NEW t \in Temp, NEW b \in BOOLEAN, Challenge(r, t, b) PROVE Clean'
  <2>1. /\ pc[r] = "idle" /\ pc'[r] = "fetch" /\ UNCHANGED <<mfa, setup, rcu, code, view, used, doubled, generated>>
        /\ \A q \in Req \ {r} : Same(q)
      BY <1>0, <1>1, ChallengeTyped, Zenon
  <2>2. Calm(r)
      BY <1>0, <2>1, Zenon DEF Calm, Claimed, Supplies
  <2> QED
      BY <2>1, <2>2, OneCalm DEF NewSetup
<1>2. ASSUME Revoke(r) PROVE Clean'
  <2>1. /\ pc'[r] = "bump" /\ UNCHANGED <<mfa, setup, rcu, code, view, used, doubled, generated>>
        /\ \A q \in Req \ {r} : Same(q)
      BY <1>0, <1>2, RevokeTyped, Zenon
  <2>2. pc[r] = "revoke"
      BY <1>2, Zenon DEF Revoke, At
  <2>3. Calm(r)
      BY <1>0, <2>1, <2>2, Zenon DEF Calm, Claimed, Supplies
  <2> QED
      BY <2>1, <2>3, OneCalm DEF NewSetup
<1>3. ASSUME Reread(r) PROVE Clean'
  <2>1. /\ pc[r] = "reread" /\ pc'[r] = (IF Mutate(r, mfa) = None THEN "release" ELSE "write") /\ plan'[r] = Mutate(r, mfa)
        /\ UNCHANGED <<mfa, setup, rcu, op, code, view, data, used, doubled, generated>>
        /\ \A q \in Req \ {r} : Same(q)
      BY <1>3, RereadTyped, Zenon
  <2>2. plan'[r] = Mutate(r, mfa)'
      BY <2>1, SameMutate, Zenon
  <2>3. code[r] # None /\ pc'[r] = "release" => code[r] \notin mfa.codes
      BY <2>1, AbandonedSplice
  <2>4. Supplies(r)' => Supplies(r)
      BY <2>1, Zenon DEF Supplies
  <2>5. Calm(r)
      BY <2>1, <2>2, <2>3, <2>4 DEF Calm
  <2> QED
      BY <2>1, <2>5, OneCalm, Zenon DEF NewSetup
<1> QED
    BY <1>1, <1>2, <1>3, Zenon

LEMMA WorldClean ==
    ASSUME MfaTypeOK, MfaTypeOK', Clean,
           PasswordLogin \/ LockExpires \/ SetupExpires \/ (\E t \in Temp : IssueTemp(t)) \/ UNCHANGED vars
    PROVE  Clean'
<1>1. /\ UNCHANGED <<mfa, rcu, used, doubled, pc, op, cred, code, view, data, plan>> /\ setup' \in {setup, None}
      /\ overran \subseteq overran' /\ generated \subseteq generated'
    BY Zenon DEF PasswordLogin, LockExpires, SetupExpires, IssueTemp, vars, store, rest, past
<1>2. \A q \in Req : Same(q)
    BY <1>1, Zenon DEF Same
<1>3. \A q \in Req : Calm(q)
    BY <1>1, <1>2, SameIsCalm, Zenon
<1> QED
    BY <1>1, <1>3, CalmKeeps DEF NewSetup

\* The codes of a supplier and those of another are apart, or the two read the
\* same pending record.
Apart(codes, secret, o, q) ==
    Supplies(q) /\ data[q].codes \cap codes # {} => op[q] = "enable" /\ o = "enable" /\ data[q].secret = secret

\* What the other requests hold while one reads, claims or takes on new codes.
LEMMA OthersClean ==
    ASSUME Clean, NEW r \in Req, \A q \in Req \ {r} : Same(q), UNCHANGED <<mfa, used, setup>>, rcu \subseteq rcu',
           view'[r] \in {view[r], mfa}, \A q \in Req \ {r} : code[q] # None => code'[r] # code[q],
           Supplies(r)' => \A q \in Req \ {r} : Apart(data'[r].codes, data'[r].secret, op'[r], q)
    PROVE  /\ \A q \in Req \ {r} : Claimed(q)' /\ Current(q)' /\ Supplied(q)'
           /\ setup' # None /\ setup'.secret \notin used' => Unseen(setup.codes)'
           /\ \A codes : Unseen(codes) => Unseen(codes)'
<1>1. ASSUME NEW codes, Unseen(codes) PROVE Unseen(codes)'
    BY <1>1, Zenon DEF Unseen, Same
<1>2. ASSUME NEW q \in Req \ {r} PROVE Claimed(q)'
  <2>1. Claimed(q) /\ Same(q)
      BY Zenon DEF Clean
  <2> SUFFICES ASSUME code[q] # None PROVE Claimed(q)'
      BY <2>1, Zenon DEF Claimed, Same
  <2>2. \A p \in Req : code'[p] = code[q] => p = q
      BY <2>1, Zenon DEF Claimed, Same
  <2> QED
      BY <2>1, <2>2 DEF Claimed, Same
<1>3. ASSUME NEW q \in Req \ {r} PROVE Current(q)'
  <2>1. Current(q) /\ Same(q) /\ Mutate(q, mfa)' = Mutate(q, mfa)
      BY SameMutate, Zenon DEF Clean, Same
  <2> QED
      BY <2>1 DEF Current, Same, At
<1>4. ASSUME NEW q \in Req \ {r} PROVE Supplied(q)'
  <2>1. Supplied(q) /\ Same(q)
      BY Zenon DEF Clean
  <2>2. \A p \in Req \ {r} : Supplies(p)' <=> Supplies(p)
      BY Zenon DEF Supplies, Same
  <2> SUFFICES ASSUME Supplies(q) PROVE Supplied(q)'
      BY <2>2, Zenon DEF Supplied
  <2>3. Unseen(data[q].codes)
      BY <2>1, Zenon DEF Supplied
  <2>4. ASSUME NEW codes, codes = data[q].codes PROVE Unseen(codes)'
      BY <1>1, <2>3, <2>4, Zenon
  <2>5. Unseen(data[q].codes)'
      BY <2>1, <2>4, Zenon DEF Unseen, Same
  <2>6. ASSUME NEW p \in Req \ {q}, Supplies(p)', data'[p].codes \cap data'[q].codes # {}
        PROVE  op'[p] = "enable" /\ op'[q] = "enable" /\ data'[p].secret = data'[q].secret
    <3>1. CASE p = r
        BY <2>1, <2>6, <3>1 DEF Apart, Same
    <3>2. CASE p # r
        BY <2>1, <2>2, <2>6, <3>2 DEF Supplied, Same
    <3> QED
        BY <3>1, <3>2, Zenon
  <2> QED
      BY <2>1, <2>5, <2>6, Zenon DEF Supplied, Same
<1>5. setup' # None /\ setup'.secret \notin used' => Unseen(setup.codes)'
  <2> SUFFICES ASSUME setup # None, setup.secret \notin used PROVE Unseen(setup.codes)'
      BY Zenon
  <2>1. Unseen(setup.codes)
      BY Zenon DEF Clean
  <2>2. ASSUME NEW codes, codes = setup.codes PROVE Unseen(codes)'
      BY <1>1, <2>1, <2>2
  <2> QED
      BY <2>2, Zenon DEF Unseen
<1> QED
    BY <1>1, <1>2, <1>3, <1>4, <1>5, Zenon

LEMMA FetchClean == ASSUME MfaTypeOK, Clean, NEW r \in Req, ChallengeFetch(r) PROVE Clean'
<1>1. /\ pc[r] = "fetch" /\ pc'[r] = "code" /\ view'[r] = mfa
      /\ UNCHANGED <<mfa, setup, rcu, code, used, doubled, generated>> /\ \A q \in Req \ {r} : Same(q)
    BY FetchTyped, Zenon
<1>2. Claimed(r) /\ code[r] = None /\ ~Supplies(r)'
    BY <1>1 DEF Clean, Claimed, Supplies
<1>3. /\ \A q \in Req \ {r} : Claimed(q)' /\ Current(q)' /\ Supplied(q)'
      /\ setup' # None /\ setup'.secret \notin used' => Unseen(setup.codes)'
    BY <1>1, <1>2, OthersClean, Zenon
<1>4. Claimed(r)' /\ Current(r)' /\ Supplied(r)'
    BY <1>1, <1>2 DEF Clean, Claimed, Current, Supplied, At
<1> QED
    BY <1>1, <1>3, <1>4, Zenon DEF Clean, Published

LEMMA RecoveryCodeClean ==
    ASSUME MfaTypeOK, Clean, NEW r \in Req, NEW c \in RCode, AcceptRecoveryCode(r, c) PROVE Clean'
<1>1. /\ pc[r] = "code" /\ pc'[r] = "redeem" /\ code'[r] = c /\ rcu' = rcu \cup {c} /\ op'[r] = "challenge"
      /\ UNCHANGED <<mfa, setup, view, used, doubled, generated>> /\ \A q \in Req \ {r} : Same(q)
    BY RecoveryCodeTyped, Zenon
<1>2. c \in view[r].codes /\ c \notin rcu /\ Current(r) /\ \A q \in Req : Claimed(q)
    BY Zenon DEF AcceptRecoveryCode, ClaimFree, Clean
<1>3. c \notin used /\ ~Supplies(r)' /\ \A q \in Req \ {r} : code[q] # None => c # code[q]
    BY <1>1, <1>2 DEF Current, Claimed, Supplies, At
<1>4. /\ \A q \in Req \ {r} : Claimed(q)' /\ Current(q)' /\ Supplied(q)'
      /\ setup' # None /\ setup'.secret \notin used' => Unseen(setup.codes)'
    BY <1>1, <1>3, OthersClean, Zenon
<1>5. \A q \in Req : code'[q] = c => q = r
    BY <1>1, <1>3, MfaAssumption DEF Same
<1>6. Claimed(r)'
    BY <1>1, <1>2, <1>3, <1>5 DEF Claimed
<1>7. Current(r)' /\ Supplied(r)'
    BY <1>1, <1>2, <1>3 DEF Current, Supplied, At
<1> QED
    BY <1>1, <1>4, <1>6, <1>7, Zenon DEF Clean, Published

\* A set that was never handed out is nobody's.
LEMMA FreshCodes ==
    ASSUME MfaTypeOK, HandedOut, Clean, NEW b \in Batch, b \notin generated
    PROVE  /\ Unseen(Codes(b)) /\ Codes(b) \subseteq RCode
           /\ \A q \in Req : data[q].codes \cap Codes(b) = {}
           /\ setup # None => setup.codes \cap Codes(b) = {}
<1>1. Codes(b) \subseteq RCode /\ \A c \in Codes(b) : c[1] = b
    BY Zenon DEF Codes, RCode
<1>2. ASSUME NEW codes, Published(codes) PROVE codes \cap Codes(b) = {}
    BY <1>1, <1>2, Zenon DEF Published
<1>3. mfa.codes \cap Codes(b) = {} /\ used \cap Codes(b) = {}
    BY <1>1, <1>2 DEF HandedOut, Clean
<1>4. \A q \in Req : view[q].codes \cap Codes(b) = {} /\ data[q].codes \cap Codes(b) = {}
    BY <1>2, Zenon DEF HandedOut
<1>5. setup # None => setup.codes \cap Codes(b) = {}
    BY <1>2, Zenon DEF HandedOut
<1>6. Unseen(Codes(b))
    BY <1>3, <1>4, Zenon DEF Unseen
<1> QED
    BY <1>1, <1>4, <1>5, <1>6, Zenon

\* A management operation begins, with no codes or with a set of its own.
LEMMA ManageClean ==
    ASSUME MfaTypeOK, Clean, NEW r \in Req, NEW o \in Management, NEW new \in SUBSET RCode, Manage(r, o, new),
           generated \subseteq generated', Unseen(new), \A q \in Req : data[q].codes \cap new = {},
           setup # None => setup.codes \cap new = {}
    PROVE  Clean'
<1>1. /\ pc[r] = "idle" /\ pc'[r] \in {"getsetup", "acquire", "gate"} /\ view'[r] = mfa /\ data'[r].codes = new
      /\ UNCHANGED <<mfa, setup, rcu, code, used, doubled>> /\ \A q \in Req \ {r} : Same(q)
    BY ManageTyped, Zenon
<1>2. code[r] = None
    BY <1>1 DEF Clean, Claimed
<1>3. \A q \in Req \ {r} : Apart(data'[r].codes, data'[r].secret, op'[r], q)
    BY <1>1, Zenon DEF Apart
<1>4. /\ \A q \in Req \ {r} : Claimed(q)' /\ Current(q)' /\ Supplied(q)'
      /\ setup' # None /\ setup'.secret \notin used' => Unseen(setup.codes)'
      /\ Unseen(new)'
    BY <1>1, <1>2, <1>3, OthersClean
<1>5. Claimed(r)' /\ Current(r)'
    BY <1>1, <1>2 DEF Clean, Claimed, Current, At
<1>6. Supplied(r)'
  <2>1. Unseen(data[r].codes)'
      BY <1>1, <1>4, Zenon DEF Unseen
  <2>2. \A q \in Req \ {r} : data'[q].codes \cap data'[r].codes = {}
      BY <1>1, Zenon DEF Same
  <2> QED
      BY <1>1, <2>1, <2>2, Zenon DEF Supplied
<1> QED
    BY <1>1, <1>4, <1>5, <1>6, Zenon DEF Clean, Published

LEMMA BeginsClean ==
    ASSUME MfaTypeOK, HandedOut, Clean, NEW r \in Req,
           Setup(r) \/ VerifyAndEnable(r) \/ Disable(r) \/ ResetMfa(r) \/ \E b \in Batch : RegenerateRecoveryCodes(r, b)
    PROVE  Clean'
<1>1. ASSUME NEW b \in Batch, RegenerateRecoveryCodes(r, b) PROVE Clean'
  <2>1. b \notin generated /\ Manage(r, "regenerate", Codes(b)) /\ generated \subseteq generated' /\ "regenerate" \in Management
      BY <1>1, Zenon DEF RegenerateRecoveryCodes, Management
  <2> QED
      BY <2>1, FreshCodes, ManageClean, Zenon
<1>2. Unseen({}) /\ {} \in SUBSET RCode
    BY Zenon DEF Unseen
<1>3. ASSUME NEW o \in Management, Manage(r, o, {}), UNCHANGED generated PROVE Clean'
    BY <1>2, <1>3, ManageClean, Zenon
<1> QED
    BY <1>1, <1>3, Zenon DEF Setup, VerifyAndEnable, Disable, ResetMfa, Management

LEMMA GetSetupEnableClean ==
    ASSUME MfaTypeOK, Clean, NEW r \in Req, GetSetup(r), op[r] = "enable" PROVE Clean'
<1>1. /\ pc[r] = "getsetup" /\ pc'[r] = "gate" /\ setup # None /\ data'[r] = setup
      /\ UNCHANGED <<mfa, setup, rcu, op, code, view, used, doubled, generated>> /\ \A q \in Req \ {r} : Same(q)
    BY GetSetupEnableTyped, Zenon
<1>2. code[r] = None
    BY <1>1, Zenon DEF Clean, Claimed
<1>3. \A q \in Req \ {r} : Apart(data'[r].codes, data'[r].secret, op'[r], q)
    BY <1>1, Zenon DEF Apart, Clean, Supplied
<1>4. /\ \A q \in Req \ {r} : Claimed(q)' /\ Current(q)' /\ Supplied(q)'
      /\ setup' # None /\ setup'.secret \notin used' => Unseen(setup.codes)'
    BY <1>1, <1>2, <1>3, OthersClean
<1>5. Claimed(r)' /\ Current(r)'
    BY <1>1, <1>2 DEF Clean, Claimed, Current, At
<1>6. Supplied(r)'
  <2> SUFFICES ASSUME Supplies(r)' PROVE Supplied(r)'
      BY Zenon DEF Supplied
  <2>1. Unseen(data[r].codes)'
      BY <1>1, <1>4, Zenon DEF Unseen, Supplies
  <2>2. ASSUME NEW q \in Req \ {r}, Supplies(q)', data'[q].codes \cap data'[r].codes # {}
        PROVE  op'[q] = "enable" /\ op'[r] = "enable" /\ data'[q].secret = data'[r].secret
    <3>1. Same(q) /\ Supplies(q)
        BY <1>1, <2>2, Zenon DEF Same, Supplies
    <3> QED
        BY <1>1, <1>3, <2>2, <3>1, Zenon DEF Apart, Same
  <2> QED
      BY <1>1, <2>1, <2>2, Zenon DEF Supplied
<1> QED
    BY <1>1, <1>4, <1>5, <1>6, Zenon DEF Clean, Published

LEMMA PutSetupClean ==
    ASSUME MfaTypeOK, MfaTypeOK', HandedOut, Clean, NEW r \in Req, NEW s \in Secret, NEW b \in Batch, PutSetup(r, s, b)
    PROVE  Clean'
<1>0. LocalOK
    BY Zenon DEF MfaTypeOK
<1>1. Leave(r) /\ UNCHANGED <<mfa, rcu, used, doubled>> /\ generated \subseteq generated' /\ b \notin generated
      /\ (setup' = setup \/ setup'.codes = Codes(b))
    BY PutSetupEffect, Zenon
<1>2. Calm(r) /\ \A q \in Req \ {r} : Same(q)
    BY <1>0, <1>1, LeaveIsCalm, LeaveTyped, Zenon
<1>3. NewSetup
    BY <1>1, FreshCodes, Zenon DEF NewSetup, Unseen
<1> QED
    BY <1>1, <1>2, <1>3, OneCalm, Zenon

\* A claim that nobody relies on goes.
LEMMA ClaimExpiresClean ==
    ASSUME MfaTypeOK, Clean, NEW c \in RCode, ClaimExpires(c), excused' = {} PROVE Clean'
<1>1. /\ rcu' = rcu \ {c} /\ Claimants(c) = {}
      /\ UNCHANGED <<mfa, setup, pc, op, cred, code, view, data, plan, overran, used, doubled, generated>>
    BY Zenon DEF ClaimExpires, rest
<1>2. ASSUME NEW q \in Req PROVE Claimed(q)' /\ Current(q)' /\ Supplied(q)'
  <2>1. code[q] # c /\ (At(q, "code") => c \notin view[q].codes)
      BY <1>1, Zenon DEF Claimants
  <2>2. Claimed(q) /\ Current(q) /\ Supplied(q)
      BY Zenon DEF Clean
  <2>3. Claimed(q)'
      BY <1>1, <2>1, <2>2, Zenon DEF Claimed
  <2>4. (At(q, "code") => view[q].codes \cap used \subseteq rcu)'
      BY <1>1, <2>1, <2>2, Zenon DEF Current, At
  <2>5. Mutate(q, mfa)' = Mutate(q, mfa)
      BY <1>1, Zenon DEF Mutate, Splice, ReplaceCodes
  <2>6. Current(q)'
      BY <1>1, <2>2, <2>4, <2>5, Zenon DEF Current, At
  <2>7. Supplied(q)'
      BY <1>1, <2>2, Zenon DEF Supplied, Supplies, Unseen
  <2> QED
      BY <2>3, <2>6, <2>7, Zenon
<1>3. setup' # None /\ setup'.secret \notin used' => Unseen(setup.codes)'
    BY <1>1, Zenon DEF Clean, Unseen
<1> QED
    BY <1>1, <1>2, <1>3, Zenon DEF Clean, Published

\* The session is issued: the code is spent.
LEMMA IssueClean ==
    ASSUME MfaTypeOK, MfaTypeOK', HandedOut, Clean, NEW r \in Req, Issue(r) PROVE Clean'
<1>0. LocalOK /\ Claimed(r)
    BY Zenon DEF MfaTypeOK, Clean
<1>1. /\ Leave(r) /\ pc[r] = "issue" /\ UNCHANGED <<mfa, setup, rcu, generated>>
      /\ used' = used \cup ({cred[r], code[r]} \ {None})
      /\ doubled' = doubled \cup (({cred[r], code[r]} \ {None}) \cap used)
    BY IssueEffect, Zenon
<1>2. Calm(r) /\ \A q \in Req \ {r} : Same(q)
    BY <1>0, <1>1, LeaveIsCalm, LeaveTyped, Zenon
<1>3. cred[r] \notin RCode /\ used \subseteq used'
    BY <1>0, <1>1, MfaAssumption, Zenon DEF LocalOK
<1>4. CASE code[r] = None
  <2>1. used' \cap RCode \subseteq used /\ doubled' \cap RCode \subseteq doubled
      BY <1>1, <1>3, <1>4, Zenon
  <2> QED
      BY <1>1, <1>2, <1>3, <2>1, OneCalm, Zenon DEF NewSetup
<1>5. CASE code[r] # None
  <2> DEFINE c == code[r]
  <2>1. c \in view[r].codes /\ c \in rcu /\ c \notin used /\ c \notin mfa.codes /\ c \in RCode
      BY <1>0, <1>1, <1>5, Zenon DEF Claimed, LocalOK
  <2>2. ASSUME NEW q \in Req, code[q] = c PROVE q = r
      BY <1>0, <1>5, <2>2, Zenon DEF Claimed
  <2>3. used' \cap RCode = (used \cap RCode) \cup {c} /\ doubled' \cap RCode = {}
    <3>1. doubled \cap RCode = {}
        BY Zenon DEF Clean
    <3> QED
        BY <1>1, <1>3, <1>5, <2>1, <3>1, Zenon
  <2>4. \A q \in Req : view[q].codes \subseteq RCode /\ data[q].codes \subseteq RCode
      BY <1>0, Zenon DEF LocalOK, Factor, Draft
  <2> HIDE DEF c
  <2>5. view'[r].codes = {} /\ code'[r] = None /\ pc'[r] = "idle"
      BY <1>0, <1>1, LeaveTyped, BlankTyped, Zenon
  <2>6. ASSUME NEW codes, codes \subseteq RCode, Unseen(codes) PROVE Unseen(codes)'
    <3>1. c \notin codes
        BY <2>1, <2>6, Zenon DEF Unseen
    <3>2. codes \cap used' = {}
        BY <2>3, <2>6, <3>1, Zenon DEF Unseen
    <3>3. \A q \in Req : view'[q].codes \subseteq view[q].codes
        BY <1>2, <2>5, Zenon DEF Same
    <3> QED
        BY <1>1, <2>6, <3>2, <3>3, Zenon DEF Unseen
  <2>7. Claimed(r)' /\ Current(r)' /\ Supplied(r)'
      BY <2>5, Zenon DEF Claimed, Current, Supplied, Supplies, At
  <2>8. ASSUME NEW q \in Req \ {r} PROVE Claimed(q)' /\ Current(q)' /\ Supplied(q)'
    <3>0. Claimed(q) /\ Current(q) /\ Supplied(q) /\ Same(q)
        BY <1>2, Zenon DEF Clean
    <3>1. code[q] # None => code[q] \in RCode /\ code[q] # c /\ code[q] \notin used'
        BY <1>0, <2>2, <2>3, <3>0 DEF LocalOK, Claimed
    <3>2. \A p \in Req : code'[p] \in {None, code[p]}
        BY <1>2, <2>5, Zenon DEF Same
    <3>3. Claimed(q)'
        BY <1>1, <3>0, <3>1, <3>2 DEF Claimed, Same
    <3>4. At(q, "code")' => view'[q].codes \cap used' \subseteq rcu'
        BY <1>1, <2>1, <2>3, <2>4, <3>0 DEF Current, At, Same
    <3>5. Mutate(q, mfa)' = Mutate(q, mfa)
        BY <1>1, <3>0, SameMutate, Zenon DEF Same
    <3>6. Current(q)'
        BY <1>1, <3>0, <3>4, <3>5 DEF Current, At, Same
    <3>7. \A p \in Req \ {r} : Supplies(p)' => Supplies(p)
        BY <1>2, <1>3 DEF Supplies, Same
    <3>8. ~Supplies(r)'
        BY <2>5, Zenon DEF Supplies
    <3>9. SUFFICES ASSUME Supplies(q)' PROVE Supplied(q)'
        BY <3>3, <3>6, Zenon DEF Supplied
    <3>10. Unseen(data[q].codes)'
      <4>1. Unseen(data[q].codes)
          BY <3>0, <3>7, <3>9, Zenon DEF Supplied
      <4>2. ASSUME NEW codes, codes = data[q].codes PROVE Unseen(codes)'
          BY <2>4, <2>6, <4>1, <4>2, Zenon
      <4> QED
          BY <3>0, <4>2, Zenon DEF Unseen, Same
    <3>11. ASSUME NEW p \in Req \ {q}, Supplies(p)', data'[p].codes \cap data'[q].codes # {}
           PROVE  op'[p] = "enable" /\ op'[q] = "enable" /\ data'[p].secret = data'[q].secret
      <4>1. p # r /\ Supplies(p) /\ Supplies(q) /\ Same(p)
          BY <1>2, <3>7, <3>8, <3>9, <3>11
      <4> QED
          BY <3>0, <3>11, <4>1, Zenon DEF Supplied, Same
    <3>12. setup' # None /\ data'[q].codes \cap setup'.codes # {} => op'[q] = "enable" /\ data'[q].secret = setup'.secret
        BY <1>1, <3>0, <3>7, <3>9, Zenon DEF Supplied, Same
    <3> QED
        BY <3>3, <3>6, <3>10, <3>11, <3>12, Zenon DEF Supplied
  <2>9. setup' # None /\ setup'.secret \notin used' => Unseen(setup.codes)'
    <3> SUFFICES ASSUME setup # None, setup.secret \notin used' PROVE Unseen(setup.codes)'
        BY <1>1, Zenon
    <3>1. Unseen(setup.codes) /\ setup.codes \subseteq RCode
        BY <1>3, Zenon DEF Clean, MfaTypeOK, Draft
    <3>2. ASSUME NEW codes, codes = setup.codes PROVE Unseen(codes)'
        BY <2>6, <3>1, <3>2, Zenon
    <3> QED
        BY <1>1, <3>2, Zenon DEF Unseen
  <2>10. mfa'.codes \cap used' = {} /\ (mfa'.on \/ mfa'.codes = {})
    <3>1. mfa.codes \subseteq RCode
        BY Zenon DEF MfaTypeOK, Factor
    <3> QED
        BY <1>1, <2>1, <2>3, <3>1 DEF Clean
  <2>11. Published(used \cap RCode)'
    <3>1. c[1] \in generated
        BY <2>1, Zenon DEF HandedOut, Published
    <3> QED
        BY <1>1, <2>3, <3>1, Zenon DEF Clean, Published
  <2> QED
      BY <2>3, <2>7, <2>8, <2>9, <2>10, <2>11, Zenon DEF Clean
<1> QED
    BY <1>4, <1>5, Zenon

\* What a write that is neither overrun nor a second enrolment does: it takes codes
\* out, or it puts in the set its request supplies.
Shrinks(r) ==
    /\ mfa'.codes \subseteq mfa.codes \ {code[r]} /\ used' = used
    /\ mfa'.codes = {} \/ (mfa'.on /\ mfa'.secret = mfa.secret)
Replaces(r) ==
    /\ mfa'.on /\ mfa'.codes = data[r].codes /\ Supplies(r) /\ op[r] # "challenge"
    /\ used \subseteq used' /\ used' \subseteq used \cup {data[r].secret}
    /\ op[r] = "enable" => data[r].secret \in used'

LEMMA WriteShape ==
    ASSUME MfaTypeOK, Clean, NEW r \in Req, Write(r), excused' = {}
    PROVE  /\ plan[r] = Mutate(r, mfa) /\ (Shrinks(r) \/ Replaces(r))
           /\ op[r] = "challenge" => /\ mfa.on /\ mfa'.on /\ mfa'.secret = mfa.secret
                                     /\ mfa'.codes = mfa.codes \ {code[r]}
           /\ op[r] = "regenerate" => mfa.on /\ mfa'.on /\ mfa'.secret = mfa.secret
<1>1. /\ pc[r] = "write" /\ mfa' = plan[r] /\ r \notin overran
      /\ used' = IF op[r] = "enable" THEN used \cup {plan[r].secret} ELSE used
      /\ op[r] = "enable" => plan[r].secret \notin used
    BY WriteTyped, Zenon
<1>2. plan[r] = Mutate(r, mfa) /\ plan[r] # None
    BY <1>1, MfaAssumption DEF Clean, Current, At, MfaTypeOK
<1>3. mfa \in Factor /\ view[r] \in Factor /\ data[r] \in Draft
    BY Zenon DEF MfaTypeOK, LocalOK
<1>4. ASSUME op[r] = "challenge"
      PROVE  mfa.on /\ mfa'.on /\ mfa'.secret = mfa.secret /\ mfa'.codes = mfa.codes \ {code[r]} /\ used' = used
  <2>1. mfa' = Splice(r, mfa) /\ Splice(r, mfa) # None /\ used' = used
      BY <1>1, <1>2, <1>4, Zenon DEF Mutate
  <2> QED
      BY <1>3, <2>1, Zenon DEF Splice, HoldsChallengedSecret
<1>5. ASSUME op[r] = "regenerate"
      PROVE  mfa.on /\ mfa'.on /\ mfa'.secret = mfa.secret /\ mfa'.codes = data[r].codes /\ used' = used
  <2>1. mfa' = ReplaceCodes(r, mfa) /\ ReplaceCodes(r, mfa) # None /\ used' = used
      BY <1>1, <1>2, <1>5, Zenon DEF Mutate
  <2> QED
      BY <1>3, <2>1, Zenon DEF ReplaceCodes, Factor, Draft
<1>6. ASSUME op[r] = "enable"
      PROVE  mfa'.on /\ mfa'.codes = data[r].codes /\ used' = used \cup {data[r].secret} /\ data[r].secret \notin used
    BY <1>1, <1>2, <1>6 DEF Mutate
<1>7. ASSUME op[r] \notin {"challenge", "regenerate", "enable"} PROVE mfa'.codes = {} /\ used' = used
    BY <1>1, <1>2, <1>7, BlankTyped, Zenon DEF Mutate
<1>8. Shrinks(r) \/ Replaces(r)
    BY <1>1, <1>4, <1>5, <1>6, <1>7, Zenon DEF Shrinks, Replaces, Supplies
<1> QED
    BY <1>2, <1>4, <1>5, <1>8, Zenon

LEMMA WriteClean ==
    ASSUME MfaTypeOK, LockHeld, Clean, NEW r \in Req, Write(r), excused' = {} PROVE Clean'
<1>0. LocalOK
    BY Zenon DEF MfaTypeOK
<1>1. /\ pc[r] = "write" /\ pc'[r] = "release" /\ r \notin overran
      /\ UNCHANGED <<setup, rcu, op, code, view, data, plan, overran, generated, doubled>>
      /\ \A q \in Req \ {r} : Same(q)
    BY WriteTyped
<1>2. Shrinks(r) \/ Replaces(r)
    BY WriteShape, Zenon
<1>3. used \subseteq used' /\ used' \cap RCode = used \cap RCode
  <2>1. data[r].secret \notin RCode
      BY <1>0, MfaAssumption DEF LocalOK, Draft
  <2> QED
      BY <1>2, <2>1 DEF Shrinks, Replaces
<1>4. \A q \in Req : view[q].codes \subseteq RCode /\ data[q].codes \subseteq RCode
    BY <1>0, Zenon DEF LocalOK, Factor, Draft
<1>5. ASSUME Replaces(r)
      PROVE  Unseen(data[r].codes) /\ Supplied(r) /\ code[r] = None
    BY <1>5, Zenon DEF Replaces, Clean, Supplied, Claimed
<1>6. \A q \in Req : code[q] # None /\ code[q] \in mfa'.codes => q # r /\ code[q] \in mfa.codes
  <2>1. CASE Shrinks(r)
      BY <2>1 DEF Shrinks
  <2>2. CASE Replaces(r)
    <3>1. ASSUME NEW q \in Req, code[q] # None PROVE code[q] \in view[q].codes
        BY <3>1, Zenon DEF Clean, Claimed
    <3> QED
        BY <1>5, <2>2, <3>1, Zenon DEF Replaces, Unseen
  <2> QED
      BY <1>2, <2>1, <2>2
<1>7. ASSUME NEW q \in Req PROVE Claimed(q)'
  <2>1. Claimed(q)
      BY Zenon DEF Clean
  <2> SUFFICES ASSUME code[q] # None PROVE Claimed(q)'
      BY <1>1, Zenon DEF Claimed
  <2>2. code[q] \in (view[q].codes \cap rcu) \ used' /\ op[q] = "challenge" /\ \A p \in Req : code[p] = code[q] => p = q
      BY <1>3, <1>4, <2>1, Zenon DEF Claimed
  <2>3. /\ pc'[q] \in {"redeem", "acquire", "reread", "write", "release", "issue"}
        /\ pc'[q] \in {"release", "issue"} => code[q] \notin mfa'.codes
      BY <1>1, <1>6, <2>1, Zenon DEF Claimed, Same
  <2> QED
      BY <1>1, <2>2, <2>3, Zenon DEF Claimed
<1>8. ASSUME NEW q \in Req PROVE Current(q)'
  <2>1. Current(q)
      BY Zenon DEF Clean
  <2>2. pc'[q] = "code" => pc[q] = "code"
      BY <1>1, Zenon DEF Same
  <2>3. At(q, "code")' => view'[q].codes \cap used' \subseteq rcu'
      BY <1>1, <1>3, <1>4, <2>1, <2>2, Zenon DEF Current, At
  <2>4. \A c \in view[q].codes \cap mfa'.codes : mfa'.secret = view[q].secret
    <3>1. CASE Shrinks(r)
        BY <2>1, <3>1, Zenon DEF Shrinks, Current
    <3>2. CASE Replaces(r)
        BY <1>5, <3>2, Zenon DEF Replaces, Unseen
    <3> QED
        BY <1>2, <3>1, <3>2, Zenon
  <2>5. ~(At(q, "write")' /\ q \notin overran')
    <3> SUFFICES ASSUME pc'[q] = "write", q \notin overran PROVE FALSE
        BY <1>1, Zenon DEF At
    <3>1. q # r /\ pc[q] = "write"
        BY <1>1, Zenon DEF Same
    <3> QED
        BY <1>1, <3>1, Zenon DEF LockHeld
  <2> QED
      BY <1>1, <2>3, <2>4, <2>5, Zenon DEF Current
<1>9. ASSUME NEW codes, codes \subseteq RCode, Unseen(codes), Replaces(r) => codes \cap data[r].codes = {}
      PROVE  Unseen(codes)'
  <2>1. codes \cap mfa'.codes = {}
      BY <1>2, <1>9, Zenon DEF Shrinks, Replaces, Unseen
  <2>2. codes \cap used' = {}
      BY <1>3, <1>9, Zenon DEF Unseen
  <2> QED
      BY <1>1, <1>9, <2>1, <2>2, Zenon DEF Unseen
<1>10. \A q \in Req : Supplies(q)' => Supplies(q) /\ q # r
    BY <1>1, <1>3, Zenon DEF Supplies, Same
<1>11. ASSUME NEW q \in Req PROVE Supplied(q)'
  <2> SUFFICES ASSUME Supplies(q)' PROVE Supplied(q)'
      BY Zenon DEF Supplied
  <2>1. Supplied(q) /\ Supplies(q) /\ q # r
      BY <1>10, Zenon DEF Clean
  <2>2. Replaces(r) => data[q].codes \cap data[r].codes = {}
    <3> SUFFICES ASSUME Replaces(r), data[q].codes \cap data[r].codes # {} PROVE FALSE
        BY Zenon
    <3>1. op[q] = "enable" /\ op[r] = "enable" /\ data[q].secret = data[r].secret
        BY <1>5, <2>1, Zenon DEF Supplied, Replaces
    <3>2. data[r].secret \in used'
        BY <3>1, Zenon DEF Replaces
    <3> QED
        BY <1>1, <3>1, <3>2, Zenon DEF Supplies
  <2>3. Unseen(data[q].codes)'
    <3>1. ASSUME NEW codes, codes = data[q].codes PROVE Unseen(codes)'
      <4>1. Unseen(data[q].codes)
          BY <2>1, Zenon DEF Supplied
      <4> QED
          BY <1>4, <1>9, <2>2, <3>1, <4>1, Zenon
    <3> QED
        BY <1>1, <3>1, Zenon DEF Unseen
  <2> QED
      BY <1>1, <1>10, <2>1, <2>3, Zenon DEF Supplied
<1>12. setup' # None /\ setup'.secret \notin used' => Unseen(setup.codes)'
  <2> SUFFICES ASSUME setup # None, setup.secret \notin used' PROVE Unseen(setup.codes)'
      BY <1>1, Zenon
  <2>1. Unseen(setup.codes) /\ setup.codes \subseteq RCode
      BY <1>3, Zenon DEF Clean, MfaTypeOK, Draft
  <2>2. Replaces(r) => setup.codes \cap data[r].codes = {}
    <3> SUFFICES ASSUME Replaces(r), data[r].codes \cap setup.codes # {} PROVE FALSE
        BY Zenon
    <3>1. op[r] = "enable" /\ data[r].secret = setup.secret
        BY <1>5, Zenon DEF Supplied, Replaces
    <3> QED
        BY <3>1, Zenon DEF Replaces
  <2>3. ASSUME NEW codes, codes = setup.codes PROVE Unseen(codes)'
      BY <1>9, <2>1, <2>2, <2>3, Zenon
  <2> QED
      BY <1>1, <2>3, Zenon DEF Unseen
<1>13. (mfa'.on \/ mfa'.codes = {}) /\ mfa'.codes \cap used' = {}
  <2>1. mfa.codes \subseteq RCode /\ mfa.codes \cap used = {}
      BY Zenon DEF Clean, MfaTypeOK, Factor
  <2>2. CASE Shrinks(r)
      BY <2>1, <2>2, Zenon DEF Shrinks
  <2>3. CASE Replaces(r)
      BY <1>3, <1>4, <1>5, <2>3, Zenon DEF Replaces, Unseen
  <2> QED
      BY <1>2, <2>2, <2>3, Zenon
<1>14. Published(used \cap RCode)' /\ doubled' \cap RCode = {}
    BY <1>1, <1>3, Zenon DEF Clean, Published
<1> QED
    BY <1>7, <1>8, <1>11, <1>12, <1>13, <1>14, Zenon DEF Clean

-----------------------------------------------------------------------------
(* The invariant holds.                                                    *)

LEMMA ExcusedGrows == ASSUME MfaTypeOK, [Next]_vars PROVE excused \subseteq excused'
<1>1. ASSUME NEW r \in Req, ReqNext(r) PROVE Write(r) \/ UNCHANGED excused
  <2>1. CASE (\E t \in Temp, p \in BOOLEAN : Challenge(r, t, p)) \/ ChallengeSteps(r)
      BY <2>1, Zenon DEF Challenge, ChallengeSteps, ChallengeFetch, AcceptTotp, AcceptRecoveryCode, RedeemTemp, Issue, past
  <2>2. CASE (\E c \in Totp : Gate(r, c)) \/ Acquire(r) \/ Reread(r) \/ Release(r) \/ GetSetup(r) \/ TakeSetup(r)
      BY <2>2, Zenon DEF Gate, Acquire, Reread, Release, GetSetup, TakeSetup, past
  <2>3. CASE Setup(r) \/ VerifyAndEnable(r) \/ Disable(r) \/ ResetMfa(r) \/ (\E b \in Batch : RegenerateRecoveryCodes(r, b))
      BY <2>3, Zenon DEF Setup, VerifyAndEnable, Disable, ResetMfa, RegenerateRecoveryCodes, Manage
  <2>4. CASE (\E s \in Secret, b \in Batch : PutSetup(r, s, b)) \/ Revoke(r) \/ BumpEpoch(r) \/ Fail(r) \/ FailLocked(r)
             \/ Crash(r)
      BY <2>4, Zenon DEF PutSetup, Revoke, BumpEpoch, Fail, FailLocked, Crash, past
  <2> QED
      BY <1>1, <2>1, <2>2, <2>3, <2>4, Zenon DEF ReqNext, ChallengeDashboard, ChallengePlatform, Transition
<1>2. ASSUME NEW r \in Req, Write(r) PROVE excused \subseteq excused'
    BY <1>2, WriteTyped, Zenon
<1>3. ASSUME NEW c \in RCode, ClaimExpires(c) PROVE excused \subseteq excused'
    BY <1>3, Zenon DEF ClaimExpires
<1>4. CASE PasswordLogin \/ LockExpires \/ SetupExpires \/ (\E t \in Temp : IssueTemp(t)) \/ UNCHANGED vars
    BY <1>4, Zenon DEF PasswordLogin, LockExpires, SetupExpires, IssueTemp, vars, past
<1> QED
    BY <1>1, <1>2, <1>3, <1>4, Zenon DEF Next

LEMMA CleanStep == ASSUME Ground, Ground', Clean, [Next]_vars, excused' = {} PROVE Clean'
<1>0. MfaTypeOK /\ MfaTypeOK' /\ HandedOut /\ LockHeld
    BY Zenon DEF Ground
<1>1. ASSUME NEW r \in Req, ChallengeSteps(r) PROVE Clean'
    BY <1>0, <1>1, FetchClean, ProceedClean, RecoveryCodeClean, IssueClean, Zenon DEF ChallengeSteps
<1>2. ASSUME NEW r \in Req, Transition(r) PROVE Clean'
    BY <1>0, <1>2, ProceedClean, ReadsClean, WriteClean, LeaveClean, Zenon DEF Transition
<1>3. ASSUME NEW r \in Req, GetSetup(r) PROVE Clean'
  <2>1. op[r] \in {"setup", "enable"}
      BY <1>0, <1>3, Zenon DEF MfaTypeOK, OnRoute, GetSetup, At
  <2> QED
      BY <1>0, <1>3, <2>1, ProceedClean, LeaveClean, GetSetupEnableClean, Zenon
<1>4. ASSUME NEW r \in Req, ReqNext(r) PROVE Clean'
  <2>1. CASE (\E t \in Temp, p \in BOOLEAN : Challenge(r, t, p)) \/ Revoke(r)
      BY <1>0, <2>1, ReadsClean, Zenon
  <2>2. CASE (\E c \in Totp : Gate(r, c)) \/ TakeSetup(r)
      BY <1>0, <2>2, ProceedClean, Zenon
  <2>3. CASE Setup(r) \/ VerifyAndEnable(r) \/ Disable(r) \/ ResetMfa(r) \/ (\E b \in Batch : RegenerateRecoveryCodes(r, b))
      BY <1>0, <2>3, BeginsClean, Zenon
  <2>4. CASE \E s \in Secret, b \in Batch : PutSetup(r, s, b)
      BY <1>0, <2>4, PutSetupClean, Zenon
  <2>5. CASE BumpEpoch(r) \/ Fail(r) \/ FailLocked(r) \/ Crash(r)
      BY <1>0, <2>5, LeaveClean, Zenon
  <2> QED
      BY <1>1, <1>2, <1>3, <1>4, <2>1, <2>2, <2>3, <2>4, <2>5, Zenon DEF ReqNext, ChallengeDashboard, ChallengePlatform
<1>5. ASSUME NEW c \in RCode, ClaimExpires(c) PROVE Clean'
    BY <1>0, <1>5, ClaimExpiresClean, Zenon
<1>6. CASE PasswordLogin \/ LockExpires \/ SetupExpires \/ (\E t \in Temp : IssueTemp(t)) \/ UNCHANGED vars
    BY <1>0, <1>6, WorldClean, Zenon
<1> QED
    BY <1>4, <1>5, <1>6, Zenon DEF Next

LEMMA MfaInitial == Init => MfaInv
<1> SUFFICES ASSUME Init PROVE MfaInv
    BY Zenon
<1>1. MfaTypeOK /\ HandedOut /\ LockHeld
    BY GroundInit, Zenon DEF Ground
<1>2. SessionInv /\ TempInv /\ TotpInv
    BY DEF Init, SessionInv, TempInv, TotpInv
<1>3. mfa.on \/ mfa.codes = {}
  <2>1. PICK start \in Start, secret \in Secret, b \in Batch :
           mfa = IF start[2] = "off" THEN Off
                 ELSE [on |-> TRUE, secret |-> secret, key |-> start[2], codes |-> Codes(b)]
      BY Zenon DEF Init
  <2> QED
      BY <2>1, BlankTyped
<1>4. ASSUME NEW r \in Req PROVE Claimed(r) /\ Current(r) /\ Supplied(r)
  <2>1. pc[r] = "idle" /\ code[r] = None /\ view[r].codes = {}
      BY BlankTyped, Zenon DEF Init
  <2> QED
      BY <2>1 DEF Claimed, Current, Supplied, Supplies, At
<1>5. setup = None /\ used = {} /\ doubled = {}
    BY Zenon DEF Init
<1>6. Clean
    BY <1>3, <1>4, <1>5, Zenon DEF Clean, Published
<1> QED
    BY <1>1, <1>2, <1>6, Zenon DEF MfaInv, Basics

LEMMA MfaStep == MfaInv /\ [Next]_vars => MfaInv'
<1> SUFFICES ASSUME MfaInv, [Next]_vars PROVE MfaInv'
    BY Zenon
<1>1. Ground /\ MfaTypeOK /\ SessionInv /\ TempInv /\ TotpInv /\ (excused = {} => Clean)
    BY Zenon DEF MfaInv, Basics, Ground
<1>2. Ground'
    BY <1>1, GroundStep, Zenon
<1>3. SessionInv' /\ TempInv' /\ TotpInv'
    BY <1>1, SessionStep, TempStep, TotpStep, Zenon
<1>4. excused' = {} => Clean'
  <2> SUFFICES ASSUME excused' = {} PROVE Clean'
      BY Zenon
  <2>1. excused = {}
      BY <1>1, ExcusedGrows, Zenon
  <2> QED
      BY <1>1, <1>2, <2>1, CleanStep, Zenon
<1> QED
    BY <1>2, <1>3, <1>4, Zenon DEF MfaInv, Basics, Ground

\* The inductive invariant holds in every reachable state.
THEOREM MfaInvariance == Spec => []MfaInv
    BY MfaInitial, MfaStep, PTL DEF Spec

-----------------------------------------------------------------------------
(* The properties.                                                         *)

\* No TOTP code is accepted twice, by a challenge or by a management operation:
\* a code that was accepted is marked, and a marked code does not verify.
THEOREM TotpCodesAcceptedOnce == Spec => []TotpAcceptedOnce
<1>1. MfaInv => TotpAcceptedOnce
    BY Zenon DEF MfaInv, Basics, TotpInv, TotpAcceptedOnce
<1> QED
    BY <1>1, MfaInvariance, PTL

\* While no lock is overrun, no claim is lost and no secret is enrolled twice, a
\* recovery code opens one session, for any number of concurrent challenges.
THEOREM RecoveryCodesOpenOnce == Spec => []RecoveryCodeOpensOnce
<1>1. MfaInv => RecoveryCodeOpensOnce
    BY Zenon DEF MfaInv, Clean, RecoveryCodeOpensOnce
<1> QED
    BY <1>1, MfaInvariance, PTL

\* A request that reaches the bump of the epoch has revoked every session older
\* than its change.
THEOREM ChangesEndOlderSessions == Spec => ChangeEndsOlderSessions
<1>1. MfaInv => \A r \in Req : BumpEpoch(r) => r \notin outlives
    BY Zenon DEF MfaInv, Basics, SessionInv, BumpEpoch, At
<1> QED
    BY <1>1, MfaInvariance, PTL DEF ChangeEndsOlderSessions

\* The temp tokens of the challenge implement SingleUse: a token in the store or
\* redeemed was handed out, so it is never issued again.
THEOREM TempTokensAreSingleUse == Spec => TempSpec
<1>1. Init => TempIsSingleUse!Init
    BY Zenon DEF Init, TempIsSingleUse!Init
<1>2. ASSUME MfaInv, [Next]_vars PROVE [TempIsSingleUse!Next]_<<temp, redeemed>>
  <2>1. MfaTypeOK /\ TempInv
      BY <1>2, Zenon DEF MfaInv, Basics
  <2>2. ASSUME NEW t \in Temp \ generated, temp' = temp \cup {t}, UNCHANGED redeemed
        PROVE  TempIsSingleUse!Issue(t, temp \cup redeemed)
      BY <2>1, <2>2, Zenon DEF TempInv, TempIsSingleUse!Issue
  <2>3. ASSUME NEW t \in temp \cap Temp, temp' = temp \ {t}, redeemed' = redeemed \cup {t}
        PROVE  TempIsSingleUse!Redeem(t)
      BY <2>3, Zenon DEF TempIsSingleUse!Redeem
  <2> QED
      BY <1>2, <2>1, <2>2, <2>3, TempMoves, Zenon DEF TempIsSingleUse!Next
<1> QED
    BY <1>1, <1>2, MfaInvariance, PTL DEF Spec, TempSpec, TempIsSingleUse!Spec

\* Only a write changes the record.
LEMMA OnlyWrites == ASSUME MfaTypeOK, [Next]_vars PROVE UNCHANGED mfa \/ \E r \in Req : Write(r)
<1>1. ASSUME NEW r \in Req, ReqNext(r) PROVE Write(r) \/ UNCHANGED mfa
  <2>1. CASE (\E t \in Temp, p \in BOOLEAN : Challenge(r, t, p)) \/ ChallengeSteps(r)
      BY <2>1, Zenon DEF Challenge, ChallengeSteps, ChallengeFetch, AcceptTotp, AcceptRecoveryCode, RedeemTemp, Issue
  <2>2. CASE (\E c \in Totp : Gate(r, c)) \/ Acquire(r) \/ Reread(r) \/ Release(r) \/ GetSetup(r) \/ TakeSetup(r)
      BY <2>2, Zenon DEF Gate, Acquire, Reread, Release, GetSetup, TakeSetup
  <2>3. CASE Setup(r) \/ VerifyAndEnable(r) \/ Disable(r) \/ ResetMfa(r) \/ (\E b \in Batch : RegenerateRecoveryCodes(r, b))
      BY <2>3, Zenon DEF Setup, VerifyAndEnable, Disable, ResetMfa, RegenerateRecoveryCodes, Manage
  <2>4. CASE (\E s \in Secret, b \in Batch : PutSetup(r, s, b)) \/ Revoke(r) \/ BumpEpoch(r) \/ Fail(r) \/ FailLocked(r)
             \/ Crash(r)
      BY <2>4, Zenon DEF PutSetup, Revoke, BumpEpoch, Fail, FailLocked, Crash
  <2> QED
      BY <1>1, <2>1, <2>2, <2>3, <2>4, Zenon DEF ReqNext, ChallengeDashboard, ChallengePlatform, Transition
<1>2. CASE \/ PasswordLogin \/ LockExpires \/ SetupExpires \/ UNCHANGED vars
           \/ \E t \in Temp : IssueTemp(t)
           \/ \E c \in RCode : ClaimExpires(c)
    BY <1>2, Zenon DEF PasswordLogin, LockExpires, SetupExpires, IssueTemp, ClaimExpires, vars
<1> QED
    BY <1>1, <1>2, Zenon DEF Next

\* The write of a challenge or of a regenerate lands on the factor it was computed
\* from: the holder of the lock wrote what the closure makes of the present record.
THEOREM ChallengesWriteOnlyTheirCode == Spec => ChallengeWritesOnlyItsCode
<1> DEFINE A == \A r \in Req :
        (At(r, "write") /\ mfa' # mfa /\ excused' = {} /\ pc'[r] = "release")
            => /\ op[r] \in {"challenge", "regenerate"} =>
                      mfa.on /\ mfa'.on /\ mfa'.secret = mfa.secret
               /\ op[r] = "challenge" => mfa'.codes = mfa.codes \ {code[r]}
<1>1. ASSUME MfaInv, [Next]_vars PROVE A
  <2> SUFFICES ASSUME NEW r \in Req, At(r, "write"), mfa' # mfa, excused' = {}, pc'[r] = "release"
               PROVE  /\ op[r] \in {"challenge", "regenerate"} => mfa.on /\ mfa'.on /\ mfa'.secret = mfa.secret
                      /\ op[r] = "challenge" => mfa'.codes = mfa.codes \ {code[r]}
      BY Zenon
  <2>1. MfaTypeOK /\ (excused = {} => Clean)
      BY <1>1, Zenon DEF MfaInv, Basics
  <2>2. Clean
      BY <1>1, <2>1, ExcusedGrows, Zenon
  <2>3. PICK q \in Req : Write(q)
      BY <1>1, <2>1, OnlyWrites, Zenon
  <2>4. q = r
    <3>1. \A p \in Req \ {q} : Same(p)
        BY <2>1, <2>3, WriteTyped, Zenon
    <3> QED
        BY <3>1, Zenon DEF Same, At
  <2> QED
      BY <2>1, <2>2, <2>3, <2>4, WriteShape
<1>2. ASSUME MfaInv, [Next]_vars PROVE [A]_vars
    BY <1>1, <1>2, Zenon
<1> QED
    BY <1>2, MfaInvariance, PTL DEF Spec, ChallengeWritesOnlyItsCode
==============================================================================
