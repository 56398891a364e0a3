------------------------------- MODULE Lockout -------------------------------
(***************************************************************************)
(* BruteForceService and the doors it guards: login, change_password, the  *)
(* e-mail change, the MFA challenge and the platform login all ask is_     *)
(* locked, judge the secret, and then count the failure or clear the       *)
(* counter, with awaits in between.  login also tells the host's           *)
(* on_lockout hook, which it decides by reading the lock once more.        *)
(***************************************************************************)
EXTENDS Integers, FiniteSets

CONSTANTS
    Id,           \* hashed identifiers, one counter each
    LoginId,      \* the ones the dashboard login uses: it has the hook
    Attempt,      \* attempts that may be in flight at once
    MaxAttempts,  \* failures that close the window
    Window        \* its length, from the first failure

ASSUME LockoutAssumption ==
    /\ LoginId \subseteq Id
    /\ IsFiniteSet(Attempt)
    /\ MaxAttempts \in Nat \ {0}
    /\ Window \in Nat \ {0}

VARIABLES
    fails,      \* lf:id, 0 when there is no such key
    ttl,        \* its remaining lifetime
    step,       \* where an attempt is
    ident,      \* the identifier it was made under
    announced,  \* history: identifiers whose present lock the hook was told of
    silent      \* history: ... and whose announcing read failed

lockoutVars == <<fails, ttl, step, ident, announced, silent>>

LockoutTypeOK ==
    /\ fails \in [Id -> Nat]
    /\ ttl \in [Id -> 0..Window]
    /\ step \in [Attempt -> {"idle", "judging", "reading"}]
    /\ ident \in [Attempt -> Id]
    /\ announced \in SUBSET Id
    /\ silent \in SUBSET Id

LockoutInit ==
    /\ fails = [i \in Id |-> 0]
    /\ ttl = [i \in Id |-> 0]
    /\ step = [a \in Attempt |-> "idle"]
    /\ ident \in [Attempt -> Id]
    /\ announced = {}
    /\ silent = {}

Locked(i) == fails[i] >= MaxAttempts
Judging(i) == {a \in Attempt : step[a] = "judging" /\ ident[a] = i}
Advance(a, p) == step' = [step EXCEPT ![a] = p]

-----------------------------------------------------------------------------
(* The store.                                                              *)

\* Mutant: the counter is incremented and the process dies before the EXPIRE.
IncrementNoExpire(i) ==
    /\ fails' = [fails EXCEPT ![i] = @ + 1]
    /\ UNCHANGED ttl

\* brute_force_incr.lua: the window opens with the first failure and stays.
Increment(i) ==
    /\ fails' = [fails EXCEPT ![i] = @ + 1]
    /\ ttl' = [ttl EXCEPT ![i] = IF fails[i] = 0 THEN Window ELSE @]

\* DEL lf:id ends whatever lock there was.
Clear(i) ==
    /\ fails' = [fails EXCEPT ![i] = 0]
    /\ ttl' = [ttl EXCEPT ![i] = 0]
    /\ announced' = announced \ {i}
    /\ silent' = silent \ {i}

-----------------------------------------------------------------------------
(* An attempt.                                                             *)

\* Mutant: no gate in front of the password check.
EnterUngated(a, i) ==
    /\ step[a] = "idle"
    /\ Advance(a, "judging")
    /\ ident' = [ident EXCEPT ![a] = i]
    /\ UNCHANGED <<fails, ttl, announced, silent>>

\* assert_not_locked lets the attempt through; a locked identifier is refused
\* with nothing changed.
Enter(a, i) ==
    /\ step[a] = "idle"
    /\ ~Locked(i)
    /\ Advance(a, "judging")
    /\ ident' = [ident EXCEPT ![a] = i]
    /\ UNCHANGED <<fails, ttl, announced, silent>>

\* The secret was wrong, the account unknown, or it has no local password.
Reject(a) ==
    /\ step[a] = "judging"
    /\ Increment(ident[a])
    /\ Advance(a, IF ident[a] \in LoginId THEN "reading" ELSE "idle")
    /\ UNCHANGED <<ident, announced, silent>>

\* fire_lockout_if_crossed.
Announce(a) ==
    /\ step[a] = "reading"
    /\ announced' = IF Locked(ident[a]) THEN announced \cup {ident[a]} ELSE announced
    /\ Advance(a, "idle")
    /\ UNCHANGED <<fails, ttl, ident, silent>>

\* The store cannot be read for the hook: it is logged, and nobody is told.
AnnounceFails(a) ==
    /\ step[a] = "reading"
    /\ silent' = IF Locked(ident[a]) THEN silent \cup {ident[a]} ELSE silent
    /\ Advance(a, "idle")
    /\ UNCHANGED <<fails, ttl, ident, announced>>

\* The secret was right: the counter goes.
Accept(a) ==
    /\ step[a] = "judging"
    /\ Clear(ident[a])
    /\ Advance(a, "idle")
    /\ UNCHANGED ident

\* The secret was right and the account is blocked or unverified, a hook refused,
\* or a call failed: the counter is left alone.
TurnAway(a) ==
    /\ step[a] = "judging"
    /\ Advance(a, "idle")
    /\ UNCHANGED <<fails, ttl, ident, announced, silent>>

\* unlock_account, by the host.
Unlock(i) ==
    /\ fails[i] > 0
    /\ Clear(i)
    /\ UNCHANGED <<step, ident>>

\* One time unit; a key whose lifetime ends is gone, and its lock with it.
LockoutTick ==
    /\ \E i \in Id : ttl[i] > 0
    /\ ttl' = [i \in Id |-> IF ttl[i] > 0 THEN ttl[i] - 1 ELSE 0]
    /\ fails' = [i \in Id |-> IF ttl[i] = 1 THEN 0 ELSE fails[i]]
    /\ announced' = {i \in announced : ttl[i] # 1}
    /\ silent' = {i \in silent : ttl[i] # 1}
    /\ UNCHANGED <<step, ident>>

LockoutNext ==
    \/ \E a \in Attempt, i \in Id : Enter(a, i)
    \/ \E a \in Attempt :
          Reject(a) \/ Announce(a) \/ AnnounceFails(a) \/ Accept(a) \/ TurnAway(a)
    \/ \E i \in Id : Unlock(i)
    \/ LockoutTick

LockoutSpec == LockoutInit /\ [][LockoutNext]_lockoutVars

\* Time passes.
FairSpec == LockoutSpec /\ WF_lockoutVars(LockoutTick)

-----------------------------------------------------------------------------
(* Properties.                                                             *)

\* The guess budget: however attempts race between the gate and the counter, an
\* identifier never sees more failures in one window than the limit and the
\* other attempts that can be in flight.
GuessBudget ==
    \A i \in Id : fails[i] <= MaxAttempts - 1 + Cardinality(Attempt)

\* A lock in force was announced to on_lockout, or the attempt that will do so
\* is about to read it, or its read failed: reading after recording, the attempt
\* that crosses the threshold never leaves a lock nobody heard of.
LockIsAnnounced ==
    \A i \in LoginId : Locked(i) =>
        \/ i \in announced \cup silent
        \/ \E a \in Attempt : step[a] = "reading" /\ ident[a] = i

\* A counter never outlives its window, so no sequence of attempts locks an
\* identifier for good: the expiry is set in the same script as the increment.
LockEnds ==
    \A i \in Id : Locked(i) ~> ~Locked(i)
=============================================================================
