------------------------------ MODULE Throttle ------------------------------
(***************************************************************************)
(* What keeps passwords and second factors from being tried without end:   *)
(* auth-rate-limit.service.ts (counters with a window in Redis, per        *)
(* account and per address), the lock-out of mfa.service.ts (a counter and *)
(* a lock per account) and the failedLoginCount and lockedUntil columns    *)
(* that login and reauthenticate read, and write back, in auth.service.ts. *)
(*                                                                         *)
(* Requests are the slots in which the server handles HTTP requests, one   *)
(* after the other; a step is one Redis command or one database statement. *)
(* TOTP codes, recovery codes and pending setups are counted apart, in the *)
(* same way: "mfa" is one of the three.                                    *)
(* Time is left out: a window, a lock or a lock-out may be over whenever   *)
(* nobody prevents it.  What a verified factor does is left to Sessions.   *)
(***************************************************************************)
EXTENDS Integers, Sequences, FiniteSets

CONSTANTS
    Requests,
    Accounts,    \* an account: its email, its user id
    Addresses,   \* client addresses, and Nobody if one may be unknown
    Nobody,      \* no account, no address
    Offered,     \* bound: the kinds of requests that come in, first to last
    Limits,      \* the attempts each scope allows, and "password"
    Faults       \* the failures the environment may produce

(* "crash": the process dies, or a command fails and takes the handler with *)
(* it.  The slot of such a request is not used again.                       *)
FaultKinds == {"crash"}

(* "verify" and "reverify" are POST /auth/mfa/verify of a login and of a    *)
(* reauthentication.                                                        *)
Kinds == {"login", "reauth", "verify", "reverify"}

RateScopes == {"login", "reauth"}

Scopes == RateScopes \cup {"mfa"}

ASSUME ThrottleAssumption ==
    /\ Limits \in [Scopes \cup {"password"} -> Nat \ {0}]
    /\ IsFiniteSet(Requests)
    /\ Nobody \notin Accounts
    /\ Offered \in Seq(SUBSET Kinds)
    /\ Accounts \cap Addresses = {}
    /\ Faults \subseteq FaultKinds

(* How many requests come in.                                              *)
Arrivals == Len(Offered)

Actors == Accounts \cup (Addresses \ {Nobody})

VARIABLES
    count,      \* the counters in Redis: a key that does not exist is 0
    ttl,        \* whether the key of a counter expires
    barred,     \* the mfa_verify lock of each account
    failed,     \* failedLoginCount
    locked,     \* lockedUntil is in the future
    pc,         \* the next step of each slot's handler
    kind,       \* what the client asks for
    account,    \* for which account
    address,    \* from which address
    snapshot,   \* the failedLoginCount the handler read
    todo,       \* the counters the handler has yet to read or increment
    dead,       \* the slots whose handler was cut off
    arrived,    \* how many requests came in
    tried,      \* history: wrong guesses per counter since it was last reset
    wrong       \* history: wrong passwords since the account was last at rest

redis    == <<count, ttl, barred>>
database == <<failed, locked>>
request  == <<kind, account, address>>
history  == <<tried, wrong>>
vars == <<redis, database, pc, request, snapshot, todo, dead, arrived, history>>

-----------------------------------------------------------------------------
Labels == {"start", "assert", "read", "fail", "reset", "lock", "count", "expire",
           "clear", "mfaCount", "mfaExpire", "mfaLock", "mfaForget", "mfaClear"}

RateScope(k) == IF k = "login" THEN "login" ELSE "reauth"

(* getLoginActors and getReauthActors: the address may be unknown.          *)
RateActors(r) ==
    IF address[r] = Nobody THEN <<account[r]>> ELSE <<account[r], address[r]>>

RateLimited(k) == k # "verify"

(* The counters a wrong guess of r counts against.                          *)
Against(r) ==
    (IF RateLimited(kind[r])
     THEN {<<RateScope(kind[r]), a>> : a \in {account[r], address[r]} \ {Nobody}}
     ELSE {})
    \cup (IF kind[r] \in {"verify", "reverify"} THEN {<<"mfa", account[r]>>} ELSE {})

Init ==
    /\ count = [s \in Scopes |-> [a \in Actors |-> 0]]
    /\ ttl = [s \in Scopes |-> [a \in Actors |-> FALSE]]
    /\ barred = [a \in Accounts |-> FALSE]
    /\ failed = [a \in Accounts |-> 0]
    /\ locked = [a \in Accounts |-> FALSE]
    /\ pc = [r \in Requests |-> "start"]
    /\ kind = [r \in Requests |-> "login"]
    /\ account = [r \in Requests |-> Nobody]
    /\ address = [r \in Requests |-> Nobody]
    /\ snapshot = [r \in Requests |-> 0]
    /\ todo = [r \in Requests |-> <<>>]
    /\ dead = {}
    /\ arrived = 0
    /\ tried = [s \in Scopes |-> [a \in Actors |-> 0]]
    /\ wrong = [a \in Accounts |-> 0]

-----------------------------------------------------------------------------
(* Moves of a handler and the Redis commands it sends.                      *)

Goto(r, label) == pc' = [pc EXCEPT ![r] = label]

(* The handler ends and the slot is free.                                   *)
End(r) ==
    /\ Goto(r, "start")
    /\ kind' = [kind EXCEPT ![r] = "login"]
    /\ account' = [account EXCEPT ![r] = Nobody]
    /\ address' = [address EXCEPT ![r] = Nobody]

Move(r, label) == Goto(r, label) /\ UNCHANGED request

Do(r, actors) == todo' = [todo EXCEPT ![r] = actors]

Incr(s, a) == count' = [count EXCEPT ![s][a] = @ + 1]

(* EXPIRE does nothing to a key that is not there.                          *)
Expire(s, a) == ttl' = [ttl EXCEPT ![s][a] = count[s][a] # 0]

Del(s, actors) ==
    /\ count' = [count EXCEPT ![s] = [a \in Actors |-> IF a \in actors THEN 0 ELSE @[a]]]
    /\ ttl' = [ttl EXCEPT ![s] = [a \in Actors |-> a \notin actors /\ @[a]]]
    /\ tried' = [tried EXCEPT ![s] = [a \in Actors |-> IF a \in actors THEN 0 ELSE @[a]]]

GuessedWrong(r) ==
    tried' = [s \in Scopes |-> [a \in Actors |->
                 tried[s][a] + (IF <<s, a>> \in Against(r) THEN 1 ELSE 0)]]

Arrive(r) ==
    /\ pc[r] = "start" /\ r \notin dead
    /\ arrived < Arrivals
    /\ arrived' = arrived + 1
    /\ \E k \in Offered[arrived + 1], a \in Accounts, i \in Addresses :
          /\ kind' = [kind EXCEPT ![r] = k]
          /\ account' = [account EXCEPT ![r] = a]
          /\ address' = [address EXCEPT ![r] = i]
          /\ IF RateLimited(k)
             THEN Goto(r, "assert") /\ Do(r, IF i = Nobody THEN <<a>> ELSE <<a, i>>)
             ELSE Goto(r, "lock") /\ UNCHANGED todo
    /\ UNCHANGED <<redis, database, snapshot, dead, history>>

-----------------------------------------------------------------------------
(* auth-rate-limit.service.ts.                                              *)

\* Mutant: a counter at its limit still lets a request pass.
BlockedLate(s, a) == count[s][a] > Limits[s]

Blocked(s, a) == count[s][a] >= Limits[s]

(* assertScopeAllowed: one GET per actor, and a 429 for the first that is   *)
(* at its limit.                                                            *)
Assert(r) ==
    /\ pc[r] = "assert"
    /\ IF Blocked(RateScope(kind[r]), Head(todo[r]))
       THEN End(r) /\ Do(r, <<>>)
       ELSE /\ Do(r, Tail(todo[r]))
            /\ IF Len(todo[r]) > 1 THEN UNCHANGED <<pc, request>>
               ELSE Move(r, IF kind[r] = "reverify" THEN "lock" ELSE "read")
    /\ UNCHANGED <<redis, database, snapshot, dead, arrived, history>>

(* The loop of registerFailure moves on.                                    *)
NextActor(r) ==
    /\ Do(r, Tail(todo[r]))
    /\ IF Len(todo[r]) > 1 THEN Move(r, "count") ELSE End(r)

\* Mutant: the window starts with the first attempt beyond the limit.
NeedsExpireLate(n, limit) == n > limit

NeedsExpire(n, limit) == n = 1 \/ n > limit

Count(r) ==
    /\ pc[r] = "count"
    /\ LET s == RateScope(kind[r])
           a == Head(todo[r]) IN
          /\ Incr(s, a)
          /\ IF NeedsExpire(count[s][a] + 1, Limits[s])
             THEN Move(r, "expire") /\ UNCHANGED todo
             ELSE NextActor(r)
    /\ UNCHANGED <<ttl, barred, database, snapshot, dead, arrived, history>>

\* Mutant: the window is not set.
ExpireRateSkipped(r) ==
    /\ pc[r] = "expire"
    /\ NextActor(r)
    /\ UNCHANGED <<redis, database, snapshot, dead, arrived, history>>

ExpireRate(r) ==
    /\ pc[r] = "expire"
    /\ Expire(RateScope(kind[r]), Head(todo[r]))
    /\ NextActor(r)
    /\ UNCHANGED <<count, barred, database, snapshot, dead, arrived, history>>

(* clearScope: one DEL for all actors.                                      *)
Clear(r) ==
    /\ pc[r] = "clear"
    /\ Del(RateScope(kind[r]), {account[r], address[r]} \ {Nobody})
    /\ End(r)
    /\ UNCHANGED <<barred, database, snapshot, todo, dead, arrived, wrong>>

-----------------------------------------------------------------------------
(* login and reauthenticate.                                                *)

(* The account is read and the password verified against it.  An account    *)
(* that is missing, not active or locked out is a failure like a wrong      *)
(* password; a password does not reauthenticate an account that has a       *)
(* second factor.                                                           *)
Read(r) ==
    /\ pc[r] = "read"
    /\ \/ /\ Move(r, "count") /\ Do(r, RateActors(r))
          /\ UNCHANGED <<snapshot, history>>
       \/ /\ ~locked[account[r]] /\ kind[r] = "reauth"
          /\ End(r)
          /\ UNCHANGED <<snapshot, todo, history>>
       \/ /\ ~locked[account[r]]
          /\ Move(r, "fail")
          /\ snapshot' = [snapshot EXCEPT ![r] = failed[account[r]]]
          /\ GuessedWrong(r)
          /\ wrong' = [wrong EXCEPT ![account[r]] =
                          IF @ < Limits["password"] THEN @ + 1 ELSE @]
          /\ UNCHANGED todo
       \/ /\ ~locked[account[r]]
          /\ Move(r, "reset")
          /\ UNCHANGED <<snapshot, todo, history>>
    /\ UNCHANGED <<redis, database, dead, arrived>>

(* registerFailedLogin, with the count read before.                         *)
Fail(r) ==
    /\ pc[r] = "fail"
    /\ LET a == account[r] IN
       IF snapshot[r] + 1 >= Limits["password"]
       THEN /\ failed' = [failed EXCEPT ![a] = 0]
            /\ locked' = [locked EXCEPT ![a] = TRUE]
       ELSE /\ failed' = [failed EXCEPT ![a] = snapshot[r] + 1]
            /\ UNCHANGED locked
    /\ Move(r, "count")
    /\ Do(r, RateActors(r))
    /\ snapshot' = [snapshot EXCEPT ![r] = 0]
    /\ UNCHANGED <<redis, dead, arrived, history>>

(* No handler holds a failedLoginCount of a that it is about to write back. *)
AtRest(a) == \A q \in Requests : ~(pc[q] = "fail" /\ account[q] = a)

Rested(a) == wrong' = [wrong EXCEPT ![a] = IF AtRest(a) THEN 0 ELSE @]

\* Mutant: a right password lifts the lock and leaves the count.
ResetFailedLoginHalf(r) ==
    /\ pc[r] = "reset"
    /\ locked' = [locked EXCEPT ![account[r]] = FALSE]
    /\ Rested(account[r])
    /\ Move(r, "clear")
    /\ UNCHANGED <<redis, failed, snapshot, todo, dead, arrived, tried>>

ResetFailedLogin(r) ==
    /\ pc[r] = "reset"
    /\ failed' = [failed EXCEPT ![account[r]] = 0]
    /\ locked' = [locked EXCEPT ![account[r]] = FALSE]
    /\ Rested(account[r])
    /\ Move(r, "clear")
    /\ UNCHANGED <<redis, snapshot, todo, dead, arrived, tried>>

-----------------------------------------------------------------------------
(* The second factor: verifyEncryptedSecret and consumeRecoveryCode with    *)
(* assertVerificationAllowed and registerVerificationResult.                *)

(* A verification that failed counts as a failed reauthentication, if it    *)
(* was one.                                                                 *)
MfaFailed(r) ==
    IF kind[r] = "reverify" THEN Move(r, "count") /\ Do(r, RateActors(r))
                            ELSE End(r) /\ UNCHANGED todo

(* GET of the lock, then the code is compared.  The account may have no     *)
(* such factor.                                                             *)
CheckLock(r) ==
    /\ pc[r] = "lock"
    /\ \/ MfaFailed(r) /\ UNCHANGED tried
       \/ barred[account[r]] /\ End(r) /\ UNCHANGED <<todo, tried>>
       \/ ~barred[account[r]] /\ Move(r, "mfaClear") /\ UNCHANGED <<todo, tried>>
       \/ /\ ~barred[account[r]]
          /\ Move(r, "mfaCount") /\ UNCHANGED todo
          /\ GuessedWrong(r)
    /\ UNCHANGED <<redis, database, snapshot, dead, arrived, wrong>>

(* What follows an INCR that answered n.                                    *)
MfaCounted(r, n) ==
    IF n < Limits["mfa"] THEN MfaFailed(r) ELSE Move(r, "mfaLock") /\ UNCHANGED todo

MfaCount(r) ==
    /\ pc[r] = "mfaCount"
    /\ Incr("mfa", account[r])
    /\ LET n == count["mfa"][account[r]] + 1 IN
       IF n = 1 THEN Move(r, "mfaExpire") /\ UNCHANGED todo ELSE MfaCounted(r, n)
    /\ UNCHANGED <<ttl, barred, database, snapshot, dead, arrived, history>>

MfaExpire(r) ==
    /\ pc[r] = "mfaExpire"
    /\ Expire("mfa", account[r])
    /\ MfaCounted(r, 1)
    /\ UNCHANGED <<count, barred, database, snapshot, dead, arrived, history>>

MfaLock(r) ==
    /\ pc[r] = "mfaLock"
    /\ barred' = [barred EXCEPT ![account[r]] = TRUE]
    /\ Move(r, "mfaForget")
    /\ UNCHANGED <<count, ttl, database, snapshot, todo, dead, arrived, history>>

\* Mutant: the attempts of one lock are taken off instead of deleted.
MfaForgetCounts(r) ==
    /\ pc[r] = "mfaForget"
    /\ count' = [count EXCEPT !["mfa"][account[r]] = @ - Limits["mfa"]]
    /\ MfaFailed(r)
    /\ UNCHANGED <<ttl, barred, database, snapshot, dead, arrived, history>>

(* DEL of the attempts: the guesses still count until the lock is over, and *)
(* are forgotten if a right code has lifted it in between.                  *)
MfaForget(r) ==
    /\ pc[r] = "mfaForget"
    /\ count' = [count EXCEPT !["mfa"][account[r]] = 0]
    /\ ttl' = [ttl EXCEPT !["mfa"][account[r]] = FALSE]
    /\ tried' = IF barred[account[r]] THEN tried ELSE [tried EXCEPT !["mfa"][account[r]] = 0]
    /\ MfaFailed(r)
    /\ UNCHANGED <<barred, database, snapshot, dead, arrived, wrong>>

(* The code was right: one DEL of both keys.  A reauthentication clears its *)
(* own counters, unless its session turns out to be over.                   *)
MfaClear(r) ==
    /\ pc[r] = "mfaClear"
    /\ Del("mfa", {account[r]})
    /\ barred' = [barred EXCEPT ![account[r]] = FALSE]
    /\ (kind[r] = "reverify" /\ Move(r, "clear")) \/ End(r)
    /\ UNCHANGED <<database, snapshot, todo, dead, arrived, wrong>>

-----------------------------------------------------------------------------
(* Time and failures.                                                       *)

Lapse(s, a) ==
    /\ ttl[s][a]
    /\ Del(s, {a})
    /\ UNCHANGED <<barred, database, pc, request, snapshot, todo, dead, arrived, wrong>>

(* The MFA lock is over.  Between the SET and the DEL of registerVerifica-  *)
(* tionResult less than the lock's time passes.                             *)
Unbar(a) ==
    /\ barred[a]
    /\ \A r \in Requests \ dead : ~(pc[r] = "mfaForget" /\ account[r] = a)
    /\ barred' = [barred EXCEPT ![a] = FALSE]
    /\ tried' = [tried EXCEPT !["mfa"][a] = 0]
    /\ UNCHANGED <<count, ttl, database, pc, request, snapshot, todo, dead, arrived, wrong>>

(* lockedUntil has passed.                                                  *)
Unlock(a) ==
    /\ locked[a]
    /\ locked' = [locked EXCEPT ![a] = FALSE]
    /\ UNCHANGED <<redis, failed, pc, request, snapshot, todo, dead, arrived, history>>

(* What a dead handler held is gone; of one between INCR and EXPIRE it is   *)
(* remembered where it was.                                                 *)
Crash(r) ==
    /\ "crash" \in Faults
    /\ r \notin dead /\ pc[r] # "start"
    /\ dead' = dead \cup {r}
    /\ IF pc[r] \in {"expire", "mfaExpire"}
       THEN UNCHANGED <<pc, request, snapshot, todo>>
       ELSE End(r) /\ Do(r, <<>>) /\ snapshot' = [snapshot EXCEPT ![r] = 0]
    /\ UNCHANGED <<redis, database, arrived, history>>

-----------------------------------------------------------------------------
(* A handler that is at work does its next step.                            *)
Continue(r) ==
    /\ r \notin dead
    /\ \/ Assert(r) \/ Read(r) \/ Fail(r) \/ ResetFailedLogin(r) \/ Clear(r)
       \/ Count(r) \/ ExpireRate(r)
       \/ CheckLock(r) \/ MfaCount(r) \/ MfaExpire(r) \/ MfaLock(r)
       \/ MfaForget(r) \/ MfaClear(r)

(* Every request that may come in has been handled.                         *)
Idle ==
    /\ \A r \in Requests : r \in dead \/ (pc[r] = "start" /\ arrived = Arrivals)
    /\ UNCHANGED vars

Next ==
    \/ \E r \in Requests : Arrive(r) \/ Continue(r) \/ Crash(r)
    \/ \E s \in Scopes, a \in Actors : Lapse(s, a)
    \/ \E a \in Accounts : Unbar(a) \/ Unlock(a)
    \/ Idle

Spec == Init /\ [][Next]_vars

(* Handlers run to their end and the windows of the rate limiter close.     *)
Fairness ==
    /\ \A r \in Requests : WF_vars(Continue(r))
    /\ \A s \in RateScopes, a \in Actors : WF_vars(Lapse(s, a))

FairSpec == Spec /\ Fairness

-----------------------------------------------------------------------------
(* Properties.                                                              *)

(* Every variable has its type: counters, flags, control points and the     *)
(* actors the handlers still have to visit.                                 *)
ThrottleTypeOK ==
    /\ count \in [Scopes -> [Actors -> Nat]]
    /\ ttl \in [Scopes -> [Actors -> BOOLEAN]]
    /\ barred \in [Accounts -> BOOLEAN]
    /\ failed \in [Accounts -> Nat]
    /\ locked \in [Accounts -> BOOLEAN]
    /\ pc \in [Requests -> Labels]
    /\ kind \in [Requests -> Kinds]
    /\ account \in [Requests -> Accounts \cup {Nobody}]
    /\ address \in [Requests -> Addresses \cup {Nobody}]
    /\ snapshot \in [Requests -> Nat]
    /\ todo \in [Requests -> Seq(Actors)]
    /\ dead \subseteq Requests
    /\ arrived \in 0 .. Arrivals
    /\ tried \in [Scopes -> [Actors -> Nat]]
    /\ wrong \in [Accounts -> Nat]

(* However the handlers overlap, between two resets of a counter (a right   *)
(* guess, the end of its window or lock, the late DEL of a handler whose    *)
(* lock a right guess has lifted) at most limit - 1 wrong guesses are       *)
(* evaluated against it plus one for each request handled at the same time, *)
(* although the check and the INCR are apart (assertScopeAllowed,           *)
(* registerFailure, registerVerificationResult).                            *)
GuessesBounded ==
    \A s \in Scopes, a \in Actors :
        tried[s][a] < Limits[s] + Cardinality(Requests)

(* The handler of r set a counter to 1 and has not set its window yet.      *)
OpensWindow(r, s, a) ==
    \/ pc[r] = "expire" /\ RateScope(kind[r]) = s /\ Head(todo[r]) = a
    \/ pc[r] = "mfaExpire" /\ s = "mfa" /\ account[r] = a

(* A counter that is not 0 has a window, unless the handler that sets it is *)
(* between its INCR and its EXPIRE or was cut off there.                    *)
CounterHasWindow ==
    \A s \in Scopes, a \in Actors :
        count[s][a] # 0 /\ ~ttl[s][a] => \E r \in Requests : OpensWindow(r, s, a)

(* An account is locked out only after as many wrong passwords as the limit *)
(* says, since a right one was given while nobody held an older count: the  *)
(* lost updates of registerFailedLogin delay a lock-out, they never bring   *)
(* it forward.                                                              *)
LockoutIsEarned ==
    [][\A a \in Accounts :
          ~locked[a] /\ locked'[a] => wrong[a] = Limits["password"]]_vars

(* A block of the rate limiter ends: every counter at its limit gets a      *)
(* window, which closes, unless a handler was cut off between its INCR and  *)
(* its EXPIRE.  How long a window takes, prolonged or not, is left out.     *)
BlockLifts ==
    \A s \in RateScopes, a \in Actors :
        Blocked(s, a) ~> \/ ~Blocked(s, a)
                         \/ \E r \in dead : OpensWindow(r, s, a)

=============================================================================
