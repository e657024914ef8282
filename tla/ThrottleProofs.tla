--------------------------- MODULE ThrottleProofs ---------------------------
(***************************************************************************)
(* Theorems about Throttle, for any slots, accounts, addresses, limits and *)
(* requests that come in, crashes included.                                *)
(***************************************************************************)
EXTENDS Throttle, FiniteSetTheorems, TLAPS

-----------------------------------------------------------------------------
(* What the handlers hold.                                                  *)

(* The steps that look at the head of todo.                                 *)
Visiting == {"assert", "count", "expire"}

HandlersOK ==
    /\ pc \in [Requests -> Labels]
    /\ kind \in [Requests -> Kinds]
    /\ account \in [Requests -> Accounts \cup {Nobody}]
    /\ address \in [Requests -> Addresses \cup {Nobody}]
    /\ snapshot \in [Requests -> Nat]
    /\ todo \in [Requests -> Seq(Actors)]
    /\ \A r \in Requests : pc[r] # "start" => account[r] \in Accounts
    /\ \A r \in Requests : pc[r] \in Visiting => todo[r] # <<>>

Inv == ThrottleTypeOK /\ HandlersOK

(* The actors of a request are its account and its address, if known.       *)
LEMMA ActorTypes ==
    ASSUME HandlersOK, NEW r \in Requests, pc[r] # "start"
    PROVE  /\ account[r] \in Accounts /\ account[r] \in Actors
           /\ RateActors(r) \in Seq(Actors) /\ RateActors(r) # <<>>
           /\ {account[r], address[r]} \ {Nobody} \subseteq Actors
<1>1. account[r] \in Accounts /\ address[r] \in Addresses \cup {Nobody}
  BY DEF HandlersOK
<1>2. account[r] \in Actors /\ (address[r] # Nobody => address[r] \in Actors)
  BY <1>1 DEF Actors
<1>3. RateActors(r) \in Seq(Actors) /\ RateActors(r) # <<>>
  BY <1>2 DEF RateActors
<1> QED BY <1>1, <1>2, <1>3

LEMMA HeadType ==
    ASSUME HandlersOK, NEW r \in Requests, pc[r] \in Visiting
    PROVE  /\ Head(todo[r]) \in Actors /\ Tail(todo[r]) \in Seq(Actors)
           /\ Len(todo[r]) > 1 => Tail(todo[r]) # <<>>
<1>1. todo[r] \in Seq(Actors) /\ todo[r] # <<>>
  BY DEF HandlersOK
<1> QED BY <1>1

(* A handler goes on, with the actors it has or with others.                *)
LEMMA MoveKeeps ==
    ASSUME HandlersOK, NEW r \in Requests, pc[r] # "start",
           NEW label \in Labels, Move(r, label), UNCHANGED snapshot,
           \/ UNCHANGED todo /\ (label \in Visiting => todo[r] # <<>>)
           \/ \E actors \in Seq(Actors) :
                 Do(r, actors) /\ (label \in Visiting => actors # <<>>)
    PROVE  HandlersOK'
<1>1. UNCHANGED <<kind, account, address>> /\ pc' = [pc EXCEPT ![r] = label]
  BY DEF Move, Goto, request
<1>2. /\ todo' \in [Requests -> Seq(Actors)]
      /\ label \in Visiting => todo'[r] # <<>>
      /\ \A q \in Requests \ {r} : todo'[q] = todo[q]
  BY DEF Do, HandlersOK
<1> QED BY <1>1, <1>2 DEF HandlersOK

(* A handler ends.                                                          *)
LEMMA EndKeeps ==
    ASSUME HandlersOK, NEW r \in Requests, End(r), snapshot' \in [Requests -> Nat],
           UNCHANGED todo \/ \E actors \in Seq(Actors) : Do(r, actors)
    PROVE  HandlersOK'
<1>1. /\ pc' = [pc EXCEPT ![r] = "start"]
      /\ kind' \in [Requests -> Kinds]
      /\ account' \in [Requests -> Accounts \cup {Nobody}]
      /\ address' \in [Requests -> Addresses \cup {Nobody}]
      /\ \A q \in Requests \ {r} : account'[q] = account[q]
  BY DEF End, Goto, Kinds, HandlersOK
<1>2. "start" \in Labels /\ "start" \notin Visiting
  BY DEF Labels, Visiting
<1>3. /\ todo' \in [Requests -> Seq(Actors)]
      /\ \A q \in Requests \ {r} : todo'[q] = todo[q]
  BY DEF Do, HandlersOK
<1> QED BY <1>1, <1>2, <1>3 DEF HandlersOK

LEMMA LabelNames ==
    /\ \A label \in {"start", "assert", "read", "fail", "reset", "lock", "count",
                     "expire", "clear", "mfaCount", "mfaExpire", "mfaLock",
                     "mfaForget", "mfaClear"} : label \in Labels
    /\ \A label \in {"start", "read", "fail", "reset", "lock", "clear", "mfaCount",
                     "mfaExpire", "mfaLock", "mfaForget", "mfaClear"} :
          label \notin Visiting
BY DEF Labels, Visiting

LEMMA HandlersStep ==
    ASSUME Inv, [Next]_vars
    PROVE  HandlersOK'
<1> USE LabelNames
<1>0. HandlersOK /\ ThrottleTypeOK /\ snapshot \in [Requests -> Nat]
  BY DEF Inv, HandlersOK
<1>1. ASSUME NEW r \in Requests, Arrive(r) PROVE HandlersOK'
  <2>1. PICK k \in Kinds, a \in Accounts, i \in Addresses :
           /\ kind' = [kind EXCEPT ![r] = k]
           /\ account' = [account EXCEPT ![r] = a]
           /\ address' = [address EXCEPT ![r] = i]
           /\ \/ Goto(r, "assert") /\ Do(r, IF i = Nobody THEN <<a>> ELSE <<a, i>>)
              \/ Goto(r, "lock") /\ UNCHANGED todo
    <3>1. Offered[arrived + 1] \subseteq Kinds
      <4>1. arrived + 1 \in 1 .. Len(Offered)
        BY <1>0, <1>1, ThrottleAssumption DEF Arrive, Arrivals, ThrottleTypeOK
      <4> QED BY <4>1, ThrottleAssumption
    <3> QED BY <1>1, <3>1 DEF Arrive
  <2>2. /\ <<a>> \in Seq(Actors)
        /\ i # Nobody => <<a, i>> \in Seq(Actors)
        /\ <<a>> # <<>> /\ <<a, i>> # <<>>
    BY DEF Actors
  <2>3. UNCHANGED snapshot
    BY <1>1 DEF Arrive
  <2>4. CASE Goto(r, "assert") /\ Do(r, IF i = Nobody THEN <<a>> ELSE <<a, i>>)
    <3>1. PICK actors \in Seq(Actors) : actors # <<>> /\ Do(r, actors)
      BY <2>2, <2>4
    <3> QED BY <1>0, <2>1, <2>3, <2>4, <3>1 DEF Goto, Do, HandlersOK
  <2>5. CASE Goto(r, "lock") /\ UNCHANGED todo
    BY <1>0, <2>1, <2>3, <2>5 DEF Goto, HandlersOK
  <2> QED BY <2>1, <2>4, <2>5
<1>2. ASSUME NEW r \in Requests, pc[r] \in {"count", "expire"}, NextActor(r),
             UNCHANGED snapshot
      PROVE  HandlersOK'
  <2>1. pc[r] \in Visiting /\ pc[r] # "start"
    BY <1>2 DEF Visiting
  <2> QED BY <1>0, <1>2, <2>1, HeadType, MoveKeeps, EndKeeps DEF NextActor
<1>3. ASSUME NEW r \in Requests, pc[r] # "start", MfaFailed(r), UNCHANGED snapshot
      PROVE  HandlersOK'
  BY <1>0, <1>3, ActorTypes, MoveKeeps, EndKeeps DEF MfaFailed
<1>4. ASSUME NEW r \in Requests, Assert(r) PROVE HandlersOK'
  <2>1. pc[r] \in Visiting /\ pc[r] # "start" /\ UNCHANGED snapshot
    BY <1>4 DEF Visiting, Assert
  <2>2. CASE End(r) /\ Do(r, <<>>)
    <3>1. <<>> \in Seq(Actors) /\ snapshot' \in [Requests -> Nat]
      BY <1>0, <2>1
    <3> QED BY <1>0, <2>2, <3>1, EndKeeps
  <2>3. CASE /\ Do(r, Tail(todo[r])) /\ Len(todo[r]) > 1
             /\ UNCHANGED <<pc, request>>
    BY <1>0, <2>1, <2>3, HeadType DEF request, Do, HandlersOK
  <2>4. CASE /\ Do(r, Tail(todo[r]))
             /\ Move(r, "lock") \/ Move(r, "read")
    BY <1>0, <2>1, <2>4, HeadType, MoveKeeps
  <2> QED BY <1>4, <2>2, <2>3, <2>4 DEF Assert
<1>5. ASSUME NEW r \in Requests, Read(r) PROVE HandlersOK'
  <2>1. pc[r] # "start" /\ RateActors(r) \in Seq(Actors) /\ RateActors(r) # <<>>
    BY <1>0, <1>5, ActorTypes DEF Read
  <2>2. CASE Move(r, "count") /\ Do(r, RateActors(r)) /\ UNCHANGED snapshot
    BY <1>0, <2>1, <2>2, MoveKeeps
  <2>3. CASE End(r) /\ UNCHANGED <<snapshot, todo>>
    BY <1>0, <2>3, EndKeeps DEF HandlersOK
  <2>4. CASE /\ Move(r, "fail") /\ UNCHANGED todo
             /\ snapshot' = [snapshot EXCEPT ![r] = failed[account[r]]]
    <3>1. failed[account[r]] \in Nat
      BY <1>0, <2>1, ActorTypes DEF ThrottleTypeOK
    <3> QED BY <1>0, <2>1, <2>4, <3>1 DEF Move, Goto, request, HandlersOK
  <2>5. CASE Move(r, "reset") /\ UNCHANGED <<snapshot, todo>>
    BY <1>0, <2>1, <2>5, MoveKeeps
  <2> QED BY <1>5, <2>2, <2>3, <2>4, <2>5 DEF Read
<1>6. ASSUME NEW r \in Requests, Fail(r) PROVE HandlersOK'
  <2>1. pc[r] # "start" /\ RateActors(r) \in Seq(Actors) /\ RateActors(r) # <<>>
    BY <1>0, <1>6, ActorTypes DEF Fail
  <2>2. /\ Move(r, "count") /\ Do(r, RateActors(r))
        /\ snapshot' = [snapshot EXCEPT ![r] = 0]
    BY <1>6 DEF Fail
  <2> QED BY <1>0, <2>1, <2>2 DEF Move, Goto, Do, request, HandlersOK
<1>7. ASSUME NEW r \in Requests, ResetFailedLogin(r) \/ Clear(r) PROVE HandlersOK'
  <2>1. /\ pc[r] # "start" /\ UNCHANGED <<snapshot, todo>>
        /\ Move(r, "clear") \/ End(r)
    BY <1>7 DEF ResetFailedLogin, Clear
  <2> QED BY <1>0, <2>1, MoveKeeps, EndKeeps DEF HandlersOK
<1>8. ASSUME NEW r \in Requests, Count(r) PROVE HandlersOK'
  <2>1. /\ pc[r] = "count" /\ UNCHANGED snapshot
        /\ (Move(r, "expire") /\ UNCHANGED todo) \/ NextActor(r)
    BY <1>8 DEF Count
  <2>2. todo[r] # <<>>
    BY <1>0, <2>1 DEF HandlersOK, Visiting
  <2> QED BY <1>0, <1>2, <2>1, <2>2, MoveKeeps
<1>9. ASSUME NEW r \in Requests, ExpireRate(r) PROVE HandlersOK'
  BY <1>2, <1>9 DEF ExpireRate
<1>10. ASSUME NEW r \in Requests, CheckLock(r) PROVE HandlersOK'
  <2>1. /\ pc[r] # "start" /\ UNCHANGED snapshot
        /\ \/ MfaFailed(r)
           \/ End(r) /\ UNCHANGED todo
           \/ Move(r, "mfaClear") /\ UNCHANGED todo
           \/ Move(r, "mfaCount") /\ UNCHANGED todo
    BY <1>10 DEF CheckLock
  <2> QED BY <1>0, <1>3, <2>1, MoveKeeps, EndKeeps DEF HandlersOK
<1>11. ASSUME NEW r \in Requests, MfaCount(r) \/ MfaExpire(r) PROVE HandlersOK'
  <2>1. /\ pc[r] # "start" /\ UNCHANGED snapshot
        /\ \/ Move(r, "mfaExpire") /\ UNCHANGED todo
           \/ MfaFailed(r)
           \/ Move(r, "mfaLock") /\ UNCHANGED todo
    BY <1>11 DEF MfaCount, MfaExpire, MfaCounted
  <2> QED BY <1>0, <1>3, <2>1, MoveKeeps
<1>12. ASSUME NEW r \in Requests, MfaLock(r) PROVE HandlersOK'
  BY <1>0, <1>12, MoveKeeps DEF MfaLock
<1>13. ASSUME NEW r \in Requests, MfaForget(r) PROVE HandlersOK'
  BY <1>3, <1>13 DEF MfaForget
<1>14. ASSUME NEW r \in Requests, MfaClear(r) PROVE HandlersOK'
  BY <1>0, <1>14, MoveKeeps, EndKeeps DEF MfaClear, HandlersOK
<1>15. ASSUME NEW r \in Requests, Crash(r) PROVE HandlersOK'
  <2>1. CASE UNCHANGED <<pc, request, snapshot, todo>>
    BY <1>0, <2>1 DEF HandlersOK, request
  <2>2. CASE End(r) /\ Do(r, <<>>) /\ snapshot' = [snapshot EXCEPT ![r] = 0]
    <3>1. snapshot' \in [Requests -> Nat] /\ <<>> \in Seq(Actors)
      BY <1>0, <2>2 DEF HandlersOK
    <3> QED BY <1>0, <2>2, <3>1, EndKeeps
  <2> QED BY <1>15, <2>1, <2>2 DEF Crash
<1>16. ASSUME UNCHANGED <<pc, request, snapshot, todo>> PROVE HandlersOK'
  BY <1>0, <1>16 DEF HandlersOK, request
<1> QED BY <1>1, <1>4, <1>5, <1>6, <1>7, <1>8, <1>9, <1>10, <1>11, <1>12, <1>13, <1>14,
           <1>15, <1>16
        DEF Next, Continue, Lapse, Unbar, Unlock, Idle, vars

-----------------------------------------------------------------------------
(* Types.                                                                   *)

CountersOK ==
    /\ count \in [Scopes -> [Actors -> Nat]]
    /\ ttl \in [Scopes -> [Actors -> BOOLEAN]]
    /\ tried \in [Scopes -> [Actors -> Nat]]

AccountsOK ==
    /\ barred \in [Accounts -> BOOLEAN]
    /\ failed \in [Accounts -> Nat]
    /\ locked \in [Accounts -> BOOLEAN]
    /\ wrong \in [Accounts -> Nat]

LEMMA ScopeNames == "mfa" \in Scopes /\ \A k : RateScope(k) \in Scopes
BY DEF Scopes, RateScopes, RateScope

(* The Redis commands keep the counters counters.                           *)
LEMMA CommandTypes ==
    ASSUME CountersOK, NEW s \in Scopes, NEW a \in Actors
    PROVE  /\ Incr(s, a) => count' \in [Scopes -> [Actors -> Nat]]
           /\ Expire(s, a) => ttl' \in [Scopes -> [Actors -> BOOLEAN]]
           /\ \A actors : Del(s, actors) => CountersOK'
           /\ \A r : GuessedWrong(r) => tried' \in [Scopes -> [Actors -> Nat]]
<1>1. Incr(s, a) => count' \in [Scopes -> [Actors -> Nat]]
  BY DEF Incr, CountersOK
<1>2. Expire(s, a) => ttl' \in [Scopes -> [Actors -> BOOLEAN]]
  BY DEF Expire, CountersOK
<1>3. ASSUME NEW actors, Del(s, actors) PROVE CountersOK'
  <2>1. count' \in [Scopes -> [Actors -> Nat]]
    BY <1>3 DEF Del, CountersOK
  <2>2. ttl' \in [Scopes -> [Actors -> BOOLEAN]]
    <3>1. [b \in Actors |-> b \notin actors /\ ttl[s][b]] \in [Actors -> BOOLEAN]
      BY DEF CountersOK
    <3> QED BY <1>3, <3>1 DEF Del, CountersOK
  <2>3. tried' \in [Scopes -> [Actors -> Nat]]
    BY <1>3 DEF Del, CountersOK
  <2> QED BY <2>1, <2>2, <2>3 DEF CountersOK
<1>4. ASSUME NEW r, GuessedWrong(r) PROVE tried' \in [Scopes -> [Actors -> Nat]]
  BY <1>4 DEF GuessedWrong, CountersOK
<1> QED BY <1>1, <1>2, <1>3, <1>4

LEMMA CountersStep ==
    ASSUME Inv, [Next]_vars
    PROVE  CountersOK'
<1> USE ScopeNames
<1>0. HandlersOK /\ CountersOK /\ ThrottleTypeOK
  BY DEF Inv, ThrottleTypeOK, CountersOK
<1>1. ASSUME UNCHANGED <<count, ttl, tried>> PROVE CountersOK'
  BY <1>0, <1>1 DEF CountersOK
<1>2. ASSUME NEW r \in Requests,
             \/ Arrive(r) \/ Assert(r) \/ Fail(r) \/ ResetFailedLogin(r)
             \/ MfaLock(r) \/ Crash(r)
      PROVE  CountersOK'
  <2>1. UNCHANGED <<count, ttl, tried>>
    BY <1>2 DEF Arrive, Assert, Fail, ResetFailedLogin, MfaLock, Crash, redis, history
  <2> QED BY <1>1, <2>1
<1>3. ASSUME NEW r \in Requests, Read(r) \/ CheckLock(r) PROVE CountersOK'
  <2>1. UNCHANGED <<count, ttl>> /\ (UNCHANGED tried \/ GuessedWrong(r))
    BY <1>3 DEF Read, CheckLock, redis, history
  <2>2. account[r] \in Actors
    BY <1>0, <1>3, ActorTypes DEF Read, CheckLock
  <2> QED BY <1>0, <2>1, <2>2, CommandTypes DEF CountersOK
<1>4. ASSUME NEW r \in Requests, Count(r) \/ ExpireRate(r) PROVE CountersOK'
  <2>1. Head(todo[r]) \in Actors
    BY <1>0, <1>4, HeadType DEF Count, ExpireRate, Visiting
  <2>2. /\ UNCHANGED tried
        /\ \/ Incr(RateScope(kind[r]), Head(todo[r])) /\ UNCHANGED ttl
           \/ Expire(RateScope(kind[r]), Head(todo[r])) /\ UNCHANGED count
    BY <1>4 DEF Count, ExpireRate, history
  <2> QED BY <1>0, <2>1, <2>2, CommandTypes DEF CountersOK
<1>5. ASSUME NEW r \in Requests, MfaCount(r) \/ MfaExpire(r) PROVE CountersOK'
  <2>1. account[r] \in Actors
    BY <1>0, <1>5, ActorTypes DEF MfaCount, MfaExpire
  <2>2. /\ UNCHANGED tried
        /\ \/ Incr("mfa", account[r]) /\ UNCHANGED ttl
           \/ Expire("mfa", account[r]) /\ UNCHANGED count
    BY <1>5 DEF MfaCount, MfaExpire, history
  <2> QED BY <1>0, <2>1, <2>2, CommandTypes DEF CountersOK
<1>6. ASSUME NEW r \in Requests, MfaForget(r) PROVE CountersOK'
  BY <1>0, <1>6 DEF MfaForget, CountersOK, history
<1>7. ASSUME NEW r \in Requests, MfaClear(r) \/ Clear(r) PROVE CountersOK'
  <2>1. account[r] \in Actors
    BY <1>0, <1>7, ActorTypes DEF MfaClear, Clear
  <2> QED BY <1>0, <1>7, <2>1, CommandTypes DEF MfaClear, Clear
<1>8. ASSUME NEW s \in Scopes, NEW a \in Actors, Lapse(s, a) PROVE CountersOK'
  BY <1>0, <1>8, CommandTypes DEF Lapse
<1>9. ASSUME NEW a \in Accounts, Unbar(a) PROVE CountersOK'
  <2>1. a \in Actors
    BY DEF Actors
  <2> QED BY <1>0, <1>9, <2>1 DEF Unbar, CountersOK
<1>10. ASSUME NEW a \in Accounts, Unlock(a) PROVE CountersOK'
  BY <1>1, <1>10 DEF Unlock, redis, history
<1>11. ASSUME UNCHANGED vars PROVE CountersOK'
  BY <1>1, <1>11 DEF vars, redis, history
<1> QED BY <1>2, <1>3, <1>4, <1>5, <1>6, <1>7, <1>8, <1>9, <1>10, <1>11
        DEF Next, Continue, Idle

LEMMA AccountsStep ==
    ASSUME Inv, [Next]_vars
    PROVE  AccountsOK'
<1>0. HandlersOK /\ AccountsOK
  BY DEF Inv, ThrottleTypeOK, AccountsOK
<1>1. ASSUME UNCHANGED <<barred, database, wrong>> PROVE AccountsOK'
  BY <1>0, <1>1 DEF AccountsOK, database
<1>2. ASSUME NEW r \in Requests,
             \/ Arrive(r) \/ Assert(r) \/ Count(r) \/ ExpireRate(r) \/ Clear(r)
             \/ CheckLock(r) \/ MfaCount(r) \/ MfaExpire(r) \/ MfaForget(r) \/ Crash(r)
      PROVE  AccountsOK'
  <2>1. UNCHANGED <<barred, database, wrong>>
    BY <1>2 DEF Arrive, Assert, Count, ExpireRate, Clear, CheckLock, MfaCount, MfaExpire,
                MfaForget, Crash, redis, history
  <2> QED BY <1>1, <2>1
<1>3. ASSUME NEW r \in Requests, Read(r) PROVE AccountsOK'
  <2>1. /\ UNCHANGED <<barred, database>>
        /\ UNCHANGED wrong \/ wrong' = [wrong EXCEPT ![account[r]] =
                                          IF @ < Limits["password"] THEN @ + 1 ELSE @]
    BY <1>3 DEF Read, redis, history
  <2> QED BY <1>0, <2>1 DEF AccountsOK, database
<1>4. ASSUME NEW r \in Requests, Fail(r) PROVE AccountsOK'
  <2>1. snapshot[r] \in Nat
    BY <1>0 DEF HandlersOK
  <2>2. UNCHANGED <<barred, wrong>>
    BY <1>4 DEF Fail, redis, history
  <2>3. PICK n \in Nat : failed' = [failed EXCEPT ![account[r]] = n]
    BY <1>4, <2>1 DEF Fail
  <2>4. UNCHANGED locked \/ locked' = [locked EXCEPT ![account[r]] = TRUE]
    BY <1>4 DEF Fail
  <2>5. failed' \in [Accounts -> Nat]
    BY <1>0, <2>3 DEF AccountsOK
  <2>6. locked' \in [Accounts -> BOOLEAN]
    BY <1>0, <2>4 DEF AccountsOK
  <2> QED BY <1>0, <2>2, <2>5, <2>6 DEF AccountsOK
<1>5. ASSUME NEW r \in Requests, ResetFailedLogin(r) PROVE AccountsOK'
  <2>1. UNCHANGED barred /\ failed' \in [Accounts -> Nat]
    BY <1>0, <1>5 DEF ResetFailedLogin, AccountsOK, redis
  <2>2. locked' \in [Accounts -> BOOLEAN] /\ wrong' \in [Accounts -> Nat]
    BY <1>0, <1>5 DEF ResetFailedLogin, Rested, AccountsOK
  <2> QED BY <1>0, <2>1, <2>2 DEF AccountsOK
<1>6. ASSUME NEW r \in Requests, MfaLock(r) \/ MfaClear(r) PROVE AccountsOK'
  BY <1>0, <1>6 DEF MfaLock, MfaClear, AccountsOK, database, history
<1>7. ASSUME NEW s \in Scopes, NEW a \in Actors, Lapse(s, a) PROVE AccountsOK'
  BY <1>1, <1>7 DEF Lapse
<1>8. ASSUME NEW a \in Accounts, Unbar(a) \/ Unlock(a) PROVE AccountsOK'
  BY <1>0, <1>8 DEF Unbar, Unlock, AccountsOK, database, redis, history
<1>9. ASSUME UNCHANGED vars PROVE AccountsOK'
  BY <1>1, <1>9 DEF vars, redis, history
<1> QED BY <1>2, <1>3, <1>4, <1>5, <1>6, <1>7, <1>8, <1>9 DEF Next, Continue, Idle

LEMMA InvIsInvariant == Spec => []Inv
<1>1. Init => Inv
  <2>1. ASSUME Init PROVE HandlersOK
    BY <2>1 DEF Init, HandlersOK, Labels, Kinds, Visiting
  <2>2. ASSUME Init PROVE ThrottleTypeOK
    <3>1. 0 \in 0 .. Arrivals
      BY ThrottleAssumption DEF Arrivals
    <3> QED BY <2>1, <2>2, <3>1 DEF Init, HandlersOK, ThrottleTypeOK
  <2> QED BY <2>1, <2>2 DEF Inv
<1>2. ASSUME Inv, [Next]_vars PROVE Inv'
  <2>1. HandlersOK' /\ CountersOK' /\ AccountsOK'
    BY <1>2, HandlersStep, CountersStep, AccountsStep
  <2>2. dead' \subseteq Requests
    <3>1. dead \subseteq Requests
      BY <1>2 DEF Inv, ThrottleTypeOK
    <3>2. ASSUME NEW r \in Requests, Arrive(r) \/ Continue(r) PROVE UNCHANGED dead
      BY <3>2 DEF Arrive, Continue, Assert, Read, Fail, ResetFailedLogin, Clear, Count,
                  ExpireRate, CheckLock, MfaCount, MfaExpire, MfaLock, MfaForget, MfaClear
    <3>3. ASSUME NEW r \in Requests, Crash(r) PROVE dead' \subseteq Requests
      BY <3>1, <3>3 DEF Crash
    <3> QED BY <1>2, <3>1, <3>2, <3>3 DEF Next, Lapse, Unbar, Unlock, Idle, vars
  <2>3. arrived' \in 0 .. Arrivals
    <3>1. arrived \in 0 .. Arrivals /\ Arrivals \in Nat
      BY <1>2, ThrottleAssumption DEF Inv, ThrottleTypeOK, Arrivals
    <3>2. ASSUME NEW r \in Requests, Continue(r) \/ Crash(r) PROVE UNCHANGED arrived
      BY <3>2 DEF Crash, Continue, Assert, Read, Fail, ResetFailedLogin, Clear, Count,
                  ExpireRate, CheckLock, MfaCount, MfaExpire, MfaLock, MfaForget, MfaClear
    <3>3. ASSUME NEW r \in Requests, Arrive(r) PROVE arrived' \in 0 .. Arrivals
      BY <3>1, <3>3 DEF Arrive
    <3> QED BY <1>2, <3>1, <3>2, <3>3 DEF Next, Lapse, Unbar, Unlock, Idle, vars
  <2> QED BY <2>1, <2>2, <2>3
          DEF Inv, ThrottleTypeOK, HandlersOK, CountersOK, AccountsOK
<1> QED BY <1>1, <1>2, PTL DEF Spec

(* Counters stay natural numbers, and a handler that visits an actor has    *)
(* one left to visit.                                                       *)
THEOREM ThrottleTypeCorrect == Spec => []ThrottleTypeOK
<1>1. Inv => ThrottleTypeOK
  BY DEF Inv
<1> QED BY <1>1, InvIsInvariant, PTL

-----------------------------------------------------------------------------
(* Windows.                                                                 *)

Step(r) ==
    \/ Arrive(r) \/ Assert(r) \/ Read(r) \/ Fail(r) \/ ResetFailedLogin(r) \/ Clear(r)
    \/ Count(r) \/ ExpireRate(r) \/ CheckLock(r) \/ MfaCount(r) \/ MfaExpire(r)
    \/ MfaLock(r) \/ MfaForget(r) \/ MfaClear(r) \/ Crash(r)

(* A step of one handler leaves the others where they are.                  *)
LEMMA OnlyActor ==
    ASSUME Inv, NEW r \in Requests, Step(r),
           NEW q \in Requests, q # r
    PROVE  /\ pc'[q] = pc[q] /\ kind'[q] = kind[q] /\ account'[q] = account[q]
           /\ snapshot'[q] = snapshot[q] /\ todo'[q] = todo[q]
<1>0. HandlersOK
  BY DEF Inv
<1>1. ASSUME NEW label, Goto(r, label) PROVE pc'[q] = pc[q]
  BY <1>0, <1>1 DEF Goto, HandlersOK
<1>2. ASSUME NEW actors, Do(r, actors) PROVE todo'[q] = todo[q]
  BY <1>0, <1>2 DEF Do, HandlersOK
<1>3. ASSUME End(r)
      PROVE  pc'[q] = pc[q] /\ kind'[q] = kind[q] /\ account'[q] = account[q]
  BY <1>0, <1>1, <1>3 DEF End, HandlersOK
<1>4. ASSUME NEW label, Move(r, label)
      PROVE  pc'[q] = pc[q] /\ kind'[q] = kind[q] /\ account'[q] = account[q]
  BY <1>1, <1>4 DEF Move, request
<1>5. ASSUME MfaFailed(r)
      PROVE  /\ pc'[q] = pc[q] /\ kind'[q] = kind[q] /\ account'[q] = account[q]
             /\ todo'[q] = todo[q]
  BY <1>2, <1>3, <1>4, <1>5 DEF MfaFailed
<1>6. ASSUME NextActor(r)
      PROVE  /\ pc'[q] = pc[q] /\ kind'[q] = kind[q] /\ account'[q] = account[q]
             /\ todo'[q] = todo[q]
  BY <1>2, <1>3, <1>4, <1>6 DEF NextActor
<1>7. CASE Arrive(r)
  <2>1. kind'[q] = kind[q] /\ account'[q] = account[q] /\ snapshot'[q] = snapshot[q]
    BY <1>0, <1>7 DEF Arrive, HandlersOK
  <2> QED BY <1>1, <1>2, <1>7, <2>1 DEF Arrive
<1>8. CASE Assert(r) \/ Clear(r) \/ ResetFailedLogin(r)
  BY <1>2, <1>3, <1>4, <1>8 DEF Assert, Clear, ResetFailedLogin, request
<1>9. CASE Read(r) \/ Fail(r)
  <2>1. snapshot'[q] = snapshot[q]
    BY <1>0, <1>9 DEF Read, Fail, HandlersOK
  <2> QED BY <1>2, <1>3, <1>4, <1>9, <2>1 DEF Read, Fail
<1>10. CASE Count(r) \/ ExpireRate(r)
  BY <1>4, <1>6, <1>10 DEF Count, ExpireRate
<1>11. CASE CheckLock(r) \/ MfaCount(r) \/ MfaExpire(r)
  BY <1>3, <1>4, <1>5, <1>11 DEF CheckLock, MfaCount, MfaExpire, MfaCounted
<1>12. CASE MfaLock(r) \/ MfaForget(r) \/ MfaClear(r)
  BY <1>3, <1>4, <1>5, <1>12 DEF MfaLock, MfaForget, MfaClear
<1>13. CASE Crash(r)
  <2>1. snapshot'[q] = snapshot[q]
    BY <1>0, <1>13 DEF Crash, HandlersOK
  <2> QED BY <1>2, <1>3, <1>13, <2>1 DEF Crash, request
<1> QED BY <1>7, <1>8, <1>9, <1>10, <1>11, <1>12, <1>13 DEF Step

(* Where a handler is after a move.                                         *)
LEMMA Arrives ==
    ASSUME Inv, NEW r \in Requests, NEW label, Move(r, label)
    PROVE  pc'[r] = label /\ kind'[r] = kind[r] /\ account'[r] = account[r]
BY DEF Inv, HandlersOK, Move, Goto, request

WindowOf(s, a) ==
    count[s][a] # 0 /\ ~ttl[s][a] => \E r \in Requests : OpensWindow(r, s, a)

(* A handler that touches no counter and opens no window.                   *)
LEMMA WindowsStay ==
    ASSUME Inv, CounterHasWindow, NEW r \in Requests,
           Step(r),
           pc[r] \notin {"expire", "mfaExpire"} \/ UNCHANGED <<pc, request, todo>>,
           NEW s \in Scopes, NEW a \in Actors,
           count'[s][a] = count[s][a] /\ ttl'[s][a] = ttl[s][a]
    PROVE  WindowOf(s, a)'
<1> SUFFICES ASSUME count[s][a] # 0, ~ttl[s][a]
             PROVE  \E q \in Requests : OpensWindow(q, s, a)'
  BY DEF WindowOf
<1>1. PICK q \in Requests : OpensWindow(q, s, a)
  BY DEF CounterHasWindow
<1>2. CASE q # r
  <2>1. pc'[q] = pc[q] /\ kind'[q] = kind[q] /\ account'[q] = account[q] /\ todo'[q] = todo[q]
    BY <1>2, OnlyActor
  <2> QED BY <1>1, <2>1 DEF OpensWindow
<1>3. CASE q = r
  BY <1>1, <1>3 DEF OpensWindow, request
<1> QED BY <1>2, <1>3

(* Deleting counters leaves nothing without a window.                       *)
LEMMA WindowsAfterDel ==
    ASSUME CountersOK, NEW s \in Scopes, NEW actors, Del(s, actors),
           NEW t \in Scopes, NEW a \in Actors
    PROVE  \/ count'[t][a] = 0
           \/ count'[t][a] = count[t][a] /\ ttl'[t][a] = ttl[t][a]
<1>1. CASE t # s
  BY <1>1 DEF Del, CountersOK
<1>2. CASE t = s /\ a \in actors
  BY <1>2 DEF Del, CountersOK
<1>3. CASE t = s /\ a \notin actors
  <2>1. count'[t][a] = count[t][a]
    BY <1>3 DEF Del, CountersOK
  <2>2. ttl'[t][a] = (a \notin actors /\ ttl[t][a])
    BY <1>3 DEF Del, CountersOK
  <2>3. ttl[t][a] \in BOOLEAN
    BY DEF CountersOK
  <2> QED BY <1>3, <2>1, <2>2, <2>3
<1> QED BY <1>1, <1>2, <1>3

LEMMA WindowsStep ==
    ASSUME Inv, CounterHasWindow, [Next]_vars
    PROVE  CounterHasWindow'
<1> USE ScopeNames
<1> SUFFICES ASSUME NEW s \in Scopes, NEW a \in Actors PROVE WindowOf(s, a)'
  BY DEF CounterHasWindow, WindowOf
<1>0. HandlersOK /\ CountersOK /\ WindowOf(s, a)
  BY DEF Inv, ThrottleTypeOK, CountersOK, CounterHasWindow, WindowOf
<1>1. ASSUME NEW r \in Requests,
             \/ Arrive(r) \/ Assert(r) \/ Read(r) \/ Fail(r) \/ ResetFailedLogin(r)
             \/ CheckLock(r) \/ MfaLock(r) \/ Crash(r)
      PROVE  WindowOf(s, a)'
  <2>1. UNCHANGED <<count, ttl>>
    BY <1>1 DEF Arrive, Assert, Read, Fail, ResetFailedLogin, CheckLock, MfaLock, Crash,
                redis
  <2>2. pc[r] \notin {"expire", "mfaExpire"} \/ UNCHANGED <<pc, request, todo>>
    BY <1>1 DEF Arrive, Assert, Read, Fail, ResetFailedLogin, CheckLock, MfaLock, Crash
  <2> QED BY <1>1, <2>1, <2>2, WindowsStay DEF Step
<1>2. ASSUME NEW r \in Requests, Clear(r) \/ MfaClear(r) PROVE WindowOf(s, a)'
  <2>1. PICK t \in Scopes : \E actors : Del(t, actors)
    BY <1>2 DEF Clear, MfaClear
  <2>2. CASE count'[s][a] = 0
    BY <2>2 DEF WindowOf
  <2>3. CASE count'[s][a] = count[s][a] /\ ttl'[s][a] = ttl[s][a]
    BY <1>2, <2>3, WindowsStay DEF Step, Clear, MfaClear
  <2> QED BY <1>0, <2>1, <2>2, <2>3, WindowsAfterDel
<1>3. ASSUME NEW r \in Requests, Count(r) PROVE WindowOf(s, a)'
  <2> DEFINE t == RateScope(kind[r])
             b == Head(todo[r])
  <2>1. b \in Actors /\ pc[r] = "count" /\ Incr(t, b) /\ UNCHANGED ttl
    BY <1>0, <1>3, HeadType DEF Count, Visiting
  <2>2. CASE t = s /\ b = a /\ count[s][a] = 0
    <3>1. Move(r, "expire") /\ UNCHANGED todo
      BY <1>3, <2>2 DEF Count, NeedsExpire
    <3> QED BY <2>2, <3>1, Arrives DEF WindowOf, OpensWindow
  <2>3. CASE t = s /\ b = a /\ count[s][a] # 0
    <3> SUFFICES ASSUME ~ttl'[s][a]
                 PROVE  \E q \in Requests : OpensWindow(q, s, a)'
      BY DEF WindowOf
    <3>1. PICK q \in Requests : OpensWindow(q, s, a)
      BY <1>0, <2>1, <2>3 DEF WindowOf
    <3>2. q # r
      BY <2>1, <3>1 DEF OpensWindow
    <3>3. /\ pc'[q] = pc[q] /\ kind'[q] = kind[q] /\ account'[q] = account[q]
          /\ todo'[q] = todo[q]
      BY <1>3, <3>2, OnlyActor DEF Step
    <3> QED BY <3>1, <3>3 DEF OpensWindow
  <2>4. CASE ~(t = s /\ b = a)
    <3>1. count'[s][a] = count[s][a]
      BY <1>0, <2>1, <2>4 DEF Incr, CountersOK
    <3> QED BY <1>3, <2>1, <3>1, WindowsStay DEF Step
  <2> QED BY <2>2, <2>3, <2>4
<1>4. ASSUME NEW r \in Requests, MfaCount(r) PROVE WindowOf(s, a)'
  <2> DEFINE b == account[r]
  <2>1. b \in Actors /\ pc[r] = "mfaCount" /\ Incr("mfa", b) /\ UNCHANGED ttl
    BY <1>0, <1>4, ActorTypes DEF MfaCount
  <2>2. CASE s = "mfa" /\ b = a /\ count[s][a] = 0
    <3>1. Move(r, "mfaExpire")
      BY <1>4, <2>2 DEF MfaCount
    <3> QED BY <2>2, <3>1, Arrives DEF WindowOf, OpensWindow
  <2>3. CASE s = "mfa" /\ b = a /\ count[s][a] # 0
    <3> SUFFICES ASSUME ~ttl'[s][a]
                 PROVE  \E q \in Requests : OpensWindow(q, s, a)'
      BY DEF WindowOf
    <3>1. PICK q \in Requests : OpensWindow(q, s, a)
      BY <1>0, <2>1, <2>3 DEF WindowOf
    <3>2. q # r
      BY <2>1, <3>1 DEF OpensWindow
    <3>3. /\ pc'[q] = pc[q] /\ kind'[q] = kind[q] /\ account'[q] = account[q]
          /\ todo'[q] = todo[q]
      BY <1>4, <3>2, OnlyActor DEF Step
    <3> QED BY <3>1, <3>3 DEF OpensWindow
  <2>4. CASE ~(s = "mfa" /\ b = a)
    <3>1. count'[s][a] = count[s][a]
      BY <1>0, <2>1, <2>4 DEF Incr, CountersOK
    <3> QED BY <1>4, <2>1, <3>1, WindowsStay DEF Step
  <2> QED BY <2>2, <2>3, <2>4
<1>5. ASSUME NEW r \in Requests, NEW t \in Scopes, NEW b \in Actors,
             ExpireRate(r) \/ MfaExpire(r), Expire(t, b), UNCHANGED count,
             OpensWindow(r, s, a) => t = s /\ b = a
      PROVE  WindowOf(s, a)'
  <2>1. CASE t = s /\ b = a
    BY <1>0, <1>5, <2>1 DEF Expire, CountersOK, WindowOf
  <2>2. CASE ~(t = s /\ b = a)
    <3>1. ttl'[s][a] = ttl[s][a] /\ count'[s][a] = count[s][a]
      BY <1>0, <1>5, <2>2 DEF Expire, CountersOK
    <3> SUFFICES ASSUME count[s][a] # 0, ~ttl[s][a]
                 PROVE  \E q \in Requests : OpensWindow(q, s, a)'
      BY <3>1 DEF WindowOf
    <3>2. PICK q \in Requests : OpensWindow(q, s, a)
      BY <1>0 DEF WindowOf
    <3>3. q # r
      BY <1>5, <2>2, <3>2
    <3>4. /\ pc'[q] = pc[q] /\ kind'[q] = kind[q] /\ account'[q] = account[q]
          /\ todo'[q] = todo[q]
      BY <1>5, <3>3, OnlyActor DEF Step
    <3> QED BY <3>2, <3>4 DEF OpensWindow
  <2> QED BY <2>1, <2>2
<1>6. ASSUME NEW r \in Requests, ExpireRate(r) PROVE WindowOf(s, a)'
  <2>1. Head(todo[r]) \in Actors
    BY <1>0, <1>6, HeadType DEF ExpireRate, Visiting
  <2>2. /\ Expire(RateScope(kind[r]), Head(todo[r])) /\ UNCHANGED count
        /\ OpensWindow(r, s, a) => RateScope(kind[r]) = s /\ Head(todo[r]) = a
    BY <1>6 DEF ExpireRate, OpensWindow
  <2> QED BY <1>5, <1>6, <2>1, <2>2
<1>7. ASSUME NEW r \in Requests, MfaExpire(r) PROVE WindowOf(s, a)'
  <2>1. account[r] \in Actors
    BY <1>0, <1>7, ActorTypes DEF MfaExpire
  <2>2. /\ Expire("mfa", account[r]) /\ UNCHANGED count
        /\ OpensWindow(r, s, a) => "mfa" = s /\ account[r] = a
    BY <1>7 DEF MfaExpire, OpensWindow
  <2> QED BY <1>5, <1>7, <2>1, <2>2
<1>8. ASSUME NEW r \in Requests, MfaForget(r) PROVE WindowOf(s, a)'
  <2>1. CASE s = "mfa" /\ a = account[r]
    BY <1>0, <1>8, <2>1 DEF MfaForget, WindowOf, CountersOK
  <2>2. CASE ~(s = "mfa" /\ a = account[r])
    <3>1. count'[s][a] = count[s][a] /\ ttl'[s][a] = ttl[s][a]
      BY <1>0, <1>8, <2>2 DEF MfaForget, CountersOK
    <3> QED BY <1>8, <3>1, WindowsStay DEF Step, MfaForget
  <2> QED BY <2>1, <2>2
<1>9. ASSUME UNCHANGED <<pc, request, todo>>,
             \/ count'[s][a] = 0
             \/ count'[s][a] = count[s][a] /\ ttl'[s][a] = ttl[s][a]
      PROVE  WindowOf(s, a)'
  BY <1>0, <1>9 DEF WindowOf, OpensWindow, request
<1>10. ASSUME NEW t \in Scopes, NEW b \in Actors, Lapse(t, b) PROVE WindowOf(s, a)'
  BY <1>0, <1>9, <1>10, WindowsAfterDel DEF Lapse
<1>11. ASSUME NEW b \in Accounts, Unbar(b) \/ Unlock(b) PROVE WindowOf(s, a)'
  BY <1>9, <1>11 DEF Unbar, Unlock, redis
<1>12. ASSUME UNCHANGED vars PROVE WindowOf(s, a)'
  BY <1>9, <1>12 DEF vars, redis
<1> QED BY <1>1, <1>2, <1>3, <1>4, <1>6, <1>7, <1>8, <1>10, <1>11, <1>12
        DEF Next, Continue, Idle

(* No counter stays behind without a window, however the INCRs and EXPIREs  *)
(* of several handlers, the DELs and the ends of windows mix: only one cut  *)
(* off between its INCR and its EXPIRE can leave one.                       *)
THEOREM CountersHaveWindows == Spec => []CounterHasWindow
<1>1. Init => CounterHasWindow
  BY DEF Init, CounterHasWindow
<1>2. Inv /\ CounterHasWindow /\ [Next]_vars => CounterHasWindow'
  BY WindowsStep
<1> QED BY <1>1, <1>2, InvIsInvariant, PTL DEF Spec

(* The window of a, and who is to open it, after a step: a window stays     *)
(* while its counter stands, and a handler leaves its EXPIRE to nobody.     *)
WindowPersists(s, a) ==
    count[s][a] # 0 /\ ttl[s][a] => count'[s][a] = 0 \/ ttl'[s][a]

WindowIsOpened(r, s, a) ==
    OpensWindow(r, s, a) =>
        OpensWindow(r, s, a)' \/ count'[s][a] = 0 \/ ttl'[s][a]

LEMMA WindowPersistsStep ==
    ASSUME Inv, [Next]_vars, NEW s \in Scopes, NEW a \in Actors
    PROVE  WindowPersists(s, a)
<1> USE ScopeNames
<1>0. HandlersOK /\ CountersOK
  BY DEF Inv, ThrottleTypeOK, CountersOK
<1>1. ASSUME ttl'[s][a] = ttl[s][a] \/ count'[s][a] = 0 PROVE WindowPersists(s, a)
  BY <1>1 DEF WindowPersists
<1>2. ASSUME NEW r \in Requests,
             \/ Arrive(r) \/ Assert(r) \/ Read(r) \/ Fail(r) \/ ResetFailedLogin(r)
             \/ Count(r) \/ CheckLock(r) \/ MfaCount(r) \/ MfaLock(r) \/ Crash(r)
      PROVE  WindowPersists(s, a)
  <2>1. UNCHANGED ttl
    BY <1>2 DEF Arrive, Assert, Read, Fail, ResetFailedLogin, Count, CheckLock, MfaCount,
                MfaLock, Crash, redis
  <2> QED BY <1>1, <2>1
<1>3. ASSUME NEW t \in Scopes, NEW actors, Del(t, actors) PROVE WindowPersists(s, a)
  BY <1>0, <1>1, <1>3, WindowsAfterDel
<1>4. ASSUME NEW t \in Scopes, NEW b \in Actors, Expire(t, b) PROVE WindowPersists(s, a)
  <2>1. CASE t = s /\ b = a
    BY <1>0, <1>4, <2>1 DEF Expire, CountersOK, WindowPersists
  <2>2. CASE ~(t = s /\ b = a)
    BY <1>0, <1>1, <1>4, <2>2 DEF Expire, CountersOK
  <2> QED BY <2>1, <2>2
<1>5. ASSUME NEW r \in Requests, Clear(r) \/ MfaClear(r) PROVE WindowPersists(s, a)
  BY <1>3, <1>5 DEF Clear, MfaClear
<1>6. ASSUME NEW r \in Requests, ExpireRate(r) PROVE WindowPersists(s, a)
  <2>1. Head(todo[r]) \in Actors
    BY <1>0, <1>6, HeadType DEF ExpireRate, Visiting
  <2> QED BY <1>4, <1>6, <2>1 DEF ExpireRate
<1>7. ASSUME NEW r \in Requests, MfaExpire(r) PROVE WindowPersists(s, a)
  <2>1. account[r] \in Actors
    BY <1>0, <1>7, ActorTypes DEF MfaExpire
  <2> QED BY <1>4, <1>7, <2>1 DEF MfaExpire
<1>8. ASSUME NEW r \in Requests, MfaForget(r) PROVE WindowPersists(s, a)
  <2>1. CASE s = "mfa" /\ a = account[r]
    BY <1>0, <1>1, <1>8, <2>1 DEF MfaForget, CountersOK
  <2>2. CASE ~(s = "mfa" /\ a = account[r])
    BY <1>0, <1>1, <1>8, <2>2 DEF MfaForget, CountersOK
  <2> QED BY <2>1, <2>2
<1>9. ASSUME NEW t \in Scopes, NEW b \in Actors, Lapse(t, b) PROVE WindowPersists(s, a)
  BY <1>3, <1>9 DEF Lapse
<1>10. ASSUME NEW b \in Accounts, Unbar(b) \/ Unlock(b) PROVE WindowPersists(s, a)
  BY <1>1, <1>10 DEF Unbar, Unlock, redis
<1>11. ASSUME UNCHANGED vars PROVE WindowPersists(s, a)
  BY <1>1, <1>11 DEF vars, redis
<1> QED BY <1>2, <1>5, <1>6, <1>7, <1>8, <1>9, <1>10, <1>11 DEF Next, Continue, Idle

LEMMA WindowIsOpenedStep ==
    ASSUME Inv, [Next]_vars, NEW r \in Requests, NEW s \in Scopes, NEW a \in Actors
    PROVE  WindowIsOpened(r, s, a)
<1> USE ScopeNames
<1> SUFFICES ASSUME OpensWindow(r, s, a)
             PROVE  OpensWindow(r, s, a)' \/ count'[s][a] = 0 \/ ttl'[s][a]
  BY DEF WindowIsOpened
<1>0. HandlersOK /\ CountersOK
  BY DEF Inv, ThrottleTypeOK, CountersOK
<1>1. pc[r] \in {"expire", "mfaExpire"}
  BY DEF OpensWindow
<1>2. ASSUME pc'[r] = pc[r], kind'[r] = kind[r], account'[r] = account[r], todo'[r] = todo[r]
      PROVE  OpensWindow(r, s, a)'
  BY <1>2 DEF OpensWindow
<1>3. ASSUME NEW q \in Requests, Step(q), q # r PROVE OpensWindow(r, s, a)'
  BY <1>2, <1>3, OnlyActor
<1>4. ASSUME Step(r)
      PROVE  OpensWindow(r, s, a)' \/ count'[s][a] = 0 \/ ttl'[s][a]
  <2>1. ExpireRate(r) \/ MfaExpire(r) \/ Crash(r)
    BY <1>1, <1>4 DEF Step, Arrive, Assert, Read, Fail, ResetFailedLogin, Clear, Count,
                      CheckLock, MfaCount, MfaLock, MfaForget, MfaClear
  <2>2. CASE Crash(r)
    BY <1>1, <1>2, <2>2 DEF Crash, request
  <2>3. CASE ExpireRate(r) \/ MfaExpire(r)
    <3>1. Expire(s, a) /\ UNCHANGED count
      BY <2>3 DEF ExpireRate, MfaExpire, OpensWindow
    <3> QED BY <1>0, <3>1 DEF Expire, CountersOK
  <2> QED BY <2>1, <2>2, <2>3
<1>5. ASSUME UNCHANGED <<pc, request, todo>> PROVE OpensWindow(r, s, a)'
  BY <1>2, <1>5 DEF request
<1>6. (\E t \in Scopes, b \in Actors : Lapse(t, b)) \/ (\E b \in Accounts : Unbar(b) \/ Unlock(b))
         \/ UNCHANGED vars => UNCHANGED <<pc, request, todo>>
  BY DEF Lapse, Unbar, Unlock, vars
<1> QED BY <1>3, <1>4, <1>5, <1>6 DEF Next, Continue, Step, Idle

(* A counter cannot slip past its end.  As long as it stands, the window it *)
(* has stays with it, whatever mix of INCR, EXPIRE and DEL the handlers     *)
(* send, and a handler that has to open the window does not leave before    *)
(* there is one: all that BlockLifts needs of the steps, for every counter. *)
THEOREM BlocksKeepTheirEnd ==
    Spec => [][\A s \in Scopes, a \in Actors :
                  /\ WindowPersists(s, a)
                  /\ \A r \in Requests : WindowIsOpened(r, s, a)]_vars
<1>1. Inv /\ [Next]_vars => [\A s \in Scopes, a \in Actors :
                                /\ WindowPersists(s, a)
                                /\ \A r \in Requests : WindowIsOpened(r, s, a)]_vars
  BY WindowPersistsStep, WindowIsOpenedStep
<1> QED BY <1>1, InvIsInvariant, PTL DEF Spec

-----------------------------------------------------------------------------
(* Lock-outs.                                                               *)

Limit == Limits["password"]

(* What is counted was earned: by the column, and by each handler that is   *)
(* about to write a count back.                                             *)
Earned ==
    /\ \A a \in Accounts :
          failed[a] <= wrong[a] /\ failed[a] < Limit /\ wrong[a] <= Limit
    /\ \A r \in Requests : pc[r] = "fail" => snapshot[r] + 1 <= wrong[account[r]]

LEMMA LimitType == Limit \in Nat /\ Limit > 0
BY ThrottleAssumption DEF Limit

LEMMA EarnedStep ==
    ASSUME Inv, Earned, [Next]_vars
    PROVE  /\ Earned'
           /\ \A a \in Accounts : ~locked[a] /\ locked'[a] => wrong[a] = Limit
<1>0. /\ HandlersOK /\ AccountsOK /\ HandlersOK' /\ AccountsOK'
      /\ snapshot \in [Requests -> Nat] /\ Limit \in Nat /\ Limit > 0
  BY HandlersStep, AccountsStep, LimitType
     DEF Inv, ThrottleTypeOK, AccountsOK, HandlersOK
<1>1. ASSUME NEW r \in Requests, Step(r), pc'[r] # "fail",
             UNCHANGED <<failed, wrong>>
      PROVE  Earned'
  <2>1. ASSUME NEW q \in Requests, pc'[q] = "fail"
        PROVE  pc[q] = "fail" /\ snapshot'[q] = snapshot[q] /\ account'[q] = account[q]
    BY <1>1, <2>1, OnlyActor
  <2> QED BY <1>1, <2>1 DEF Earned, Limit
<1>2. ASSUME NEW r \in Requests,
             \/ Arrive(r) \/ Assert(r) \/ Count(r) \/ ExpireRate(r) \/ Clear(r)
             \/ CheckLock(r) \/ MfaCount(r) \/ MfaExpire(r) \/ MfaLock(r)
             \/ MfaForget(r) \/ MfaClear(r) \/ Crash(r)
      PROVE  Earned' /\ UNCHANGED locked
  <2>1. UNCHANGED <<failed, locked, wrong>>
    BY <1>2 DEF Arrive, Assert, Count, ExpireRate, Clear, CheckLock, MfaCount, MfaExpire,
                MfaLock, MfaForget, MfaClear, Crash, database, history
  <2>2. ASSUME NEW label, Goto(r, label) PROVE pc'[r] = label
    BY <1>0, <2>2 DEF Goto, HandlersOK
  <2>3. pc'[r] # "fail"
    <3>1. End(r) => pc'[r] # "fail"
      BY <2>2 DEF End
    <3>2. ASSUME NEW label, Move(r, label) PROVE pc'[r] = label
      BY <2>2, <3>2 DEF Move
    <3>3. MfaFailed(r) \/ NextActor(r) => pc'[r] # "fail"
      BY <3>1, <3>2 DEF MfaFailed, NextActor
    <3>4. CASE Arrive(r)
      BY <2>2, <3>4 DEF Arrive
    <3>5. CASE Assert(r) \/ Clear(r) \/ MfaLock(r) \/ MfaClear(r)
      BY <3>1, <3>2, <3>5 DEF Assert, Clear, MfaLock, MfaClear
    <3>6. CASE Count(r) \/ ExpireRate(r) \/ MfaForget(r)
      BY <3>2, <3>3, <3>6 DEF Count, ExpireRate, MfaForget
    <3>7. CASE CheckLock(r) \/ MfaCount(r) \/ MfaExpire(r)
      BY <3>1, <3>2, <3>3, <3>7 DEF CheckLock, MfaCount, MfaExpire, MfaCounted
    <3>8. CASE Crash(r)
      BY <3>1, <3>8 DEF Crash
    <3> QED BY <1>2, <3>4, <3>5, <3>6, <3>7, <3>8
  <2> QED BY <1>1, <1>2, <2>1, <2>3 DEF Step
<1>3. ASSUME NEW r \in Requests, Read(r) PROVE Earned' /\ UNCHANGED locked
  <2>1. UNCHANGED <<failed, locked>>
    BY <1>3 DEF Read, database
  <2>2. CASE UNCHANGED wrong /\ (Move(r, "count") \/ End(r) \/ Move(r, "reset"))
    <3>1. pc'[r] # "fail"
      BY <1>0, <2>2 DEF Move, End, Goto, HandlersOK
    <3> QED BY <1>1, <1>3, <2>1, <2>2, <3>1 DEF Step
  <2>3. CASE /\ Move(r, "fail")
             /\ snapshot' = [snapshot EXCEPT ![r] = failed[account[r]]]
             /\ wrong' = [wrong EXCEPT ![account[r]] =
                             IF @ < Limits["password"] THEN @ + 1 ELSE @]
    <3>1. account[r] \in Accounts
      BY <1>0, <1>3, ActorTypes DEF Read
    <3>2. /\ wrong'[account[r]] = IF wrong[account[r]] < Limit THEN wrong[account[r]] + 1
                                                               ELSE wrong[account[r]]
          /\ \A a \in Accounts \ {account[r]} : wrong'[a] = wrong[a]
      BY <1>0, <2>3, <3>1 DEF AccountsOK, Limit
    <3>3. /\ \A a \in Accounts : wrong[a] \in Nat /\ failed[a] \in Nat
          /\ \A a \in Accounts :
                failed[a] <= wrong[a] /\ failed[a] < Limit /\ wrong[a] <= Limit
      BY <1>0 DEF AccountsOK, Earned
    <3>4. \A a \in Accounts : wrong[a] <= wrong'[a] /\ wrong'[a] <= Limit /\ wrong'[a] \in Nat
      BY <1>0, <3>1, <3>2, <3>3
    <3>5. failed[account[r]] + 1 <= wrong'[account[r]]
      BY <1>0, <3>1, <3>2, <3>3
    <3>6. ASSUME NEW q \in Requests, pc'[q] = "fail"
          PROVE  snapshot'[q] + 1 <= wrong'[account'[q]]
      <4>1. CASE q = r
        <5>1. account'[r] = account[r] /\ snapshot'[r] = failed[account[r]]
          BY <1>0, <2>3 DEF Move, request
        <5> QED BY <3>5, <4>1, <5>1
      <4>2. CASE q # r
        <5>1. pc[q] = "fail" /\ account'[q] = account[q] /\ snapshot'[q] = snapshot[q]
          BY <1>3, <3>6, <4>2, OnlyActor DEF Step
        <5>2. account[q] \in Accounts /\ snapshot[q] \in Nat
          BY <1>0, <5>1, ActorTypes
        <5>3. snapshot[q] + 1 <= wrong[account[q]]
          BY <5>1 DEF Earned
        <5> QED BY <3>3, <3>4, <5>1, <5>2, <5>3
      <4> QED BY <4>1, <4>2
    <3>7. \A a \in Accounts :
             failed'[a] <= wrong'[a] /\ failed'[a] < Limit /\ wrong'[a] <= Limit
      BY <1>0, <2>1, <3>3, <3>4
    <3> QED BY <2>1, <3>6, <3>7 DEF Earned, Limit
  <2> QED BY <1>3, <2>1, <2>2, <2>3 DEF Read, history
<1>4. ASSUME NEW r \in Requests, Fail(r)
      PROVE  /\ Earned'
             /\ \A a \in Accounts : ~locked[a] /\ locked'[a] => wrong[a] = Limit
  <2>1. account[r] \in Accounts /\ pc[r] = "fail" /\ snapshot[r] \in Nat
    BY <1>0, <1>4, ActorTypes DEF Fail
  <2>2. /\ snapshot[r] + 1 <= wrong[account[r]] /\ wrong[account[r]] <= Limit
        /\ wrong[account[r]] \in Nat
    BY <1>0, <2>1 DEF Earned, AccountsOK
  <2>3. UNCHANGED wrong /\ pc'[r] = "count"
    BY <1>0, <1>4, Arrives DEF Fail, history
  <2>4. ASSUME NEW q \in Requests, pc'[q] = "fail"
        PROVE  snapshot'[q] + 1 <= wrong'[account'[q]]
    <3>1. pc[q] = "fail" /\ account'[q] = account[q] /\ snapshot'[q] = snapshot[q]
      BY <1>4, <2>3, <2>4, OnlyActor DEF Step
    <3> QED BY <2>3, <3>1 DEF Earned
  <2>5. CASE snapshot[r] + 1 >= Limit
    <3>1. wrong[account[r]] = Limit
      BY <1>0, <2>1, <2>2, <2>5
    <3>2. /\ failed' = [failed EXCEPT ![account[r]] = 0]
          /\ locked' = [locked EXCEPT ![account[r]] = TRUE]
      BY <1>4, <2>5 DEF Fail, Limit
    <3>3. \A a \in Accounts : failed'[a] <= wrong'[a] /\ failed'[a] < Limit /\ wrong'[a] <= Limit
      BY <1>0, <2>1, <2>3, <3>2 DEF Earned, AccountsOK
    <3>4. \A a \in Accounts \ {account[r]} : locked'[a] = locked[a]
      BY <1>0, <3>2 DEF AccountsOK
    <3> QED BY <2>4, <3>1, <3>3, <3>4 DEF Earned, Limit
  <2>6. CASE ~(snapshot[r] + 1 >= Limit)
    <3>1. failed' = [failed EXCEPT ![account[r]] = snapshot[r] + 1] /\ UNCHANGED locked
      BY <1>4, <2>6 DEF Fail, Limit
    <3>2. snapshot[r] + 1 < Limit
      BY <1>0, <2>1, <2>6
    <3>3. \A a \in Accounts : failed'[a] <= wrong'[a] /\ failed'[a] < Limit /\ wrong'[a] <= Limit
      BY <1>0, <2>1, <2>2, <2>3, <3>1, <3>2 DEF Earned, AccountsOK
    <3> QED BY <2>4, <3>1, <3>3 DEF Earned, Limit
  <2> QED BY <2>5, <2>6
<1>5. ASSUME NEW r \in Requests, ResetFailedLogin(r)
      PROVE  Earned' /\ \A a \in Accounts : ~locked[a] => ~locked'[a]
  <2>1. account[r] \in Accounts
    BY <1>0, <1>5, ActorTypes DEF ResetFailedLogin
  <2>2. /\ failed' = [failed EXCEPT ![account[r]] = 0]
        /\ locked' = [locked EXCEPT ![account[r]] = FALSE]
        /\ wrong' = [wrong EXCEPT ![account[r]] = IF AtRest(account[r]) THEN 0 ELSE @]
        /\ UNCHANGED snapshot /\ pc'[r] = "clear"
    BY <1>5, Arrives DEF ResetFailedLogin, Rested
  <2>3. \A a \in Accounts : failed'[a] <= wrong'[a] /\ failed'[a] < Limit /\ wrong'[a] <= Limit
    BY <1>0, <2>1, <2>2 DEF Earned, AccountsOK
  <2>4. ASSUME NEW q \in Requests, pc'[q] = "fail"
        PROVE  snapshot'[q] + 1 <= wrong'[account'[q]]
    <3>1. pc[q] = "fail" /\ account'[q] = account[q] /\ snapshot'[q] = snapshot[q]
      BY <1>5, <2>2, <2>4, OnlyActor DEF Step
    <3>2. account[q] \in Accounts /\ snapshot[q] + 1 <= wrong[account[q]]
      BY <1>0, <3>1, ActorTypes DEF Earned
    <3>3. wrong'[account[q]] = wrong[account[q]]
      BY <1>0, <2>2, <3>1, <3>2 DEF AtRest, AccountsOK
    <3> QED BY <3>1, <3>2, <3>3
  <2>5. \A a \in Accounts : ~locked[a] => ~locked'[a]
    BY <1>0, <2>2 DEF AccountsOK
  <2> QED BY <2>3, <2>4, <2>5 DEF Earned, Limit
<1>6. ASSUME UNCHANGED <<failed, wrong, pc, request, snapshot>> PROVE Earned'
  BY <1>6 DEF Earned, Limit, request
<1>7. ASSUME NEW s \in Scopes, NEW b \in Actors, Lapse(s, b)
      PROVE  Earned' /\ UNCHANGED locked
  BY <1>6, <1>7 DEF Lapse, database
<1>8. ASSUME NEW b \in Accounts, Unbar(b) PROVE Earned' /\ UNCHANGED locked
  BY <1>6, <1>8 DEF Unbar, database
<1>9. ASSUME NEW b \in Accounts, Unlock(b)
      PROVE  Earned' /\ \A a \in Accounts : ~locked[a] => ~locked'[a]
  <2>1. Earned'
    BY <1>6, <1>9 DEF Unlock, history
  <2>2. locked' = [locked EXCEPT ![b] = FALSE]
    BY <1>9 DEF Unlock
  <2> QED BY <1>0, <2>1, <2>2 DEF AccountsOK
<1>10. ASSUME UNCHANGED vars PROVE Earned' /\ UNCHANGED locked
  BY <1>6, <1>10 DEF vars, database, history
<1> QED BY <1>2, <1>3, <1>4, <1>5, <1>7, <1>8, <1>9, <1>10 DEF Next, Continue, Idle

(* However many handlers read, count in memory and write back, an account   *)
(* is locked out only after as many wrong passwords as the limit says.      *)
THEOREM LockoutsAreEarned == Spec => LockoutIsEarned
<1>1. Init => Earned
  BY LimitType DEF Init, Earned, Limit
<1>2. Inv /\ Earned /\ [Next]_vars => Earned'
  BY EarnedStep
<1>3. Inv /\ Earned /\ [Next]_vars =>
        [\A a \in Accounts :
           ~locked[a] /\ locked'[a] => wrong[a] = Limits["password"]]_vars
  BY EarnedStep DEF Limit
<1> QED BY <1>1, <1>2, <1>3, InvIsInvariant, PTL DEF Spec, LockoutIsEarned

-----------------------------------------------------------------------------
(* Guesses.                                                                 *)

(* Which step belongs to which kind of request.                             *)
Path(r) ==
    /\ pc[r] \in {"read", "assert", "count", "expire", "clear", "fail", "reset"}
          => RateLimited(kind[r])
    /\ pc[r] \in {"read", "fail", "reset"} => kind[r] \in {"login", "reauth"}
    /\ pc[r] \in {"lock", "mfaCount", "mfaExpire", "mfaLock", "mfaForget", "mfaClear"}
          => kind[r] \in {"verify", "reverify"}

Paths == \A r \in Requests : Path(r)

In(actors, a) == \E i \in 1 .. Len(actors) : actors[i] = a

(* The counters of the rate limiter that the request of r is about.         *)
Concerns(r, s, a) ==
    /\ RateLimited(kind[r]) /\ RateScope(kind[r]) = s
    /\ a \in {account[r], address[r]} \ {Nobody}

(* The handler has seen that the counter is below its limit and has not     *)
(* compared a password or a code yet.                                       *)
Admitted(r, s, a) ==
    /\ r \notin dead /\ Concerns(r, s, a)
    /\ pc[r] \in {"read", "lock"} \/ (pc[r] = "assert" /\ ~In(todo[r], a))

(* A wrong guess of the handler may be missing in the counter.              *)
Owes(r, s, a) ==
    \/ r \in dead
    \/ /\ Concerns(r, s, a)
       /\ \/ pc[r] \in {"fail", "mfaCount", "mfaExpire", "mfaLock", "mfaForget"}
          \/ pc[r] = "count" /\ In(todo[r], a)
          \/ pc[r] = "expire" /\ In(Tail(todo[r]), a)

(* The same for the counter of the second factor, where a guess counts as   *)
(* long as its handler has yet to lock the account.                         *)
Late(r, a) ==
    \/ r \in dead
    \/ /\ account[r] = a
       /\ \/ pc[r] \in {"mfaCount", "mfaLock", "mfaForget"}
          \/ pc[r] = "mfaExpire" /\ Limits["mfa"] = 1

AdmittedTo(s, a) == {r \in Requests : Admitted(r, s, a)}

OwingTo(s, a) == {r \in Requests : Owes(r, s, a)}

LateAt(a) == {r \in Requests : Late(r, a)}

(* Wrong guesses are counted or owed, and who is admitted finds room.       *)
RateBound(s, a) ==
    /\ tried[s][a] <= count[s][a] + Cardinality(OwingTo(s, a))
    /\ tried[s][a] + Cardinality(AdmittedTo(s, a)) < Limits[s] + Cardinality(Requests)

Barred(a) == a \in Accounts /\ barred[a]

(* While the account is not barred, wrong guesses are counted or late, and  *)
(* but for the late ones they are below the limit.                          *)
MfaBound(a) ==
    /\ tried["mfa"][a] < Limits["mfa"] + Cardinality(Requests)
    /\ ~Barred(a) =>
          /\ tried["mfa"][a] <= count["mfa"][a] + Cardinality(LateAt(a))
          /\ tried["mfa"][a] < Limits["mfa"] + Cardinality(LateAt(a))

Bounds ==
    /\ \A s \in RateScopes, a \in Actors : RateBound(s, a)
    /\ \A a \in Actors : MfaBound(a)

(* What a step of r may do to a counter of the rate limiter: leave the      *)
(* guesses alone, guess, or reset it.                                       *)
Tallies(r, s, a) ==
    \/ /\ tried'[s][a] = tried[s][a]
       /\ count'[s][a] >= count[s][a]
       /\ Owes(r, s, a) => Owes(r, s, a)' \/ count'[s][a] = count[s][a] + 1
       /\ Admitted(r, s, a)' => Admitted(r, s, a) \/ count'[s][a] < Limits[s]
    \/ /\ tried'[s][a] = tried[s][a] + 1 /\ count'[s][a] = count[s][a]
       /\ Admitted(r, s, a) /\ ~Admitted(r, s, a)'
       /\ ~Owes(r, s, a) /\ Owes(r, s, a)'
    \/ tried'[s][a] = 0

MfaTallies(r, a) ==
    \/ tried'["mfa"][a] = 0
    \/ tried'["mfa"][a] = tried["mfa"][a] /\ Barred(a)'
    \/ /\ tried'["mfa"][a] = tried["mfa"][a] /\ ~Barred(a)
       /\ count'["mfa"][a] >= count["mfa"][a]
       /\ Late(r, a) => \/ Late(r, a)'
                        \/ /\ count'["mfa"][a] = count["mfa"][a] + 1
                           /\ count'["mfa"][a] < Limits["mfa"]
    \/ /\ tried'["mfa"][a] = tried["mfa"][a] + 1 /\ count'["mfa"][a] = count["mfa"][a]
       /\ ~Barred(a) /\ ~Late(r, a) /\ Late(r, a)'

(* The other handlers stay what they were.                                  *)
Others(r) ==
    \A q \in Requests \ {r} :
        /\ \A s \in RateScopes, a \in Actors :
              /\ Owes(q, s, a)' <=> Owes(q, s, a)
              /\ Admitted(q, s, a)' <=> Admitted(q, s, a)
        /\ \A a \in Actors : Late(q, a)' <=> Late(q, a)

LEMMA Sizes ==
    ASSUME NEW S \in SUBSET Requests, NEW T \in SUBSET Requests, NEW r \in Requests
    PROVE  /\ Cardinality(S) \in Nat /\ Cardinality(Requests) \in Nat
           /\ Cardinality(S) <= Cardinality(Requests)
           /\ S \subseteq T => Cardinality(S) <= Cardinality(T)
           /\ S \subseteq T \cup {r} => Cardinality(S) <= Cardinality(T) + 1
           /\ S \subseteq T /\ r \in T \ S => Cardinality(S) + 1 <= Cardinality(T)
           /\ S \cap T = {} => Cardinality(S) + Cardinality(T) <= Cardinality(Requests)
<1>1. IsFiniteSet(Requests) /\ IsFiniteSet(S) /\ IsFiniteSet(T)
  BY ThrottleAssumption, FS_Subset
<1>2. /\ Cardinality(S) \in Nat /\ Cardinality(Requests) \in Nat /\ Cardinality(T) \in Nat
      /\ Cardinality(S) <= Cardinality(Requests)
  BY <1>1, FS_CardinalityType, FS_Subset
<1>3. S \subseteq T => Cardinality(S) <= Cardinality(T)
  BY <1>1, FS_Subset
<1>4. S \subseteq T \cup {r} => Cardinality(S) <= Cardinality(T) + 1
  <2>1. /\ IsFiniteSet(T \cup {r})
        /\ \/ Cardinality(T \cup {r}) = Cardinality(T)
           \/ Cardinality(T \cup {r}) = Cardinality(T) + 1
    BY <1>1, FS_AddElement, Zenon
  <2>2. S \subseteq T \cup {r} => Cardinality(S) <= Cardinality(T \cup {r})
    BY <2>1, FS_Subset
  <2>3. Cardinality(T \cup {r}) \in Nat
    BY <2>1, FS_CardinalityType
  <2> QED BY <1>2, <2>1, <2>2, <2>3
<1>5. S \subseteq T /\ r \in T \ S => Cardinality(S) + 1 <= Cardinality(T)
  <2>1. r \notin S => IsFiniteSet(S \cup {r}) /\ Cardinality(S \cup {r}) = Cardinality(S) + 1
    BY <1>1, FS_AddElement
  <2>2. S \subseteq T /\ r \in T => S \cup {r} \in SUBSET T
    OBVIOUS
  <2> QED BY <1>1, <2>1, <2>2, FS_Subset
<1>6. S \cap T = {} => Cardinality(S) + Cardinality(T) <= Cardinality(Requests)
  <2> SUFFICES ASSUME S \cap T = {} PROVE Cardinality(S) + Cardinality(T) <= Cardinality(Requests)
    OBVIOUS
  <2>1. Cardinality(S \cup T) = Cardinality(S) + Cardinality(T) - Cardinality(S \cap T)
    BY <1>1, FS_Union
  <2>2. Cardinality(S \cap T) = 0
    BY FS_EmptySet
  <2>3. Cardinality(S \cup T) <= Cardinality(Requests)
    BY <1>1, FS_Subset
  <2> QED BY <1>2, <2>1, <2>2, <2>3
<1> QED BY <1>2, <1>3, <1>4, <1>5, <1>6

LEMMA RateBoundStays ==
    ASSUME Inv, Inv', NEW r \in Requests, NEW s \in RateScopes, NEW a \in Actors,
           Others(r), Tallies(r, s, a), RateBound(s, a)
    PROVE  RateBound(s, a)'
<1> DEFINE O == Cardinality(OwingTo(s, a))
           P == Cardinality(OwingTo(s, a)')
           A == Cardinality(AdmittedTo(s, a))
           B == Cardinality(AdmittedTo(s, a)')
           R == Cardinality(Requests)
           T == tried[s][a]
           U == tried'[s][a]
           C == count[s][a]
           D == count'[s][a]
<1>1. /\ OwingTo(s, a) \in SUBSET Requests /\ OwingTo(s, a)' \in SUBSET Requests
      /\ AdmittedTo(s, a) \in SUBSET Requests /\ AdmittedTo(s, a)' \in SUBSET Requests
  BY DEF OwingTo, AdmittedTo
<1>2. O \in Nat /\ P \in Nat /\ A \in Nat /\ B \in Nat /\ R \in Nat /\ B <= R
  BY <1>1, Sizes
<1>3. /\ T \in Nat /\ U \in Nat /\ C \in Nat /\ D \in Nat
      /\ Limits[s] \in Nat /\ Limits[s] > 0
  BY ThrottleAssumption DEF Inv, ThrottleTypeOK, Scopes
<1>4. B + P <= R
  <2>1. AdmittedTo(s, a)' \cap OwingTo(s, a)' = {}
    BY DEF AdmittedTo, OwingTo, Admitted, Owes
  <2> HIDE DEF O, A
  <2> QED BY <1>1, <2>1, Sizes
<1>5. O <= P + 1 /\ ((Owes(r, s, a) => Owes(r, s, a)') => O <= P)
  <2>1. OwingTo(s, a) \subseteq OwingTo(s, a)' \cup {r}
    BY DEF OwingTo, Others
  <2>2. (Owes(r, s, a) => Owes(r, s, a)') => OwingTo(s, a) \subseteq OwingTo(s, a)'
    BY DEF OwingTo, Others
  <2> QED BY <1>1, <2>1, <2>2, Sizes
<1>6. T <= C + O /\ T + A < Limits[s] + R
  BY DEF RateBound
<1>7. (Admitted(r, s, a)' => Admitted(r, s, a)) => B <= A
  <2>1. (Admitted(r, s, a)' => Admitted(r, s, a)) => AdmittedTo(s, a)' \subseteq AdmittedTo(s, a)
    BY DEF AdmittedTo, Others
  <2> QED BY <1>1, <2>1, Sizes
<1>8. SUFFICES U <= D + P /\ U + B < Limits[s] + R
  BY DEF RateBound
<1> HIDE DEF O, P, A, B, R, T, U, C, D
<1>9. CASE /\ U = T /\ D >= C
           /\ Owes(r, s, a) => Owes(r, s, a)' \/ D = C + 1
           /\ Admitted(r, s, a)' => Admitted(r, s, a) \/ D < Limits[s]
  <2>1. U <= D + P
    BY <1>2, <1>3, <1>5, <1>6, <1>9
  <2>2. CASE D < Limits[s]
    BY <1>2, <1>3, <1>4, <2>1, <2>2
  <2>3. CASE Admitted(r, s, a)' => Admitted(r, s, a)
    BY <1>2, <1>3, <1>6, <1>7, <1>9, <2>1, <2>3
  <2> QED BY <1>9, <2>1, <2>2, <2>3
<1>10. CASE /\ U = T + 1 /\ D = C
            /\ Admitted(r, s, a) /\ ~Admitted(r, s, a)'
            /\ ~Owes(r, s, a) /\ Owes(r, s, a)'
  <2>1. O + 1 <= P
    <3>1. OwingTo(s, a) \subseteq OwingTo(s, a)' /\ r \in OwingTo(s, a)' \ OwingTo(s, a)
      BY <1>10 DEF OwingTo, Others
    <3> QED BY <1>1, <3>1, Sizes DEF O, P
  <2>2. B + 1 <= A
    <3>1. /\ AdmittedTo(s, a)' \subseteq AdmittedTo(s, a)
          /\ r \in AdmittedTo(s, a) \ AdmittedTo(s, a)'
      BY <1>10 DEF AdmittedTo, Others
    <3> QED BY <1>1, <3>1, Sizes DEF A, B
  <2> QED BY <1>2, <1>3, <1>6, <1>10, <2>1, <2>2
<1>11. CASE U = 0
  BY <1>2, <1>3, <1>11
<1> QED BY <1>9, <1>10, <1>11 DEF Tallies, T, U, C, D

LEMMA MfaBoundStays ==
    ASSUME Inv, Inv', NEW r \in Requests, NEW a \in Actors,
           Others(r), MfaTallies(r, a), MfaBound(a)
    PROVE  MfaBound(a)'
<1> DEFINE L == Cardinality(LateAt(a))
           M == Cardinality(LateAt(a)')
           R == Cardinality(Requests)
           T == tried["mfa"][a]
           U == tried'["mfa"][a]
           C == count["mfa"][a]
           D == count'["mfa"][a]
           Most == Limits["mfa"]
<1>1. LateAt(a) \in SUBSET Requests /\ LateAt(a)' \in SUBSET Requests
  BY DEF LateAt
<1>2. L \in Nat /\ M \in Nat /\ R \in Nat /\ M <= R
  BY <1>1, Sizes
<1>3. T \in Nat /\ U \in Nat /\ C \in Nat /\ D \in Nat /\ Most \in Nat /\ Most > 0
  BY ThrottleAssumption DEF Inv, ThrottleTypeOK, Scopes
<1>4. L <= M + 1 /\ ((Late(r, a) => Late(r, a)') => L <= M)
  <2>1. LateAt(a) \subseteq LateAt(a)' \cup {r}
    BY DEF LateAt, Others
  <2>2. (Late(r, a) => Late(r, a)') => LateAt(a) \subseteq LateAt(a)'
    BY DEF LateAt, Others
  <2> QED BY <1>1, <2>1, <2>2, Sizes
<1>5. T < Most + R /\ (~Barred(a) => T <= C + L /\ T < Most + L)
  BY DEF MfaBound
<1>6. SUFFICES U < Most + R /\ (~Barred(a)' => U <= D + M /\ U < Most + M)
  BY DEF MfaBound
<1> HIDE DEF L, M, R, T, U, C, D, Most
<1>7. CASE U = 0
  BY <1>2, <1>3, <1>7
<1>8. CASE U = T /\ Barred(a)'
  BY <1>5, <1>8
<1>9. CASE /\ U = T /\ ~Barred(a) /\ D >= C
           /\ Late(r, a) => Late(r, a)' \/ (D = C + 1 /\ D < Most)
  <2>1. CASE Late(r, a) => Late(r, a)'
    BY <1>2, <1>3, <1>4, <1>5, <1>9, <2>1
  <2>2. CASE D = C + 1 /\ D < Most
    BY <1>2, <1>3, <1>4, <1>5, <1>9, <2>2
  <2> QED BY <1>9, <2>1, <2>2
<1>10. CASE U = T + 1 /\ D = C /\ ~Barred(a) /\ ~Late(r, a) /\ Late(r, a)'
  <2>1. L + 1 <= M
    <3>1. LateAt(a) \subseteq LateAt(a)' /\ r \in LateAt(a)' \ LateAt(a)
      BY <1>10 DEF LateAt, Others
    <3> QED BY <1>1, <3>1, Sizes DEF L, M
  <2> QED BY <1>2, <1>3, <1>5, <1>10, <2>1
<1> QED BY <1>7, <1>8, <1>9, <1>10 DEF MfaTallies, T, U, C, D, Most

LEMMA AfterMove ==
    ASSUME Inv, NEW r \in Requests, NEW label, Move(r, label)
    PROVE  /\ pc'[r] = label /\ kind'[r] = kind[r]
           /\ account'[r] = account[r] /\ address'[r] = address[r]
           /\ \A s, a : Concerns(r, s, a)' <=> Concerns(r, s, a)
<1>1. /\ pc'[r] = label /\ kind'[r] = kind[r]
      /\ account'[r] = account[r] /\ address'[r] = address[r]
  BY DEF Inv, HandlersOK, Move, Goto, request
<1> QED BY <1>1 DEF Concerns

LEMMA AfterEnd ==
    ASSUME Inv, NEW r \in Requests, End(r)
    PROVE  /\ pc'[r] = "start" /\ kind'[r] = "login"
           /\ \A a \in Actors : account'[r] # a
           /\ \A s, a : ~Concerns(r, s, a)'
<1>1. /\ pc'[r] = "start" /\ kind'[r] = "login"
      /\ account'[r] = Nobody /\ address'[r] = Nobody
  BY DEF Inv, HandlersOK, End, Goto
<1>2. Nobody \notin Actors
  BY ThrottleAssumption DEF Actors
<1> QED BY <1>1, <1>2 DEF Concerns

LEMMA AfterDo ==
    ASSUME Inv, NEW r \in Requests, NEW actors, Do(r, actors)
    PROVE  todo'[r] = actors
BY DEF Inv, HandlersOK, Do

(* A step of one handler is about itself.                                   *)
LEMMA OthersStay ==
    ASSUME Inv, NEW r \in Requests, Step(r)
    PROVE  Others(r)
<1> SUFFICES ASSUME NEW q \in Requests, q # r
             PROVE  /\ \A s \in RateScopes, a \in Actors :
                          /\ Owes(q, s, a)' <=> Owes(q, s, a)
                          /\ Admitted(q, s, a)' <=> Admitted(q, s, a)
                    /\ \A a \in Actors : Late(q, a)' <=> Late(q, a)
  BY DEF Others
<1>1. /\ pc'[q] = pc[q] /\ kind'[q] = kind[q] /\ account'[q] = account[q]
      /\ todo'[q] = todo[q]
  BY OnlyActor
<1>2. address'[q] = address[q]
  <2>0. HandlersOK
    BY DEF Inv
  <2>1. ASSUME End(r) PROVE address'[q] = address[q]
    BY <2>0, <2>1 DEF End, HandlersOK
  <2>2. ASSUME NEW label, Move(r, label) PROVE address'[q] = address[q]
    BY <2>2 DEF Move, request
  <2>3. CASE Arrive(r)
    BY <2>0, <2>3 DEF Arrive, HandlersOK
  <2>4. CASE \/ Assert(r) \/ Read(r) \/ Fail(r) \/ ResetFailedLogin(r) \/ Clear(r)
             \/ Count(r) \/ ExpireRate(r)
    BY <2>1, <2>2, <2>4
       DEF Assert, Read, Fail, ResetFailedLogin, Clear, Count, ExpireRate, NextActor, request
  <2>5. CASE \/ CheckLock(r) \/ MfaCount(r) \/ MfaExpire(r) \/ MfaLock(r)
             \/ MfaForget(r) \/ MfaClear(r)
    BY <2>1, <2>2, <2>5
       DEF CheckLock, MfaCount, MfaExpire, MfaLock, MfaForget, MfaClear, MfaCounted, MfaFailed
  <2>6. CASE Crash(r)
    BY <2>1, <2>6 DEF Crash, request
  <2> QED BY <2>3, <2>4, <2>5, <2>6 DEF Step
<1>3. q \in dead' <=> q \in dead
  BY DEF Step, Arrive, Assert, Read, Fail, ResetFailedLogin, Clear, Count, ExpireRate,
         CheckLock, MfaCount, MfaExpire, MfaLock, MfaForget, MfaClear, Crash
<1>4. \A s, a : Concerns(q, s, a)' <=> Concerns(q, s, a)
  BY <1>1, <1>2 DEF Concerns
<1> QED BY <1>1, <1>3, <1>4 DEF Owes, Admitted, Late, In

LEMMA PathsStep ==
    ASSUME Inv, Paths, [Next]_vars
    PROVE  Paths'
<1>1. ASSUME NEW r \in Requests, Step(r) PROVE Paths'
  <2>1. \A q \in Requests \ {r} : Path(q)'
    BY <1>1, OnlyActor DEF Paths, Path
  <2>2. ASSUME pc'[r] = "start" PROVE Path(r)'
    BY <2>2 DEF Path
  <2>3. ASSUME NEW label, Move(r, label), RateLimited(kind[r]),
               label \in {"count", "expire", "clear"}
        PROVE  Path(r)'
    BY <2>3, AfterMove DEF Path
  <2>4. ASSUME NextActor(r), RateLimited(kind[r]) PROVE Path(r)'
    BY <2>2, <2>3, <2>4, AfterEnd DEF NextActor
  <2>5. ASSUME MfaFailed(r) PROVE Path(r)'
    <3>1. kind[r] = "reverify" => RateLimited(kind[r])
      BY DEF RateLimited
    <3> QED BY <2>2, <2>3, <2>5, <3>1, AfterEnd DEF MfaFailed
  <2>6. ASSUME NEW label, Move(r, label), kind[r] \in {"verify", "reverify"},
               label \in {"lock", "mfaCount", "mfaExpire", "mfaLock", "mfaForget", "mfaClear"}
        PROVE  Path(r)'
    BY <2>6, AfterMove DEF Path
  <2>7. Path(r) /\ kind[r] \in Kinds
    BY DEF Paths, Inv, HandlersOK
  <2>8. Path(r)'
    <3>1. CASE Arrive(r)
      <4>1. PICK k \in Offered[arrived + 1] :
               /\ kind' = [kind EXCEPT ![r] = k]
               /\ IF RateLimited(k) THEN Goto(r, "assert") ELSE Goto(r, "lock")
        BY <3>1 DEF Arrive
      <4>2. /\ kind'[r] = k
            /\ IF RateLimited(k) THEN pc'[r] = "assert" ELSE pc'[r] = "lock"
        BY <4>1 DEF Goto, Inv, HandlersOK
      <4> QED BY <4>2 DEF Path, RateLimited
    <3>2. CASE Assert(r)
      <4>1. CASE End(r)
        BY <2>2, <4>1, AfterEnd
      <4>2. CASE UNCHANGED <<pc, request>>
        BY <2>7, <4>2 DEF Path, request
      <4>3. CASE Move(r, IF kind[r] = "reverify" THEN "lock" ELSE "read")
        BY <2>7, <3>2, <4>3, AfterMove DEF Path, Assert, Kinds, RateLimited
      <4> QED BY <3>2, <4>1, <4>2, <4>3 DEF Assert
    <3>3. CASE Read(r)
      <4>1. CASE End(r)
        BY <2>2, <4>1, AfterEnd
      <4>2. CASE Move(r, "count") \/ Move(r, "fail") \/ Move(r, "reset")
        BY <2>7, <3>3, <4>2, AfterMove DEF Path, Read
      <4> QED BY <3>3, <4>1, <4>2 DEF Read
    <3>4. CASE Fail(r) \/ ResetFailedLogin(r)
      BY <2>3, <2>7, <3>4 DEF Fail, ResetFailedLogin, Path
    <3>5. CASE Clear(r)
      BY <2>2, <3>5, AfterEnd DEF Clear
    <3>6. CASE Count(r) \/ ExpireRate(r)
      BY <2>3, <2>4, <2>7, <3>6 DEF Count, ExpireRate, Path
    <3>7. CASE CheckLock(r) \/ MfaLock(r) \/ MfaForget(r)
      BY <2>2, <2>5, <2>6, <2>7, <3>7, AfterEnd DEF CheckLock, MfaLock, MfaForget, Path
    <3>8. CASE MfaCount(r) \/ MfaExpire(r)
      BY <2>5, <2>6, <2>7, <3>8 DEF MfaCount, MfaExpire, MfaCounted, Path
    <3>9. CASE MfaClear(r)
      <4>1. kind[r] = "reverify" => RateLimited(kind[r])
        BY DEF RateLimited
      <4> QED BY <2>2, <2>3, <3>9, <4>1, AfterEnd DEF MfaClear
    <3>10. CASE Crash(r)
      <4>1. CASE UNCHANGED <<pc, request>>
        BY <2>7, <4>1 DEF Path, request
      <4> QED BY <2>2, <3>10, <4>1, AfterEnd DEF Crash
    <3> QED BY <1>1, <3>1, <3>2, <3>3, <3>4, <3>5, <3>6, <3>7, <3>8, <3>9, <3>10 DEF Step
  <2> QED BY <2>1, <2>8 DEF Paths
<1>2. ASSUME UNCHANGED <<pc, request>> PROVE Paths'
  BY <1>2 DEF Paths, Path, request
<1> QED BY <1>1, <1>2 DEF Next, Continue, Step, Lapse, Unbar, Unlock, Idle, vars

LEMMA InHead ==
    ASSUME NEW actors \in Seq(Actors), actors # <<>>, NEW a
    PROVE  /\ In(actors, a) => a = Head(actors) \/ In(Tail(actors), a)
           /\ ~(Len(actors) > 1) => ~In(Tail(actors), a)
<1>1. Len(actors) \in Nat /\ Len(actors) > 0 /\ Len(Tail(actors)) = Len(actors) - 1
  OBVIOUS
<1>2. \A i \in 1 .. Len(actors) : i = 1 \/ (i - 1 \in 1 .. Len(Tail(actors))
                                            /\ actors[i] = Tail(actors)[i - 1])
  BY <1>1
<1>3. Head(actors) = actors[1]
  OBVIOUS
<1> QED BY <1>1, <1>2, <1>3 DEF In

LEMMA InRateActors ==
    ASSUME Inv, NEW r \in Requests, NEW s, NEW a, Concerns(r, s, a)
    PROVE  In(RateActors(r), a)
<1>1. a = account[r] \/ (address[r] # Nobody /\ a = address[r])
  BY DEF Concerns
<1>2. CASE a = account[r]
  <2>1. RateActors(r)[1] = a /\ 1 \in 1 .. Len(RateActors(r))
    BY <1>2 DEF RateActors
  <2> QED BY <2>1 DEF In
<1>3. CASE address[r] # Nobody /\ a = address[r]
  <2>1. RateActors(r)[2] = a /\ 2 \in 1 .. Len(RateActors(r))
    BY <1>3 DEF RateActors
  <2> QED BY <2>1 DEF In
<1> QED BY <1>1, <1>2, <1>3

LEMMA GuessTallies ==
    ASSUME Inv, NEW r \in Requests, GuessedWrong(r), NEW a \in Actors
    PROVE  /\ \A s \in RateScopes :
                 tried'[s][a] = IF Concerns(r, s, a) THEN tried[s][a] + 1 ELSE tried[s][a]
           /\ tried'["mfa"][a] =
                 IF kind[r] \in {"verify", "reverify"} /\ account[r] = a
                 THEN tried["mfa"][a] + 1 ELSE tried["mfa"][a]
<1>1. \A s \in Scopes : tried'[s][a] = tried[s][a] + (IF <<s, a>> \in Against(r) THEN 1 ELSE 0)
  BY DEF GuessedWrong
<1>2. \A s \in Scopes : tried[s][a] \in Nat
  BY DEF Inv, ThrottleTypeOK
<1>3. \A s \in RateScopes : s \in Scopes /\ s # "mfa" /\ (<<s, a>> \in Against(r) <=> Concerns(r, s, a))
  BY DEF Against, Concerns, Scopes, RateScopes
<1>4. /\ "mfa" \in Scopes
      /\ <<"mfa", a>> \in Against(r) <=> (kind[r] \in {"verify", "reverify"} /\ account[r] = a)
  BY DEF Against, Scopes, RateScopes, RateScope
<1>5. ASSUME NEW s \in RateScopes
      PROVE  tried'[s][a] = IF Concerns(r, s, a) THEN tried[s][a] + 1 ELSE tried[s][a]
  <2>1. /\ tried'[s][a] = tried[s][a] + (IF <<s, a>> \in Against(r) THEN 1 ELSE 0)
        /\ tried[s][a] \in Nat
        /\ <<s, a>> \in Against(r) <=> Concerns(r, s, a)
    BY <1>1, <1>2, <1>3
  <2> QED BY <2>1
<1>6. tried'["mfa"][a] =
         IF kind[r] \in {"verify", "reverify"} /\ account[r] = a
         THEN tried["mfa"][a] + 1 ELSE tried["mfa"][a]
  <2>1. /\ tried'["mfa"][a] = tried["mfa"][a] + (IF <<"mfa", a>> \in Against(r) THEN 1 ELSE 0)
        /\ tried["mfa"][a] \in Nat
    BY <1>1, <1>2, <1>4
  <2> QED BY <1>4, <2>1
<1> QED BY <1>5, <1>6

LEMMA DelTallies ==
    ASSUME Inv, NEW t \in Scopes, NEW actors, Del(t, actors), NEW s \in Scopes, NEW a \in Actors
    PROVE  \/ tried'[s][a] = 0
           \/ /\ tried'[s][a] = tried[s][a] /\ count'[s][a] = count[s][a]
              /\ s = t => a \notin actors
BY DEF Del, Inv, ThrottleTypeOK

(* The counter of the rate limiter is left alone by a step after which the  *)
(* handler still owes what it owed and is not newly admitted.               *)
LEMMA Quiet ==
    ASSUME Inv, NEW r \in Requests, NEW s \in RateScopes, NEW a \in Actors,
           tried'[s][a] = tried[s][a], count'[s][a] = count[s][a],
           Owes(r, s, a) => Owes(r, s, a)', ~Admitted(r, s, a)'
    PROVE  Tallies(r, s, a)
BY DEF Tallies, Inv, ThrottleTypeOK, Scopes

(* The end of a second factor's failure owes what a reauthentication owes.  *)
LEMMA MfaFailedOwes ==
    ASSUME Inv, NEW r \in Requests, kind[r] \in {"verify", "reverify"}, MfaFailed(r),
           NEW s, NEW a
    PROVE  /\ Concerns(r, s, a) => Owes(r, s, a)'
           /\ ~Admitted(r, s, a)'
<1>1. CASE kind[r] = "reverify"
  <2>1. Move(r, "count") /\ Do(r, RateActors(r))
    BY <1>1 DEF MfaFailed
  <2>2. /\ pc'[r] = "count" /\ todo'[r] = RateActors(r)
        /\ Concerns(r, s, a)' <=> Concerns(r, s, a)
    BY <2>1, AfterMove, AfterDo
  <2> QED BY <2>2, InRateActors DEF Owes, Admitted, In
<1>2. CASE kind[r] = "verify"
  <2>1. End(r) /\ ~Concerns(r, s, a)
    BY <1>2 DEF MfaFailed, Concerns, RateLimited
  <2> QED BY <2>1, AfterEnd DEF Admitted
<1> QED BY <1>1, <1>2

LEMMA NextActorOwes ==
    ASSUME Inv, NEW r \in Requests, pc[r] \in {"count", "expire"}, NextActor(r), NEW s, NEW a
    PROVE  /\ Concerns(r, s, a) /\ In(Tail(todo[r]), a) => Owes(r, s, a)'
           /\ ~Admitted(r, s, a)'
<1>1. todo'[r] = Tail(todo[r]) /\ todo[r] \in Seq(Actors) /\ todo[r] # <<>>
  BY AfterDo DEF NextActor, Inv, HandlersOK, Visiting
<1>2. CASE Len(todo[r]) > 1
  <2>1. pc'[r] = "count" /\ (Concerns(r, s, a)' <=> Concerns(r, s, a))
    BY <1>2, AfterMove DEF NextActor
  <2> QED BY <1>1, <2>1 DEF Owes, Admitted, In
<1>3. CASE ~(Len(todo[r]) > 1)
  <2>1. ~Concerns(r, s, a)'
    BY <1>3, AfterEnd DEF NextActor
  <2> QED BY <1>1, <1>3, <2>1, InHead DEF Admitted
<1> QED BY <1>2, <1>3

LEMMA RateTallies ==
    ASSUME Inv, Paths, NEW r \in Requests, r \notin dead, Step(r),
           NEW s \in RateScopes, NEW a \in Actors
    PROVE  Tallies(r, s, a)
<1> USE ScopeNames
<1>0. /\ s \in Scopes /\ s # "mfa" /\ HandlersOK /\ Path(r)
      /\ count \in [Scopes -> [Actors -> Nat]] /\ tried \in [Scopes -> [Actors -> Nat]]
  BY DEF Scopes, RateScopes, Inv, ThrottleTypeOK, Paths
<1>1. ASSUME UNCHANGED <<count, tried>>, Owes(r, s, a) => Owes(r, s, a)', ~Admitted(r, s, a)'
      PROVE  Tallies(r, s, a)
  BY <1>1, Quiet
<1>2. ASSUME End(r) PROVE ~Admitted(r, s, a)'
  BY <1>2, AfterEnd DEF Admitted
<1>3. ASSUME NEW label, label \notin {"read", "lock", "assert"}, Move(r, label)
      PROVE  ~Admitted(r, s, a)'
  BY <1>3, AfterMove DEF Admitted
<1>4. ASSUME Move(r, "fail") \/ Move(r, "mfaCount"), GuessedWrong(r), UNCHANGED count,
             pc[r] \in {"read", "lock"}
      PROVE  Tallies(r, s, a)
  <2>1. ~Owes(r, s, a) /\ ~Admitted(r, s, a)' /\ (Concerns(r, s, a) => Admitted(r, s, a))
    BY <1>3, <1>4 DEF Owes, Admitted
  <2>2. Concerns(r, s, a) => Owes(r, s, a)'
    BY <1>4, AfterMove DEF Owes
  <2>3. CASE Concerns(r, s, a)
    BY <1>4, <2>1, <2>2, <2>3, GuessTallies DEF Tallies
  <2>4. CASE ~Concerns(r, s, a)
    <3>1. tried'[s][a] = tried[s][a] /\ count'[s][a] = count[s][a]
      BY <1>4, <2>4, GuessTallies
    <3> QED BY <2>1, <3>1, Quiet
  <2> QED BY <2>3, <2>4
<1>5. CASE Arrive(r)
  <2>1. PICK k \in Offered[arrived + 1], b \in Accounts, i \in Addresses :
           /\ kind' = [kind EXCEPT ![r] = k]
           /\ account' = [account EXCEPT ![r] = b]
           /\ address' = [address EXCEPT ![r] = i]
           /\ IF RateLimited(k)
              THEN Goto(r, "assert") /\ Do(r, IF i = Nobody THEN <<b>> ELSE <<b, i>>)
              ELSE Goto(r, "lock") /\ UNCHANGED todo
    BY <1>5 DEF Arrive
  <2>2. kind'[r] = k /\ account'[r] = b /\ address'[r] = i
    BY <1>0, <2>1 DEF HandlersOK
  <2>3. ~Owes(r, s, a) /\ UNCHANGED <<count, tried>>
    BY <1>5 DEF Arrive, Owes, redis, history
  <2>4. CASE RateLimited(k)
    <3>1. pc'[r] = "assert" /\ todo'[r] = RateActors(r)'
      BY <1>0, <2>1, <2>2, <2>4, AfterDo DEF Goto, HandlersOK, RateActors
    <3>2. Concerns(r, s, a)' => In(RateActors(r)', a)
      <4>1. /\ 1 \in 1 .. Len(RateActors(r)') /\ RateActors(r)'[1] = b
            /\ i # Nobody => 2 \in 1 .. Len(RateActors(r)') /\ RateActors(r)'[2] = i
        BY <2>2 DEF RateActors
      <4>2. Concerns(r, s, a)' => a = b \/ (i # Nobody /\ a = i)
        BY <2>2 DEF Concerns
      <4> QED BY <4>1, <4>2 DEF In
    <3>3. ~Admitted(r, s, a)'
      BY <3>1, <3>2 DEF Admitted, In
    <3> QED BY <1>1, <2>3, <3>3
  <2>5. CASE ~RateLimited(k)
    BY <1>1, <2>2, <2>3, <2>5 DEF Admitted, Concerns
  <2> QED BY <2>4, <2>5
<1>6. CASE Assert(r)
  <2>1. UNCHANGED <<count, tried>> /\ ~Owes(r, s, a) /\ pc[r] = "assert"
    BY <1>6 DEF Assert, Owes, redis, history
  <2>2. CASE Blocked(RateScope(kind[r]), Head(todo[r]))
    BY <1>1, <1>2, <1>6, <2>1, <2>2 DEF Assert
  <2>3. CASE ~Blocked(RateScope(kind[r]), Head(todo[r]))
    <3>1. /\ todo'[r] = Tail(todo[r]) /\ todo[r] \in Seq(Actors) /\ todo[r] # <<>>
      BY <1>0, <1>6, <2>3, AfterDo DEF Assert, HandlersOK, Visiting
    <3>2. /\ Concerns(r, s, a)' <=> Concerns(r, s, a)
          /\ pc'[r] = "assert" \/ ~(Len(todo[r]) > 1)
      <4>1. CASE Len(todo[r]) > 1
        BY <1>6, <2>3, <4>1 DEF Assert, request, Concerns
      <4>2. CASE ~(Len(todo[r]) > 1)
        BY <1>6, <2>3, <4>2, AfterMove DEF Assert
      <4> QED BY <4>1, <4>2
    <3>3. ASSUME Admitted(r, s, a)' PROVE Admitted(r, s, a) \/ count'[s][a] < Limits[s]
      <4>1. Concerns(r, s, a) /\ ~In(Tail(todo[r]), a)
        <5>1. pc'[r] = "assert" => ~In(Tail(todo[r]), a)
          BY <3>1, <3>3 DEF Admitted, In
        <5> QED BY <3>1, <3>2, <3>3, <5>1, InHead DEF Admitted
      <4>2. CASE a = Head(todo[r])
        <5>1. ~(count[s][a] >= Limits[s])
          BY <2>3, <4>1, <4>2 DEF Blocked, Concerns
        <5> QED BY <1>0, <2>1, <5>1, ThrottleAssumption
      <4>3. CASE ~In(todo[r], a)
        BY <2>1, <4>1, <4>3 DEF Admitted
      <4> QED BY <3>1, <4>1, <4>2, <4>3, InHead
    <3> QED BY <1>0, <2>1, <3>3 DEF Tallies
  <2> QED BY <2>2, <2>3
<1>7. CASE Read(r)
  <2>1. ~Owes(r, s, a) /\ UNCHANGED count
    BY <1>7 DEF Read, Owes, redis
  <2> QED BY <1>1, <1>2, <1>3, <1>4, <1>7, <2>1 DEF Read, history
<1>8. CASE Fail(r)
  <2>1. /\ Move(r, "count") /\ Do(r, RateActors(r)) /\ UNCHANGED <<count, tried>>
        /\ Owes(r, s, a) => Concerns(r, s, a)
    BY <1>8 DEF Fail, redis, history, Owes
  <2>2. pc'[r] = "count" /\ todo'[r] = RateActors(r) /\ (Concerns(r, s, a)' <=> Concerns(r, s, a))
    BY <2>1, AfterMove, AfterDo
  <2> QED BY <1>1, <1>3, <2>1, <2>2, InRateActors DEF Owes, In
<1>9. CASE ResetFailedLogin(r)
  BY <1>1, <1>3, <1>9 DEF ResetFailedLogin, Owes, redis
<1>10. CASE Clear(r)
  <2>1. Del(RateScope(kind[r]), {account[r], address[r]} \ {Nobody}) /\ End(r) /\ ~Owes(r, s, a)
    BY <1>10 DEF Clear, Owes
  <2>2. \/ tried'[s][a] = 0
        \/ tried'[s][a] = tried[s][a] /\ count'[s][a] = count[s][a]
    BY <1>0, <2>1, DelTallies
  <2> QED BY <1>2, <2>1, <2>2, Quiet DEF Tallies
<1>11. CASE Count(r)
  <2>1. /\ Incr(RateScope(kind[r]), Head(todo[r])) /\ UNCHANGED tried /\ pc[r] = "count"
        /\ (Move(r, "expire") /\ UNCHANGED todo) \/ NextActor(r)
    BY <1>11 DEF Count, history
  <2>2. ~Admitted(r, s, a)' /\ todo[r] \in Seq(Actors) /\ todo[r] # <<>>
    BY <1>0, <1>3, <2>1, NextActorOwes DEF HandlersOK, Visiting
  <2>3. CASE s = RateScope(kind[r]) /\ a = Head(todo[r])
    <3>1. count'[s][a] = count[s][a] + 1
      BY <1>0, <2>1, <2>3 DEF Incr
    <3> QED BY <1>0, <2>1, <2>2, <3>1 DEF Tallies
  <2>4. CASE ~(s = RateScope(kind[r]) /\ a = Head(todo[r]))
    <3>1. count'[s][a] = count[s][a]
      BY <1>0, <2>1, <2>4, HeadType DEF Incr, Visiting
    <3>2. Owes(r, s, a) => Concerns(r, s, a) /\ In(Tail(todo[r]), a)
      BY <2>1, <2>2, <2>4, InHead DEF Owes, Concerns
    <3>3. Owes(r, s, a) => Owes(r, s, a)'
      <4>1. CASE Move(r, "expire") /\ UNCHANGED todo
        BY <3>2, <4>1, AfterMove DEF Owes, In
      <4> QED BY <2>1, <3>2, <4>1, NextActorOwes
    <3> QED BY <2>1, <2>2, <3>1, <3>3, Quiet
  <2> QED BY <2>3, <2>4
<1>12. CASE ExpireRate(r)
  <2>1. UNCHANGED <<count, tried>> /\ pc[r] = "expire" /\ NextActor(r)
    BY <1>12 DEF ExpireRate, history
  <2>2. Owes(r, s, a) => Concerns(r, s, a) /\ In(Tail(todo[r]), a)
    BY <2>1 DEF Owes
  <2> QED BY <1>1, <2>1, <2>2, NextActorOwes
<1>13. CASE CheckLock(r)
  <2>1. pc[r] = "lock" /\ UNCHANGED count /\ ~Owes(r, s, a) /\ kind[r] \in {"verify", "reverify"}
    BY <1>0, <1>13 DEF CheckLock, redis, Owes, Path
  <2> QED BY <1>1, <1>2, <1>3, <1>4, <1>13, <2>1, MfaFailedOwes DEF CheckLock
<1>14. CASE MfaCount(r) \/ MfaExpire(r) \/ MfaLock(r) \/ MfaForget(r)
  <2>1. kind[r] \in {"verify", "reverify"} /\ (Owes(r, s, a) => Concerns(r, s, a))
    BY <1>0, <1>14 DEF Path, Owes, MfaCount, MfaExpire, MfaLock, MfaForget
  <2>2. count'[s][a] = count[s][a] /\ tried'[s][a] = tried[s][a]
    BY <1>0, <1>14 DEF MfaCount, MfaExpire, MfaLock, MfaForget, Incr, history
  <2>3. ASSUME NEW label \in {"mfaExpire", "mfaLock", "mfaForget"}, Move(r, label)
        PROVE  (Concerns(r, s, a) => Owes(r, s, a)') /\ ~Admitted(r, s, a)'
    BY <1>3, <2>3, AfterMove DEF Owes
  <2>4. \/ MfaFailed(r)
        \/ \E label \in {"mfaExpire", "mfaLock", "mfaForget"} : Move(r, label)
    BY <1>14 DEF MfaCount, MfaExpire, MfaLock, MfaForget, MfaCounted
  <2> QED BY <2>1, <2>2, <2>3, <2>4, MfaFailedOwes, Quiet
<1>15. CASE MfaClear(r)
  <2>1. Del("mfa", {account[r]}) /\ (Move(r, "clear") \/ End(r)) /\ ~Owes(r, s, a)
    BY <1>15 DEF MfaClear, Owes
  <2>2. \/ tried'[s][a] = 0
        \/ tried'[s][a] = tried[s][a] /\ count'[s][a] = count[s][a]
    BY <1>0, <2>1, DelTallies
  <2> QED BY <1>2, <1>3, <2>1, <2>2, Quiet DEF Tallies
<1>16. CASE Crash(r)
  BY <1>1, <1>16 DEF Crash, redis, history, Owes, Admitted
<1> QED BY <1>5, <1>6, <1>7, <1>8, <1>9, <1>10, <1>11, <1>12, <1>13, <1>14, <1>15, <1>16
        DEF Step

(* Guesses at a second factor: a handler that is not late leaves them, and  *)
(* who is barred, alone.                                                    *)
LEMMA MfaQuiet ==
    ASSUME Inv, NEW r \in Requests, NEW a \in Actors,
           tried'["mfa"][a] = tried["mfa"][a], count'["mfa"][a] = count["mfa"][a],
           a \in Accounts => barred'[a] = barred[a],
           Late(r, a) => Late(r, a)'
    PROVE  MfaTallies(r, a)
<1>1. count["mfa"][a] \in Nat /\ (Barred(a)' <=> Barred(a))
  BY ScopeNames DEF Inv, ThrottleTypeOK, Barred
<1> QED BY <1>1 DEF MfaTallies

LEMMA MfaStepTallies ==
    ASSUME Inv, Paths, NEW r \in Requests, r \notin dead, Step(r), NEW a \in Actors
    PROVE  MfaTallies(r, a)
<1> USE ScopeNames
<1>0. /\ HandlersOK /\ Path(r)
      /\ count \in [Scopes -> [Actors -> Nat]] /\ tried \in [Scopes -> [Actors -> Nat]]
      /\ barred \in [Accounts -> BOOLEAN]
      /\ Limits["mfa"] \in Nat /\ Limits["mfa"] > 0
  <2>1. Limits["mfa"] \in Nat /\ Limits["mfa"] > 0
    BY ThrottleAssumption
  <2> QED BY <2>1 DEF Inv, ThrottleTypeOK, Paths
<1>1. CASE \/ Arrive(r) \/ Assert(r) \/ Fail(r) \/ ResetFailedLogin(r) \/ Crash(r)
  <2>1. UNCHANGED <<count, tried, barred>>
    BY <1>1 DEF Arrive, Assert, Fail, ResetFailedLogin, Crash, redis, history
  <2>2. Late(r, a) => Late(r, a)'
    BY <1>1 DEF Late, Arrive, Assert, Fail, ResetFailedLogin, Crash
  <2> QED BY <2>1, <2>2, MfaQuiet
<1>2. CASE Read(r)
  <2>1. UNCHANGED <<count, barred>> /\ ~Late(r, a) /\ kind[r] \notin {"verify", "reverify"}
    BY <1>0, <1>2 DEF Read, redis, Late, Path
  <2>2. tried'["mfa"][a] = tried["mfa"][a]
    BY <1>2, <2>1, GuessTallies DEF Read, history
  <2> QED BY <2>1, <2>2, MfaQuiet
<1>3. CASE Count(r) \/ ExpireRate(r) \/ Clear(r)
  <2>1. UNCHANGED barred /\ ~Late(r, a) /\ RateScope(kind[r]) # "mfa"
    BY <1>3 DEF Count, ExpireRate, Clear, Late, RateScope
  <2>2. \/ tried'["mfa"][a] = 0
        \/ tried'["mfa"][a] = tried["mfa"][a] /\ count'["mfa"][a] = count["mfa"][a]
    <3>1. CASE Count(r) \/ ExpireRate(r)
      BY <1>0, <2>1, <3>1 DEF Count, ExpireRate, Incr, history
    <3>2. CASE Clear(r)
      BY <3>2, DelTallies DEF Clear
    <3> QED BY <1>3, <3>1, <3>2
  <2> QED BY <2>1, <2>2, MfaQuiet DEF MfaTallies
<1>4. CASE CheckLock(r)
  <2>1. UNCHANGED <<count, barred>> /\ ~Late(r, a) /\ kind[r] \in {"verify", "reverify"}
    BY <1>0, <1>4 DEF CheckLock, redis, Late, Path
  <2>2. CASE UNCHANGED tried
    BY <2>1, <2>2, MfaQuiet
  <2>3. CASE ~barred[account[r]] /\ Move(r, "mfaCount") /\ GuessedWrong(r)
    <3>1. CASE account[r] = a
      BY <2>1, <2>3, <3>1, AfterMove, GuessTallies DEF MfaTallies, Late, Barred
    <3>2. CASE account[r] # a
      BY <2>1, <2>3, <3>2, GuessTallies, MfaQuiet
    <3> QED BY <3>1, <3>2
  <2> QED BY <1>4, <2>2, <2>3 DEF CheckLock
<1>5. CASE /\ MfaCount(r) \/ MfaExpire(r) \/ MfaLock(r) \/ MfaForget(r) \/ MfaClear(r)
           /\ account[r] # a
  <2>1. ~Late(r, a) /\ account[r] \in Accounts /\ account[r] \in Actors
    BY <1>0, <1>5, ActorTypes DEF Late, MfaCount, MfaExpire, MfaLock, MfaForget, MfaClear
  <2>2. a \in Accounts => barred'[a] = barred[a]
    BY <1>0, <1>5, <2>1 DEF MfaCount, MfaExpire, MfaLock, MfaForget, MfaClear
  <2>3. \/ tried'["mfa"][a] = 0
        \/ tried'["mfa"][a] = tried["mfa"][a] /\ count'["mfa"][a] = count["mfa"][a]
    <3>1. CASE MfaClear(r)
      BY <3>1, DelTallies DEF MfaClear
    <3>2. CASE MfaForget(r)
      BY <1>0, <1>5, <2>1, <3>2 DEF MfaForget
    <3>3. CASE MfaCount(r) \/ MfaExpire(r) \/ MfaLock(r)
      BY <1>0, <1>5, <2>1, <3>3 DEF MfaCount, MfaExpire, MfaLock, Incr, history
    <3> QED BY <1>5, <3>1, <3>2, <3>3
  <2> QED BY <2>1, <2>2, <2>3, MfaQuiet DEF MfaTallies
<1>6. CASE MfaCount(r) /\ account[r] = a
  <2>1. /\ count'["mfa"][a] = count["mfa"][a] + 1 /\ UNCHANGED <<tried, barred>>
        /\ count["mfa"][a] \in Nat
    BY <1>0, <1>6 DEF MfaCount, Incr, history
  <2>2. CASE Barred(a)
    BY <2>1, <2>2 DEF MfaTallies, Barred
  <2>3. CASE ~Barred(a)
    <3>1. Late(r, a)' \/ count'["mfa"][a] < Limits["mfa"]
      <4>1. CASE count["mfa"][a] = 0
        <5>1. Move(r, "mfaExpire")
          BY <1>6, <4>1 DEF MfaCount
        <5>2. Limits["mfa"] = 1 => Late(r, a)'
          BY <1>6, <5>1, AfterMove DEF Late
        <5> QED BY <1>0, <2>1, <4>1, <5>2
      <4>2. CASE count["mfa"][a] # 0
        <5>1. MfaCounted(r, count["mfa"][a] + 1)
          BY <1>6, <2>1, <4>2 DEF MfaCount
        <5>2. Move(r, "mfaLock") => Late(r, a)'
          BY <1>6, AfterMove DEF Late
        <5> QED BY <2>1, <5>1, <5>2 DEF MfaCounted
      <4> QED BY <4>1, <4>2
    <3> QED BY <2>1, <2>3, <3>1 DEF MfaTallies
  <2> QED BY <2>2, <2>3
<1>7. CASE MfaExpire(r) /\ account[r] = a
  <2>1. UNCHANGED <<count, tried, barred>> /\ MfaCounted(r, 1)
    BY <1>7 DEF MfaExpire, history
  <2>2. Late(r, a) => Late(r, a)'
    <3>1. Late(r, a) => Limits["mfa"] = 1
      BY <1>7 DEF Late, MfaExpire
    <3>2. Limits["mfa"] = 1 => Move(r, "mfaLock")
      BY <2>1 DEF MfaCounted
    <3>3. Move(r, "mfaLock") => Late(r, a)'
      BY <1>7, AfterMove DEF Late
    <3> QED BY <3>1, <3>2, <3>3
  <2> QED BY <2>1, <2>2, MfaQuiet
<1>8. CASE MfaLock(r) /\ account[r] = a
  <2>1. a \in Accounts
    BY <1>0, <1>8, ActorTypes DEF MfaLock
  <2>2. UNCHANGED tried /\ barred'[a]
    BY <1>0, <1>8, <2>1 DEF MfaLock, history
  <2> QED BY <2>1, <2>2 DEF MfaTallies, Barred
<1>9. CASE MfaForget(r) /\ account[r] = a
  <2>1. a \in Accounts
    BY <1>0, <1>9, ActorTypes DEF MfaForget
  <2>2. CASE barred[a]
    BY <1>9, <2>1, <2>2 DEF MfaForget, MfaTallies, Barred
  <2>3. CASE ~barred[a]
    <3>1. tried' = [tried EXCEPT !["mfa"][a] = 0]
      BY <1>9, <2>3 DEF MfaForget
    <3> QED BY <1>0, <3>1 DEF MfaTallies
  <2> QED BY <2>2, <2>3
<1>10. CASE MfaClear(r) /\ account[r] = a
  BY <1>10, DelTallies DEF MfaClear, MfaTallies
<1> QED BY <1>1, <1>2, <1>3, <1>4, <1>5, <1>6, <1>7, <1>8, <1>9, <1>10 DEF Step

(* Time resets a counter or leaves it as it is.                             *)
LEMMA TimeKeepsBounds ==
    ASSUME Inv, Inv', Bounds, UNCHANGED <<pc, request, todo, dead>>,
           \A s \in Scopes, a \in Actors :
              \/ tried'[s][a] = 0
              \/ /\ tried'[s][a] = tried[s][a] /\ count'[s][a] = count[s][a]
                 /\ s = "mfa" => (Barred(a)' <=> Barred(a))
    PROVE  Bounds'
<1>1. \A s \in Scopes : Limits[s] \in Nat /\ Limits[s] > 0
  BY ThrottleAssumption
<1>2. ASSUME NEW s \in RateScopes, NEW a \in Actors PROVE RateBound(s, a)'
  <2>1. OwingTo(s, a)' = OwingTo(s, a) /\ AdmittedTo(s, a)' = AdmittedTo(s, a)
    BY DEF OwingTo, AdmittedTo, Owes, Admitted, Concerns, In, request
  <2>2. /\ OwingTo(s, a) \in SUBSET Requests /\ AdmittedTo(s, a) \in SUBSET Requests
        /\ s \in Scopes /\ count[s][a] \in Nat
    BY DEF OwingTo, AdmittedTo, Inv, ThrottleTypeOK, Scopes
  <2>3. /\ Cardinality(OwingTo(s, a)) \in Nat /\ Cardinality(AdmittedTo(s, a)) \in Nat
        /\ Cardinality(Requests) \in Nat
        /\ Cardinality(AdmittedTo(s, a)) <= Cardinality(Requests)
        /\ Cardinality(OwingTo(s, a))' = Cardinality(OwingTo(s, a))
        /\ Cardinality(AdmittedTo(s, a))' = Cardinality(AdmittedTo(s, a))
    <3>1. /\ IsFiniteSet(Requests) /\ IsFiniteSet(OwingTo(s, a))
          /\ IsFiniteSet(AdmittedTo(s, a))
      BY <2>2, ThrottleAssumption, FS_Subset
    <3> QED BY <2>1, <2>2, <3>1, FS_Subset, FS_CardinalityType
  <2>4. CASE tried'[s][a] = 0
    <3>1. count'[s][a] \in Nat
      BY <2>2 DEF Inv, ThrottleTypeOK
    <3> QED BY <1>1, <2>2, <2>3, <2>4, <3>1 DEF RateBound
  <2>5. CASE tried'[s][a] = tried[s][a] /\ count'[s][a] = count[s][a]
    BY <2>3, <2>5 DEF RateBound, Bounds
  <2> QED BY <2>2, <2>4, <2>5
<1>3. ASSUME NEW a \in Actors PROVE MfaBound(a)'
  <2>1. LateAt(a)' = LateAt(a) /\ LateAt(a) \in SUBSET Requests
    BY DEF LateAt, Late, request
  <2>2. /\ Cardinality(LateAt(a)) \in Nat /\ Cardinality(Requests) \in Nat
        /\ Cardinality(LateAt(a))' = Cardinality(LateAt(a))
    <3>1. IsFiniteSet(Requests) /\ IsFiniteSet(LateAt(a))
      BY <2>1, ThrottleAssumption, FS_Subset
    <3> QED BY <2>1, <3>1, FS_CardinalityType
  <2>3. "mfa" \in Scopes /\ count'["mfa"][a] \in Nat
    BY ScopeNames DEF Inv, ThrottleTypeOK
  <2>4. CASE tried'["mfa"][a] = 0
    BY <1>1, <2>2, <2>3, <2>4 DEF MfaBound
  <2>5. CASE /\ tried'["mfa"][a] = tried["mfa"][a] /\ count'["mfa"][a] = count["mfa"][a]
             /\ Barred(a)' <=> Barred(a)
    BY <2>2, <2>5 DEF MfaBound, Bounds
  <2> QED BY <2>3, <2>4, <2>5
<1> QED BY <1>2, <1>3 DEF Bounds

LEMMA BoundsStep ==
    ASSUME Inv, Inv', Paths, Bounds, [Next]_vars
    PROVE  Bounds'
<1> USE ScopeNames
<1>1. ASSUME NEW r \in Requests, r \notin dead, Step(r) PROVE Bounds'
  BY <1>1, OthersStay, RateTallies, RateBoundStays, MfaStepTallies, MfaBoundStays
     DEF Bounds
<1>2. ASSUME NEW t \in Scopes, NEW b \in Actors, Lapse(t, b) PROVE Bounds'
  <2>1. Del(t, {b}) /\ UNCHANGED <<pc, request, todo, dead, barred>>
    BY <1>2 DEF Lapse
  <2>2. \A a : Barred(a)' <=> Barred(a)
    BY <2>1 DEF Barred
  <2> QED BY <2>1, <2>2, DelTallies, TimeKeepsBounds
<1>3. ASSUME NEW b \in Accounts, Unbar(b) PROVE Bounds'
  <2>1. /\ UNCHANGED <<count, pc, request, todo, dead>> /\ b \in Actors
        /\ tried' = [tried EXCEPT !["mfa"][b] = 0]
        /\ barred' = [barred EXCEPT ![b] = FALSE]
        /\ tried \in [Scopes -> [Actors -> Nat]] /\ barred \in [Accounts -> BOOLEAN]
    BY <1>3 DEF Unbar, Actors, Inv, ThrottleTypeOK
  <2>2. tried'["mfa"][b] = 0
    BY <2>1
  <2>3. ASSUME NEW s \in Scopes, NEW a \in Actors, ~(s = "mfa" /\ a = b)
        PROVE  tried'[s][a] = tried[s][a] /\ (s = "mfa" => (Barred(a)' <=> Barred(a)))
    BY <2>1, <2>3 DEF Barred
  <2> QED BY <2>1, <2>2, <2>3, TimeKeepsBounds
<1>4. ASSUME UNCHANGED <<redis, pc, request, todo, dead, tried>> PROVE Bounds'
  <2>1. \A a : Barred(a)' <=> Barred(a)
    BY <1>4 DEF Barred, redis
  <2> QED BY <1>4, <2>1, TimeKeepsBounds DEF redis
<1>5. ASSUME NEW b \in Accounts, Unlock(b) PROVE Bounds'
  BY <1>4, <1>5 DEF Unlock, history
<1>6. CASE UNCHANGED vars
  BY <1>4, <1>6 DEF vars, history
<1>7. ASSUME NEW r \in Requests, Arrive(r) \/ Continue(r) \/ Crash(r) PROVE Bounds'
  <2>1. r \notin dead /\ Step(r)
    BY <1>7 DEF Arrive, Continue, Crash, Step
  <2> QED BY <1>1, <2>1
<1> QED BY <1>2, <1>3, <1>5, <1>6, <1>7 DEF Next, Idle

LEMMA BoundsInit ==
    ASSUME Init
    PROVE  Paths /\ Bounds
<1>1. Paths
  BY DEF Init, Paths, Path
<1>2. \A s \in Scopes : Limits[s] \in Nat /\ Limits[s] > 0
  BY ThrottleAssumption
<1>3. \A s \in Scopes, a \in Actors : tried[s][a] = 0 /\ count[s][a] = 0
  BY DEF Init
<1>4. ASSUME NEW s \in RateScopes, NEW a \in Actors PROVE RateBound(s, a)
  <2>1. s \in Scopes /\ OwingTo(s, a) \in SUBSET Requests /\ AdmittedTo(s, a) \in SUBSET Requests
    BY DEF Scopes, OwingTo, AdmittedTo
  <2>2. /\ Cardinality(OwingTo(s, a)) \in Nat /\ Cardinality(AdmittedTo(s, a)) \in Nat
        /\ Cardinality(Requests) \in Nat
        /\ Cardinality(AdmittedTo(s, a)) <= Cardinality(Requests)
    <3>1. /\ IsFiniteSet(Requests) /\ IsFiniteSet(OwingTo(s, a))
          /\ IsFiniteSet(AdmittedTo(s, a))
      BY <2>1, ThrottleAssumption, FS_Subset
    <3> QED BY <2>1, <3>1, FS_Subset, FS_CardinalityType
  <2> QED BY <1>2, <1>3, <2>1, <2>2 DEF RateBound
<1>5. ASSUME NEW a \in Actors PROVE MfaBound(a)
  <2>1. LateAt(a) \in SUBSET Requests
    BY DEF LateAt
  <2>2. Cardinality(LateAt(a)) \in Nat /\ Cardinality(Requests) \in Nat
    <3>1. IsFiniteSet(Requests) /\ IsFiniteSet(LateAt(a))
      BY <2>1, ThrottleAssumption, FS_Subset
    <3> QED BY <3>1, FS_CardinalityType
  <2> QED BY <1>2, <1>3, <2>2, ScopeNames DEF MfaBound
<1> QED BY <1>1, <1>4, <1>5 DEF Bounds

LEMMA BoundsSuffice ==
    ASSUME Inv, Bounds
    PROVE  GuessesBounded
<1> SUFFICES ASSUME NEW s \in Scopes, NEW a \in Actors
             PROVE  tried[s][a] < Limits[s] + Cardinality(Requests)
  BY DEF GuessesBounded
<1>1. CASE s \in RateScopes
  <2>1. AdmittedTo(s, a) \in SUBSET Requests
    BY DEF AdmittedTo
  <2>2. Cardinality(AdmittedTo(s, a)) \in Nat /\ Cardinality(Requests) \in Nat
    <3>1. IsFiniteSet(Requests) /\ IsFiniteSet(AdmittedTo(s, a))
      BY <2>1, ThrottleAssumption, FS_Subset
    <3> QED BY <3>1, FS_CardinalityType
  <2>3. /\ tried[s][a] + Cardinality(AdmittedTo(s, a)) < Limits[s] + Cardinality(Requests)
        /\ tried[s][a] \in Nat /\ Limits[s] \in Nat
    BY <1>1, ThrottleAssumption DEF Bounds, RateBound, Inv, ThrottleTypeOK
  <2> QED BY <2>2, <2>3
<1>2. CASE s = "mfa"
  BY <1>2 DEF Bounds, MfaBound
<1> QED BY <1>1, <1>2 DEF Scopes

(* However many handlers check a counter, compare and then count, the wrong *)
(* guesses between two resets stay below the limit plus one for each        *)
(* request handled at the same time: every guess is counted, owed by a      *)
(* handler under way or of one cut off, and who is admitted finds room.     *)
THEOREM GuessesAreBounded == Spec => []GuessesBounded
<1>1. Init => Paths /\ Bounds
  BY BoundsInit
<1>2. Inv /\ Inv' /\ Paths /\ Bounds /\ [Next]_vars => Paths' /\ Bounds'
  BY PathsStep, BoundsStep
<1>3. Inv /\ Bounds => GuessesBounded
  BY BoundsSuffice
<1> QED BY <1>1, <1>2, <1>3, InvIsInvariant, PTL DEF Spec

=============================================================================
