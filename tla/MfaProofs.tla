----------------------------- MODULE MfaProofs -----------------------------
(***************************************************************************)
(* Theorems about Mfa, for any number of requests, sessions, passkeys and  *)
(* codes per batch, and under every fault.                                 *)
(***************************************************************************)
EXTENDS Mfa, TLAPS

-----------------------------------------------------------------------------
(* Where the handlers may be.                                               *)

Revising == {"disable", "reset", "revokeKey"}

Finishing == {"regVerify", "authVerify"}

(* The operations whose handlers come to a step.                            *)
Comes(label) ==
    CASE label = "store"    -> {"setup", "regOptions", "authOptions"}
      [] label = "pending"  -> {"code"}
      [] label = "clear"    -> {"code"}
      [] label = "consume"  -> Finishing
      [] label = "commit"   -> {"code", "recovery", "regenerate"} \cup Finishing \cup Revising
      [] label = "upgrade"  -> {"code", "recovery", "authVerify"}
      [] label \in {"enforce", "rollback"} -> Revising
      [] OTHER -> Operations

(* What a handler in a step has picked.                                     *)
Picked(r) ==
    /\ op[r] \in Finishing => pick[r] \in Requests
    /\ pc[r] = "commit" =>
          /\ op[r] = "code" => pick[r] \in Requests
          /\ op[r] = "recovery" => pick[r] \in snap[r].codes
          /\ op[r] = "regenerate" => HasFactor(snap[r])
          /\ op[r] = "revokeKey" => pick[r] \in Credentials

Route(r) ==
    /\ op[r] \in Comes(pc[r])
    /\ Picked(r)
    /\ pc[r] \notin Ended \cup {"start"} /\ op[r] # "reset" => sess[r] \in Sessions
    /\ r \in verified => op[r] \in Finishing /\ pc[r] \notin {"start", "read", "consume"}

Now == MfaTypeOK /\ \A r \in Requests : Route(r)

(* Only r moves.                                                            *)
Elsewhere(r) ==
    /\ \A q \in Requests \ {r} :
          /\ pc'[q] = pc[q] /\ op'[q] = op[q] /\ sess'[q] = sess[q]
          /\ purpose'[q] = purpose[q] /\ snap'[q] = snap[q] /\ pick'[q] = pick[q]
    /\ verified \subseteq verified' /\ verified' \subseteq verified \cup {r}

OneMoves(r) == MfaTypeOK' /\ Elsewhere(r) /\ Route(r)'

-----------------------------------------------------------------------------
(* The moves of a handler.                                                  *)

LEMMA Names ==
    /\ {"start", "read", "store", "pending", "consume", "commit", "clear",
        "upgrade", "enforce", "rollback", "done", "restored", "failed"} = Labels
    /\ {"setup", "code", "recovery", "regenerate", "disable", "reset", "regOptions",
        "regVerify", "authOptions", "authVerify", "revokeKey"} = Operations
    /\ Unread \in Account
    /\ Absent \notin Requests
BY MfaAssumption DEF Labels, Operations, Unread, Account

(* The handler is at label and the others are where they were.              *)
Gone(r, label) ==
    /\ pc' \in [Requests -> Labels] /\ pc'[r] = label
    /\ \A q \in Requests \ {r} : pc'[q] = pc[q]

LEMMA Going ==
    ASSUME MfaTypeOK, NEW r \in Requests, NEW label \in Labels, Goto(r, label)
    PROVE  Gone(r, label)
BY DEF MfaTypeOK, Goto, Gone

(* A request that ended keeps all it was, or nothing.                       *)
Forgotten(r) ==
    /\ snap' \in [Requests -> Account]
    /\ op' \in [Requests -> Operations]
    /\ sess' \in [Requests -> Sessions \cup {Nobody}]
    /\ purpose' \in [Requests -> {"login", "reauth"}]
    /\ pick' \in [Requests -> Codes \cup Credentials \cup {Old, Absent}]
    /\ \A q \in Requests \ {r} :
          /\ op'[q] = op[q] /\ sess'[q] = sess[q] /\ purpose'[q] = purpose[q]
          /\ snap'[q] = snap[q] /\ pick'[q] = pick[q]
    /\ \/ UNCHANGED <<request, pick>>
       \/ ~Remembered(r) /\ op'[r] = "setup"

LEMMA Forgetting ==
    ASSUME MfaTypeOK, NEW r \in Requests, Forget(r)
    PROVE  Forgotten(r)
<1> USE Names
<1>1. CASE Remembered(r)
  BY <1>1 DEF MfaTypeOK, Forget, Forgotten, request
<1>2. CASE ~Remembered(r)
  BY <1>2 DEF MfaTypeOK, Forget, Forgotten, request
<1> QED BY <1>1, <1>2

LEMMA Ending ==
    ASSUME MfaTypeOK, NEW r \in Requests, NEW label \in Labels, End(r, label)
    PROVE  Gone(r, label) /\ Forgotten(r) /\ overtaken' = overtaken \ {r}
BY Going, Forgetting DEF End

(* The handler leaves for good: whatever it forgets, it stays on its route. *)
LEMMA Leaving ==
    ASSUME Now, NEW r \in Requests, Gone(r, "done") \/ Gone(r, "restored") \/ Gone(r, "failed"),
           Forgotten(r), verified' = verified,
           MfaTypeOK'
    PROVE  OneMoves(r)
<1>1. Route(r) /\ pc'[r] \in Ended
  BY DEF Now, Gone, Ended
<1>2. Comes(pc'[r]) = Operations
  BY <1>1 DEF Comes, Ended
<1>3. op'[r] \in Operations
  BY DEF MfaTypeOK
<1>4. op'[r] \in Finishing => op'[r] = op[r] /\ pick'[r] = pick[r]
  BY DEF Forgotten, Finishing, request
<1>5. r \in verified => op'[r] = op[r]
  BY DEF Forgotten, Remembered, request
<1>6. Route(r)'
  BY <1>1, <1>2, <1>3, <1>4, <1>5 DEF Route, Picked, Ended, Finishing
<1>7. Elsewhere(r)
  BY DEF Gone, Forgotten, Elsewhere
<1> QED BY <1>6, <1>7 DEF OneMoves

(* The handler goes on to its next step with what it has.                   *)
LEMMA Proceeding ==
    ASSUME Now, NEW r \in Requests, NEW label \in Labels, Gone(r, label),
           UNCHANGED <<request, snap, verified>>, MfaTypeOK',
           \A q \in Requests \ {r} : pick'[q] = pick[q],
           Route(r)'
    PROVE  OneMoves(r)
BY DEF OneMoves, Elsewhere, Gone, request

-----------------------------------------------------------------------------
LEMMA ArriveMoves ==
    ASSUME Now, NEW r \in Requests, Arrive(r)
    PROVE  OneMoves(r)
<1> USE Names
<1>1. PICK o \in Offered, s \in Sessions \cup {Nobody} :
          /\ op' = [op EXCEPT ![r] = o]
          /\ s = Nobody => o = "reset"
          /\ sess' = [sess EXCEPT ![r] = s]
          /\ purpose' = [purpose EXCEPT ![r] = IF s \in pending THEN "login" ELSE "reauth"]
          /\ \/ o = "regVerify" /\ \E q \in Challenges("regOptions") : Pick(r, q)
             \/ o = "authVerify" /\ \E q \in Challenges("authOptions") : Pick(r, q)
             \/ o \notin {"regVerify", "authVerify"} /\ UNCHANGED pick
  BY DEF Arrive
<1>2. Gone(r, "read") /\ pc[r] = "start"
  BY Going DEF Arrive, Now
<1>3. o \in Operations
  BY MfaAssumption
<1>4. /\ pick' \in [Requests -> Codes \cup Credentials \cup {Old, Absent}]
      /\ \A q \in Requests \ {r} : pick'[q] = pick[q]
      /\ o \in Finishing => pick'[r] \in Requests
  BY <1>1 DEF Now, MfaTypeOK, Pick, Challenges, Credentials, Finishing
<1>5. MfaTypeOK'
  BY <1>1, <1>2, <1>3, <1>4 DEF Arrive, Now, MfaTypeOK, Gone, redis, history
<1>6. Elsewhere(r)
  BY <1>1, <1>2, <1>4 DEF Arrive, Now, MfaTypeOK, Gone, Elsewhere, history
<1>7. Route(r)'
  <2>1. /\ op'[r] = o /\ pc'[r] = "read" /\ r \notin verified'
        /\ o # "reset" => sess'[r] \in Sessions
    BY <1>1, <1>2 DEF Arrive, Now, MfaTypeOK, Gone, Route, history
  <2> QED BY <1>3, <1>4, <2>1 DEF Route, Comes, Picked
<1> QED BY <1>5, <1>6, <1>7 DEF OneMoves

(* What a read comes to: a refusal, or a snapshot and the next step.        *)
Takes(r, label) ==
    /\ GoOn(r, label) /\ label \in {"store", "pending", "consume", "commit", "upgrade"}
    /\ op[r] \in Comes(label)
    /\ IF op[r] = "recovery" THEN \E c \in row.codes : Pick(r, c)
       ELSE IF op[r] = "revokeKey" THEN \E k \in row.keys : Pick(r, k)
       ELSE UNCHANGED pick
    /\ label = "commit" => op[r] \notin Finishing \cup {"code"}
    /\ op[r] = "regenerate" => HasFactor(row)

LEMMA ReadTakes ==
    ASSUME Now, NEW r \in Requests, Read(r)
    PROVE  /\ Reading /\ pc[r] = "read"
           /\ End(r, "failed") \/ \E label \in Labels : Takes(r, label)
<1> USE Names DEF Reads, Refuse, Takes, Comes, Finishing, Revising
<1>1. CASE SetupMfa(r)
  BY <1>1 DEF SetupMfa
<1>2. CASE VerifyRecovery(r)
  BY <1>2 DEF VerifyRecovery
<1>3. CASE VerifyTotp(r)
  BY <1>3 DEF VerifyTotp
<1>4. CASE VerifyEnrollment(r)
  BY <1>4 DEF VerifyEnrollment
<1>5. CASE RegenerateRecoveryCodes(r)
  BY <1>5 DEF RegenerateRecoveryCodes
<1>6. CASE DisableMfa(r)
  BY <1>6 DEF DisableMfa
<1>7. CASE AdminResetMfa(r)
  BY <1>7 DEF AdminResetMfa
<1>8. CASE BeginWebAuthnRegistration(r)
  BY <1>8 DEF BeginWebAuthnRegistration
<1>9. CASE FinishWebAuthnRegistration(r)
  BY <1>9 DEF FinishWebAuthnRegistration
<1>10. CASE BeginWebAuthnAuthentication(r)
  BY <1>10 DEF BeginWebAuthnAuthentication
<1>11. CASE FinishWebAuthnAuthentication(r)
  BY <1>11 DEF FinishWebAuthnAuthentication
<1>12. CASE RevokeWebAuthnCredential(r)
  BY <1>12 DEF RevokeWebAuthnCredential
<1> QED BY <1>1, <1>2, <1>3, <1>4, <1>5, <1>6, <1>7, <1>8, <1>9, <1>10, <1>11, <1>12 DEF Read

LEMMA ReadMoves ==
    ASSUME Now, NEW r \in Requests, Read(r)
    PROVE  OneMoves(r)
<1> USE Names
<1>1. Reading /\ pc[r] = "read" /\ (End(r, "failed") \/ \E label \in Labels : Takes(r, label))
  BY ReadTakes
<1>2. CASE End(r, "failed")
  <2>1. Gone(r, "failed") /\ Forgotten(r) /\ overtaken' = overtaken \ {r}
    BY <1>2, Ending DEF Now
  <2>2. MfaTypeOK'
    BY <1>1, <2>1 DEF Now, MfaTypeOK, Gone, Forgotten, Reading, redis
  <2> QED BY <1>1, <2>1, <2>2, Leaving DEF Reading
<1>3. ASSUME NEW label \in Labels, Takes(r, label) PROVE OneMoves(r)
  <2>1. /\ Gone(r, label) /\ snap' = [snap EXCEPT ![r] = row]
        /\ UNCHANGED <<request, overtaken, verified>>
    BY <1>1, <1>3, Going DEF Takes, GoOn, Now, Reading
  <2>2. /\ pick' \in [Requests -> Codes \cup Credentials \cup {Old, Absent}]
        /\ \A q \in Requests \ {r} : pick'[q] = pick[q]
        /\ op[r] \notin {"recovery", "revokeKey"} => pick'[r] = pick[r]
        /\ op[r] = "recovery" => pick'[r] \in row.codes
        /\ op[r] = "revokeKey" => pick'[r] \in row.keys
    <3>1. row.codes \subseteq Codes /\ row.keys \subseteq Credentials
      BY DEF Now, MfaTypeOK, Account
    <3> QED BY <1>3, <3>1 DEF Takes, Pick, Now, MfaTypeOK
  <2>3. MfaTypeOK'
    BY <1>1, <2>1, <2>2 DEF Now, MfaTypeOK, Gone, Reading, redis, request
  <2>4. Elsewhere(r)
    BY <1>1, <2>1, <2>2 DEF Now, MfaTypeOK, Gone, Elsewhere, Reading, request
  <2>5. Route(r)'
    <3>1. /\ pc'[r] = label /\ op'[r] = op[r] /\ snap'[r] = row /\ r \notin verified'
          /\ op[r] # "reset" => sess'[r] \in Sessions
      BY <1>1, <2>1 DEF Gone, request, Now, MfaTypeOK, Route, Reading, Ended
    <3>2. Picked(r)'
      BY <1>3, <2>2, <3>1 DEF Picked, Takes, Now, Route, MfaTypeOK, Account, Finishing
    <3> QED BY <1>3, <3>1, <3>2 DEF Route, Takes
  <2> QED BY <2>3, <2>4, <2>5 DEF OneMoves
<1> QED BY <1>1, <1>2, <1>3

LEMMA StoreMoves ==
    ASSUME Now, NEW r \in Requests,
           CreateSetup(r) \/ StoreRegistrationChallenge(r) \/ StoreAuthenticationChallenge(r)
    PROVE  OneMoves(r)
<1>1. /\ End(r, "done") /\ UNCHANGED <<row, pending, spent, verified>>
      /\ setup' = [setup EXCEPT ![sess[r]] = r] \/ UNCHANGED setup
      /\ regChallenge' = [regChallenge EXCEPT ![sess[r]] = r] \/ UNCHANGED regChallenge
      /\ authChallenge' = [authChallenge EXCEPT ![sess[r]] = r] \/ UNCHANGED authChallenge
  BY DEF CreateSetup, StoreRegistrationChallenge, StoreAuthenticationChallenge
<1>2. Gone(r, "done") /\ Forgotten(r) /\ overtaken' = overtaken \ {r}
  BY <1>1, Ending, Names DEF Now
<1>3. MfaTypeOK'
  BY <1>1, <1>2 DEF Now, MfaTypeOK, Gone, Forgotten
<1> QED BY <1>1, <1>2, <1>3, Leaving

(* A handler that is refused, whatever its step did in Redis.               *)
LEMMA RefusedMoves ==
    ASSUME Now, NEW r \in Requests, Refuse(r), UNCHANGED <<row, setup, pending, spent, verified>>,
           \E s \in Sessions \cup {Nobody} : regChallenge' \in {regChallenge, Taken(regChallenge, s)},
           \E s \in Sessions \cup {Nobody} : authChallenge' \in {authChallenge, Taken(authChallenge, s)}
    PROVE  OneMoves(r)
<1>1. Gone(r, "failed") /\ Forgotten(r) /\ overtaken' = overtaken \ {r}
  BY Ending, Names DEF Now, Refuse
<1>2. MfaTypeOK'
  BY <1>1 DEF Taken, Now, MfaTypeOK, Gone, Forgotten
<1> QED BY <1>1, <1>2, Leaving

LEMMA SetupMoves ==
    ASSUME Now, NEW r \in Requests, VerifyPendingSetup(r) \/ ClearPendingSetup(r)
    PROVE  OneMoves(r)
<1> USE Names
<1>1. CASE VerifyPendingSetup(r) /\ Refuse(r)
  BY <1>1, RefusedMoves DEF VerifyPendingSetup, redis
<1>2. CASE VerifyPendingSetup(r) /\ ~Refuse(r)
  <2>1. /\ Gone(r, "commit") /\ UNCHANGED <<row, redis, request, snap, overtaken, pending, spent, verified>>
        /\ pc[r] = "pending" /\ setup[sess[r]] # Absent /\ Pick(r, setup[sess[r]])
    BY <1>2, Going DEF VerifyPendingSetup, Move, Now
  <2>2. op[r] = "code" /\ sess[r] \in Sessions
    BY <2>1 DEF Now, Route, Comes, Ended
  <2>3. /\ pick' \in [Requests -> Codes \cup Credentials \cup {Old, Absent}]
        /\ pick'[r] \in Requests /\ \A q \in Requests \ {r} : pick'[q] = pick[q]
    BY <2>1, <2>2 DEF Now, MfaTypeOK, Pick, Credentials
  <2>4. MfaTypeOK'
    BY <2>1, <2>3 DEF Now, MfaTypeOK, Gone, redis, request
  <2>5. Route(r)'
    BY <2>1, <2>2, <2>3 DEF Route, Comes, Picked, Finishing, Gone, Now, request
  <2> QED BY <2>1, <2>3, <2>4, <2>5, Proceeding
<1>3. CASE ClearPendingSetup(r)
  <2>1. /\ Gone(r, "upgrade") /\ UNCHANGED <<row, request, snap, overtaken, pending, spent, verified, pick>>
        /\ pc[r] = "clear" /\ setup' = [setup EXCEPT ![sess[r]] = Absent]
        /\ UNCHANGED <<regChallenge, authChallenge>>
    BY <1>3, Going DEF ClearPendingSetup, Move, Now
  <2>2. MfaTypeOK'
    BY <2>1 DEF Now, MfaTypeOK, Gone, request
  <2>3. Route(r)'
    BY <2>1 DEF Route, Comes, Picked, Finishing, Gone, Now, request, Ended
  <2> QED BY <2>1, <2>2, <2>3, Proceeding
<1> QED BY <1>1, <1>2, <1>3

LEMMA FinishMoves ==
    ASSUME Now, NEW r \in Requests, FinishRegistration(r) \/ FinishAuthentication(r)
    PROVE  OneMoves(r)
<1> USE Names
<1>1. /\ pc[r] = "consume" /\ op[r] \in Finishing /\ sess[r] \in Sessions
      /\ UNCHANGED <<row, setup, pending, spent>>
      /\ regChallenge' \in {regChallenge, Taken(regChallenge, sess[r])}
      /\ authChallenge' \in {authChallenge, Taken(authChallenge, sess[r])}
  <2>1. pc[r] = "consume" /\ op[r] \in Finishing
    BY DEF FinishRegistration, FinishAuthentication, Finishing
  <2> QED BY <2>1 DEF FinishRegistration, FinishAuthentication, Now, Route, Ended, Finishing
<1>2. CASE Refuse(r) /\ UNCHANGED verified
  BY <1>1, <1>2, RefusedMoves
<1>3. CASE Move(r, "commit") /\ verified' = verified \cup {r} /\ UNCHANGED pick
  <2>1. Gone(r, "commit") /\ UNCHANGED <<request, snap, overtaken, pick>>
    BY <1>3, Going DEF Move, Now
  <2>2. MfaTypeOK'
    BY <1>1, <1>3, <2>1 DEF Taken, Now, MfaTypeOK, Gone, request
  <2>3. Route(r)'
    BY <1>1, <1>3, <2>1 DEF Route, Comes, Picked, Finishing, Gone, Now, request, Ended
  <2>4. Elsewhere(r)
    BY <1>3, <2>1 DEF Elsewhere, Gone, request
  <2> QED BY <2>2, <2>3, <2>4 DEF OneMoves
<1> QED BY <1>2, <1>3 DEF FinishRegistration, FinishAuthentication, Verifies

-----------------------------------------------------------------------------
(* The transactions.                                                        *)

LEMMA Subsets ==
    /\ \A b \in Requests \cup {Old} : Batch(b) \subseteq Codes
    /\ MfaDisabledData({}) \in Account
BY DEF Codes, MfaDisabledData, Account

(* What the transaction of each operation makes of the account.             *)
Committed(r) ==
    CASE op[r] = "code" ->
           [row EXCEPT !.enabled = TRUE, !.totp = pick[r], !.codes = Batch(r)]
      [] op[r] = "recovery" -> [row EXCEPT !.codes = snap[r].codes \ {pick[r]}]
      [] op[r] = "regenerate" -> [row EXCEPT !.codes = Batch(r)]
      [] op[r] \in {"disable", "reset"} -> MfaDisabledData({})
      [] op[r] = "regVerify" ->
           [row EXCEPT !.enabled = TRUE, !.keys = @ \cup {pick[r]},
                       !.codes = IF snap[r].codes = {} THEN Batch(r) ELSE @]
      [] op[r] = "authVerify" -> row
      [] op[r] = "revokeKey" ->
           IF FactorRemains(snap[r], pick[r]) THEN [row EXCEPT !.keys = row.keys \ {pick[r]}]
           ELSE MfaDisabledData(row.keys \ {pick[r]})

(* Where it leaves the handler.                                             *)
CommitGoes(r) ==
    \/ /\ op[r] = "code" /\ Goto(r, "clear")
       /\ UNCHANGED <<request, snap, pick>>
    \/ /\ op[r] \in {"recovery", "authVerify"} /\ Goto(r, "upgrade")
       /\ UNCHANGED <<request, snap, pick>>
    \/ /\ op[r] \in Revising /\ Goto(r, "enforce")
       /\ UNCHANGED <<request, snap, pick>>
    \/ /\ op[r] \in {"regenerate", "regVerify", "revokeKey"} /\ Goto(r, "done")
       /\ Forget(r)

CommitEffect(r) ==
    /\ pc[r] = "commit"
    /\ row' = Committed(r)
    /\ CommitGoes(r)
    /\ spent' = IF op[r] = "recovery" THEN spent \cup {pick[r]} ELSE spent
    /\ IF op[r] = "authVerify" THEN overtaken' = overtaken
       ELSE Outdated(r) \subseteq overtaken' /\ overtaken' \subseteq overtaken \cup Outdated(r)
    /\ overtaken \ {r} \subseteq overtaken'
    /\ pc'[r] = "enforce" => (r \in overtaken' <=> r \in overtaken)
    /\ Committing

LEMMA CommitTakes ==
    ASSUME Now, NEW r \in Requests, Commit(r)
    PROVE  CommitEffect(r)
<1> USE DEF Commits, Committed, CommitGoes, CommitEffect, WriteAndGo, WriteAndEnd,
            WriteAndEnforce, Outdates, Outdated, Revising
<1>0. pc[r] = "commit" => pc \in [Requests -> Labels]
  BY DEF Now, MfaTypeOK
<1>1. CASE Enroll(r)
  BY <1>0, <1>1 DEF Enroll, Goto
<1>2. CASE ConsumeRecoveryCode(r)
  BY <1>0, <1>2 DEF ConsumeRecoveryCode, RemainingHashes, Goto
<1>3. CASE ReplaceRecoveryCodes(r)
  BY <1>0, <1>3 DEF ReplaceRecoveryCodes, Goto
<1>4. CASE CommitDisable(r)
  BY <1>0, <1>4 DEF CommitDisable
<1>5. CASE CommitReset(r)
  BY <1>0, <1>5 DEF CommitReset
<1>6. CASE Register(r)
  BY <1>0, <1>6 DEF Register, Goto
<1>7. CASE RecordUse(r)
  BY <1>0, <1>7 DEF RecordUse, Move, Goto
<1>8. CASE CommitRevocation(r)
  <2>1. CASE FactorRemains(snap[r], pick[r])
    BY <1>0, <1>8, <2>1 DEF CommitRevocation, Goto
  <2>2. CASE ~FactorRemains(snap[r], pick[r])
    BY <1>0, <1>8, <2>2 DEF CommitRevocation
  <2> QED BY <2>1, <2>2
<1> QED BY <1>1, <1>2, <1>3, <1>4, <1>5, <1>6, <1>7, <1>8 DEF Commit

LEMMA CommitMoves ==
    ASSUME Now, NEW r \in Requests, Commit(r)
    PROVE  OneMoves(r)
<1> USE Names
<1>1. CommitEffect(r)
  BY CommitTakes
<1>2. /\ op[r] \in Operations /\ op[r] \in Comes("commit")
      /\ op[r] = "code" => pick[r] \in Requests
      /\ op[r] = "recovery" => pick[r] \in snap[r].codes
      /\ op[r] = "regVerify" => pick[r] \in Credentials
      /\ snap[r].codes \subseteq Codes
  BY <1>1 DEF CommitEffect, Now, Route, Picked, MfaTypeOK, Account, Finishing, Credentials
<1>3. row' \in Account
  <2>1. Batch(r) \subseteq Codes /\ row \in Account
    BY Subsets DEF Now, MfaTypeOK
  <2>2. CASE op[r] = "code"
    BY <1>1, <1>2, <2>1, <2>2 DEF CommitEffect, Committed, Account
  <2>3. CASE op[r] = "recovery"
    BY <1>1, <1>2, <2>1, <2>3 DEF CommitEffect, Committed, Account
  <2>4. CASE op[r] = "regenerate"
    BY <1>1, <1>2, <2>1, <2>4 DEF CommitEffect, Committed, Account
  <2>5. CASE op[r] \in {"disable", "reset"}
    BY <1>1, <2>5, Subsets DEF CommitEffect, Committed
  <2>6. CASE op[r] = "regVerify"
    BY <1>1, <1>2, <2>1, <2>6 DEF CommitEffect, Committed, Account
  <2>7. CASE op[r] = "authVerify"
    BY <1>1, <2>1, <2>7 DEF CommitEffect, Committed
  <2>8. CASE op[r] = "revokeKey"
    BY <1>1, <2>1, <2>8 DEF CommitEffect, Committed, MfaDisabledData, Account
  <2> QED BY <1>2, <2>2, <2>3, <2>4, <2>5, <2>6, <2>7, <2>8 DEF Comes, Finishing, Revising
<1>4. /\ spent' \subseteq Codes /\ overtaken' \subseteq Requests
      /\ UNCHANGED <<redis, pending, verified>>
  BY <1>1, <1>2 DEF CommitEffect, Now, MfaTypeOK, Outdated, Committing
<1>5. CASE Goto(r, "done") /\ Forget(r)
  <2>1. Gone(r, "done") /\ Forgotten(r)
    BY <1>5, Going, Forgetting DEF Now
  <2>2. MfaTypeOK'
    BY <1>3, <1>4, <2>1 DEF Now, MfaTypeOK, Gone, Forgotten, redis
  <2> QED BY <1>4, <2>1, <2>2, Leaving
<1>6. ASSUME NEW label \in {"clear", "upgrade", "enforce"}, Goto(r, label),
             UNCHANGED <<request, snap, pick>>, op[r] \in Comes(label)
      PROVE  OneMoves(r)
  <2>1. Gone(r, label)
    BY <1>6, Going DEF Now
  <2>2. MfaTypeOK'
    BY <1>3, <1>4, <1>6, <2>1 DEF Now, MfaTypeOK, Gone, redis, request
  <2>3. Route(r)'
    BY <1>1, <1>4, <1>6, <2>1 DEF CommitEffect, Route, Picked, Gone, Now, request, Ended
  <2> QED BY <1>4, <1>6, <2>1, <2>2, <2>3, Proceeding
<1> QED BY <1>1, <1>5, <1>6 DEF CommitEffect, CommitGoes, Comes

-----------------------------------------------------------------------------
(* The sessions, and the end.                                               *)

LEMMA SessionMoves ==
    ASSUME Now, NEW r \in Requests,
           Upgrade(r) \/ Enforce(r) \/ EnforceFails(r) \/ RollbackMfaState(r) \/ Crash(r)
    PROVE  OneMoves(r)
<1> USE Names
<1>1. CASE Upgrade(r) \/ Enforce(r) \/ Crash(r)
  <2>1. /\ End(r, "done") \/ End(r, "failed")
        /\ UNCHANGED <<row, redis, spent, verified>> /\ pending' \subseteq pending
    BY <1>1 DEF Upgrade, Enforce, Crash
  <2>2. /\ Gone(r, "done") \/ Gone(r, "failed")
        /\ Forgotten(r) /\ overtaken' = overtaken \ {r}
    BY <2>1, Ending DEF Now
  <2>3. MfaTypeOK'
    BY <2>1, <2>2 DEF Now, MfaTypeOK, Gone, Forgotten, redis
  <2> QED BY <2>1, <2>2, <2>3, Leaving
<1>2. CASE EnforceFails(r)
  <2>1. /\ Gone(r, "rollback") /\ pc[r] = "enforce"
        /\ UNCHANGED <<row, redis, request, snap, pick, overtaken, pending, spent, verified>>
    BY <1>2, Going DEF EnforceFails, Move, Now
  <2>2. MfaTypeOK'
    BY <2>1 DEF Now, MfaTypeOK, Gone, request, redis
  <2>3. Route(r)'
    BY <2>1 DEF Route, Comes, Picked, Gone, Now, request, Ended
  <2> QED BY <2>1, <2>2, <2>3, Proceeding
<1>3. CASE RollbackMfaState(r)
  <2>1. /\ Gone(r, "restored") /\ Forgotten(r)
        /\ UNCHANGED <<redis, pending, spent, verified>>
    BY <1>3, Going, Forgetting DEF RollbackMfaState, Now
  <2>2. row' \in Account
    BY <1>3 DEF RollbackMfaState, RolledBack, Now, MfaTypeOK, Account
  <2>3. overtaken' \subseteq Requests
    BY <1>3 DEF RollbackMfaState, Outdates, Outdated, Now, MfaTypeOK
  <2>4. MfaTypeOK'
    BY <2>1, <2>2, <2>3 DEF Now, MfaTypeOK, Gone, Forgotten, redis
  <2> QED BY <2>1, <2>4, Leaving
<1> QED BY <1>1, <1>2, <1>3

LEMMA HandlerMoves ==
    ASSUME Now, NEW r \in Requests, Handle(r) \/ Crash(r)
    PROVE  OneMoves(r)
BY ArriveMoves, ReadMoves, StoreMoves, SetupMoves, FinishMoves, CommitMoves, SessionMoves
   DEF Handle

LEMMA NowHolds ==
    ASSUME Now, [Next]_vars
    PROVE  Now'
<1>1. ASSUME NEW r \in Requests, OneMoves(r) PROVE Now'
  <2>1. \A q \in Requests \ {r} : Route(q)'
    BY <1>1 DEF OneMoves, Elsewhere, Now, Route, Picked, MfaTypeOK
  <2> QED BY <1>1, <2>1 DEF OneMoves, Now
<1>2. CASE UNCHANGED vars
  BY <1>2 DEF vars, redis, request, history, Now, MfaTypeOK, Route, Picked
<1> QED BY <1>1, <1>2, HandlerMoves DEF Next, Idle

LEMMA NowInit ==
    ASSUME Init
    PROVE  Now
<1> USE Names DEF Init
<1>1. row \in Account
  BY Subsets DEF Account, Credentials
<1>2. MfaTypeOK
  BY <1>1 DEF MfaTypeOK
<1>3. \A r \in Requests : Route(r)
  BY DEF Route, Comes, Picked, Finishing
<1> QED BY <1>2, <1>3 DEF Now

LEMMA NowAlways == Spec => []Now
BY NowInit, NowHolds, PTL DEF Spec

(* Every variable of Mfa keeps its type: the account, what Redis keeps per  *)
(* session and what the handlers hold, under every fault.                   *)
THEOREM MfaTypeCorrect == Spec => []MfaTypeOK
<1>1. Now => MfaTypeOK
  BY DEF Now
<1> QED BY <1>1, NowAlways, PTL

-----------------------------------------------------------------------------
(* The ceremonies.                                                          *)

(* A stored challenge is the one of a request that ended in its session.    *)
Waiting(challenges) ==
    \A s \in Sessions : challenges[s] # Absent =>
        pc[challenges[s]] = "done" /\ sess[challenges[s]] = s

(* The challenge of a verified ceremony is no longer stored.                *)
Consumed(r) ==
    /\ pc[pick[r]] = "done" /\ sess[pick[r]] = sess[r]
    /\ op[r] = "authVerify" => purpose[pick[r]] = purpose[r]
    /\ \A s \in Sessions :
          /\ op[r] = "regVerify" => regChallenge[s] # pick[r]
          /\ op[r] = "authVerify" => authChallenge[s] # pick[r]

Ceremonies ==
    /\ Waiting(regChallenge) /\ Waiting(authChallenge)
    /\ \A r \in verified : Consumed(r)
    /\ \A r, q \in verified : op[r] = op[q] /\ pick[r] = pick[q] => r = q

Same(r) ==
    op'[r] = op[r] /\ sess'[r] = sess[r] /\ purpose'[r] = purpose[r] /\ pick'[r] = pick[r]

(* What a step may do to the challenges of a kind.                          *)
Replaces(r, before, after) ==
    \A s \in Sessions :
        \/ after[s] \in {before[s], Absent}
        \/ after[s] = r /\ pc[r] = "store" /\ pc'[r] = "done" /\ sess'[r] = s

CeremonyStep(r) ==
    /\ pc[r] \notin Ended
    /\ r \in verified => Same(r)
    /\ Replaces(r, regChallenge, regChallenge') /\ Replaces(r, authChallenge, authChallenge')
    /\ r \in verified' \ verified =>
          /\ Same(r) /\ sess[r] \in Sessions
          /\ op[r] = "regVerify" =>
                regChallenge[sess[r]] = pick[r] /\ regChallenge'[sess[r]] = Absent
          /\ op[r] = "authVerify" =>
                /\ authChallenge[sess[r]] = pick[r] /\ authChallenge'[sess[r]] = Absent
                /\ purpose[pick[r]] = purpose[r]

(* A request whose history matters keeps it when it ends.                   *)
LEMMA Remembering ==
    ASSUME NEW r \in Requests, Forgotten(r), Remembered(r)
    PROVE  Same(r)
BY DEF Forgotten, Same, request

LEMMA ReadCeremony ==
    ASSUME Now, NEW r \in Requests, Arrive(r) \/ Read(r)
    PROVE  CeremonyStep(r)
<1>1. pc[r] \in {"start", "read"} /\ UNCHANGED <<redis, verified>>
  BY ReadTakes DEF Arrive, Reading, history
<1>2. r \notin verified
  BY <1>1 DEF Now, Route
<1> QED BY <1>1, <1>2 DEF CeremonyStep, Replaces, redis, Ended

LEMMA StoreCeremony ==
    ASSUME Now, NEW r \in Requests,
           CreateSetup(r) \/ StoreRegistrationChallenge(r) \/ StoreAuthenticationChallenge(r)
    PROVE  CeremonyStep(r)
<1>1. /\ pc[r] = "store" /\ End(r, "done") /\ UNCHANGED verified
      /\ \/ UNCHANGED <<regChallenge, authChallenge>>
         \/ /\ op[r] = "regOptions" /\ UNCHANGED authChallenge
            /\ regChallenge' = [regChallenge EXCEPT ![sess[r]] = r]
         \/ /\ op[r] = "authOptions" /\ UNCHANGED regChallenge
            /\ authChallenge' = [authChallenge EXCEPT ![sess[r]] = r]
  BY DEF CreateSetup, StoreRegistrationChallenge, StoreAuthenticationChallenge, Stores
<1>2. Gone(r, "done") /\ Forgotten(r)
  BY <1>1, Ending, Names DEF Now
<1>3. op[r] \in {"regOptions", "authOptions"} \/ r \in verified => Same(r)
  BY <1>2, Remembering DEF Remembered
<1> QED BY <1>1, <1>2, <1>3 DEF CeremonyStep, Replaces, Same, Gone, Ended, Now, MfaTypeOK

LEMMA FinishCeremony ==
    ASSUME Now, NEW r \in Requests, FinishRegistration(r) \/ FinishAuthentication(r)
    PROVE  CeremonyStep(r)
<1>1. /\ pc[r] = "consume" /\ r \notin verified
      /\ sess[r] \in Sessions
  BY DEF FinishRegistration, FinishAuthentication, Now, Route, Ended
<1>2. /\ regChallenge \in [Sessions -> Requests \cup {Absent}]
      /\ authChallenge \in [Sessions -> Requests \cup {Absent}]
  BY DEF Now, MfaTypeOK
<1>3. CASE FinishRegistration(r)
  <2>1. /\ regChallenge' = [regChallenge EXCEPT ![sess[r]] = Absent]
        /\ UNCHANGED authChallenge /\ op[r] = "regVerify"
        /\ r \in verified' => Same(r) /\ regChallenge[sess[r]] = pick[r]
    BY <1>1, <1>3 DEF FinishRegistration, Taken, Verifies, Move, Same, request
  <2> QED BY <1>1, <1>2, <2>1 DEF CeremonyStep, Replaces, Ended
<1>4. CASE FinishAuthentication(r)
  <2>1. /\ authChallenge' = [authChallenge EXCEPT ![sess[r]] = Absent]
        /\ UNCHANGED regChallenge /\ op[r] = "authVerify"
        /\ r \in verified' => /\ Same(r) /\ authChallenge[sess[r]] = pick[r]
                              /\ purpose[pick[r]] = purpose[r]
    BY <1>1, <1>4 DEF FinishAuthentication, Taken, Verifies, Move, Same, request
  <2> QED BY <1>1, <1>2, <2>1 DEF CeremonyStep, Replaces, Ended
<1> QED BY <1>3, <1>4

LEMMA OtherCeremony ==
    ASSUME Now, NEW r \in Requests,
           VerifyPendingSetup(r) \/ ClearPendingSetup(r) \/ Commit(r) \/ Upgrade(r)
           \/ Enforce(r) \/ EnforceFails(r) \/ RollbackMfaState(r) \/ Crash(r)
    PROVE  CeremonyStep(r)
<1>1. /\ pc[r] \notin Ended
      /\ UNCHANGED <<regChallenge, authChallenge, verified>>
  BY CommitTakes DEF VerifyPendingSetup, ClearPendingSetup, CommitEffect, Committing, Upgrade,
     Enforce, EnforceFails, RollbackMfaState, Crash, redis, Ended
<1>2. r \in verified => Same(r)
  <2>1. CASE Forget(r)
    BY <2>1, Forgetting, Remembering DEF Now, Remembered
  <2>2. CASE UNCHANGED <<request, pick>>
    BY <2>2 DEF Same, request
  <2>3. VerifyPendingSetup(r) => Refuse(r) \/ pc[r] = "pending"
    BY DEF VerifyPendingSetup
  <2>4. pc[r] = "pending" => r \notin verified
    BY DEF Now, Route, Comes, Finishing
  <2> QED BY <2>1, <2>2, <2>3, <2>4, CommitTakes
          DEF Refuse, End, ClearPendingSetup, CommitEffect, CommitGoes, Upgrade, Enforce,
              EnforceFails, RollbackMfaState, Crash, Move
<1> QED BY <1>1, <1>2 DEF CeremonyStep, Replaces

LEMMA CeremoniesHold ==
    ASSUME Now, Ceremonies, [Next]_vars
    PROVE  Ceremonies'
<1>1. ASSUME NEW r \in Requests, Handle(r) \/ Crash(r) PROVE Ceremonies'
  <2>1. OneMoves(r) /\ CeremonyStep(r)
    BY <1>1, HandlerMoves, ReadCeremony, StoreCeremony, FinishCeremony, OtherCeremony DEF Handle
  <2>2. \A q \in Requests : pc[q] = "done" =>
            q # r /\ Same(q) /\ pc'[q] = "done"
    BY <2>1 DEF OneMoves, Elsewhere, Same, CeremonyStep, Ended
  <2>3. ASSUME NEW before, NEW after, Replaces(r, before, after), Waiting(before),
               before \in [Sessions -> Requests \cup {Absent}]
        PROVE  \A s \in Sessions : after[s] # Absent =>
                   pc'[after[s]] = "done" /\ sess'[after[s]] = s
    BY <2>2, <2>3 DEF Replaces, Waiting, Same
  <2>4. Waiting(regChallenge)' /\ Waiting(authChallenge)'
    BY <2>1, <2>3 DEF CeremonyStep, Ceremonies, Now, MfaTypeOK, Waiting
  <2>5. \A q \in verified' : q \in Requests /\ Same(q)
    BY <2>1 DEF OneMoves, Elsewhere, CeremonyStep, Same, MfaTypeOK
  <2>6. \A q \in verified' : pick[q] \in Requests /\ op[q] \in Finishing
    BY <2>1, <2>5 DEF OneMoves, Route, Picked, Elsewhere, Now, Same
  <2>7. ASSUME NEW q \in verified PROVE Consumed(q)'
    <3>1. /\ Consumed(q) /\ Same(q) /\ pick[q] \in Requests /\ Same(pick[q])
          /\ pc'[pick[q]] = "done" /\ pick[q] # r
      BY <2>1, <2>2, <2>5, <2>6 DEF Ceremonies, Consumed, OneMoves, Elsewhere
    <3> QED BY <2>1, <3>1, Names DEF Consumed, Same, CeremonyStep, Replaces
  <2>8. ASSUME r \in verified', r \notin verified
        PROVE  Consumed(r)' /\ \A q \in verified : ~(op[q] = op[r] /\ pick[q] = pick[r])
    <3>1. /\ Same(r) /\ sess[r] \in Sessions /\ pick[r] \in Requests /\ op[r] \in Finishing
          /\ pick[r] # Absent
      BY <2>1, <2>5, <2>6, <2>8, Names DEF CeremonyStep
    <3>2. pc[pick[r]] = "done" /\ sess[pick[r]] = sess[r]
      BY <2>1, <2>8, <3>1 DEF CeremonyStep, Ceremonies, Waiting, Finishing
    <3>3. Same(pick[r]) /\ pc'[pick[r]] = "done" /\ pick[r] # r
      BY <2>2, <3>1, <3>2
    <3>4. ASSUME NEW s \in Sessions
          PROVE  /\ op[r] = "regVerify" => regChallenge'[s] # pick[r]
                 /\ op[r] = "authVerify" => authChallenge'[s] # pick[r]
      BY <2>1, <2>8, <3>1, <3>2, <3>3 DEF CeremonyStep, Ceremonies, Waiting, Replaces
    <3>5. Consumed(r)'
      BY <2>1, <2>8, <3>1, <3>2, <3>3, <3>4 DEF Consumed, Same, CeremonyStep
    <3>6. \A q \in verified : ~(op[q] = op[r] /\ pick[q] = pick[r])
      BY <2>1, <2>8, <3>1 DEF CeremonyStep, Ceremonies, Consumed, Finishing
    <3> QED BY <3>5, <3>6
  <2>9. verified' \subseteq verified \cup {r}
    BY <2>1 DEF OneMoves, Elsewhere
  <2>10. \A q, p \in verified' : op'[q] = op'[p] /\ pick'[q] = pick'[p] => q = p
    BY <2>5, <2>8, <2>9 DEF Ceremonies, Same
  <2> QED BY <2>4, <2>7, <2>8, <2>9, <2>10 DEF Ceremonies
<1>2. CASE UNCHANGED vars
  BY <1>2 DEF vars, redis, request, history, Ceremonies, Waiting, Consumed
<1> QED BY <1>1, <1>2 DEF Next, Idle

(* A WebAuthn challenge serves one ceremony: however the answers to it      *)
(* overlap or are repeated, one at most is verified, and only for the       *)
(* session and the purpose it was made for (consumeChallengeScript).        *)
THEOREM ChallengesServeOnce == Spec => []ChallengeOnce
<1>1. Init => Ceremonies
  BY DEF Init, Ceremonies, Waiting
<1>2. Now /\ Ceremonies /\ [Next]_vars => Ceremonies'
  BY CeremoniesHold
<1>3. Ceremonies => ChallengeOnce
  BY DEF Ceremonies, Consumed, ChallengeOnce
<1> QED BY <1>1, <1>2, <1>3, NowAlways, PTL DEF Spec

-----------------------------------------------------------------------------
(* The account as a handler read it.                                        *)

(* Unless someone else wrote the account, a handler works on what it read,  *)
(* and what it did took credentials away at most.                           *)
Fresh(r) ==
    r \notin overtaken =>
        /\ pc[r] \in {"pending", "consume", "commit"} => row = snap[r]
        /\ pc[r] \in {"enforce", "rollback"} => row.keys \subseteq snap[r].keys

(* The steps before a batch of codes is made.                               *)
Early == {"start", "read", "store", "pending", "consume", "commit"}

Issued(codes) == \A c \in codes : c[1] \in Requests => pc[c[1]] \notin Early

Snapshots ==
    /\ \A r \in Requests : Fresh(r)
    /\ Issued(row.codes) /\ Issued(spent)
    /\ \A r \in Requests : Issued(snap[r].codes)

(* What the steps of a handler are to the account: the handler ends, takes  *)
(* its snapshot, goes on, commits or rolls back.                            *)
Quits(r) ==
    /\ pc'[r] \in {"done", "failed"} /\ (pc[r] = "commit" => pc'[r] = "failed")
    /\ UNCHANGED <<row, spent>> /\ snap'[r] = Unread /\ overtaken' = overtaken \ {r}

Looks(r) ==
    /\ pc[r] = "read" /\ pc'[r] \in {"store", "pending", "consume", "commit", "upgrade"}
    /\ UNCHANGED <<row, spent, overtaken>> /\ snap'[r] = row

Passes(r) ==
    /\ <<pc[r], pc'[r]>> \in {<<"start", "read">>, <<"pending", "commit">>,
          <<"consume", "commit">>, <<"clear", "upgrade">>, <<"enforce", "rollback">>}
    /\ UNCHANGED <<row, spent, overtaken>> /\ snap'[r] = snap[r]

RollsBack(r) ==
    /\ pc[r] = "rollback" /\ pc'[r] = "restored"
    /\ row' = RolledBack(r) /\ UNCHANGED spent
    /\ snap'[r] = Unread /\ Outdates(r)

LEMMA Kinds ==
    ASSUME Now, NEW r \in Requests, Handle(r) \/ Crash(r)
    PROVE  /\ pc[r] \notin Ended
           /\ Quits(r) \/ Looks(r) \/ Passes(r) \/ CommitEffect(r) \/ RollsBack(r)
<1> USE Names
<1>1. /\ pc \in [Requests -> Labels] /\ snap \in [Requests -> Account]
  BY DEF Now, MfaTypeOK
<1>2. ASSUME NEW label \in {"done", "failed"}, End(r, label), UNCHANGED <<row, spent>>,
             pc[r] = "commit" => label = "failed"
      PROVE  Quits(r)
  BY <1>1, <1>2 DEF End, Goto, Forget, Quits
<1>3. CASE Arrive(r)
  BY <1>1, <1>3 DEF Arrive, Goto, Passes, history, Ended
<1>4. CASE Read(r)
  <2>1. Reading /\ pc[r] = "read" /\ (End(r, "failed") \/ \E label \in Labels : Takes(r, label))
    BY <1>4, ReadTakes
  <2>2. ASSUME NEW label \in Labels, Takes(r, label) PROVE Looks(r)
    BY <1>1, <2>1, <2>2 DEF Takes, GoOn, Goto, Looks, Reading
  <2> QED BY <1>2, <2>1, <2>2 DEF Reading, Ended
<1>5. CASE CreateSetup(r) \/ StoreRegistrationChallenge(r) \/ StoreAuthenticationChallenge(r)
  BY <1>2, <1>5
     DEF CreateSetup, StoreRegistrationChallenge, StoreAuthenticationChallenge, Stores, Ended
<1>6. CASE VerifyPendingSetup(r) \/ ClearPendingSetup(r)
  BY <1>1, <1>2, <1>6
     DEF VerifyPendingSetup, ClearPendingSetup, Refuse, Move, Goto, Passes, Ended
<1>7. CASE FinishRegistration(r) \/ FinishAuthentication(r)
  BY <1>1, <1>2, <1>7
     DEF FinishRegistration, FinishAuthentication, Verifies, Refuse, Move, Goto, Passes, Ended
<1>8. CASE Commit(r)
  BY <1>8, CommitTakes DEF CommitEffect, Ended
<1>9. CASE Upgrade(r) \/ Enforce(r) \/ Crash(r)
  BY <1>2, <1>9 DEF Upgrade, Enforce, Crash, Ended
<1>10. CASE EnforceFails(r)
  BY <1>1, <1>10 DEF EnforceFails, Move, Goto, Passes, Ended
<1>11. CASE RollbackMfaState(r)
  BY <1>1, <1>11 DEF RollbackMfaState, RollsBack, Goto, Forget, Ended
<1> QED BY <1>3, <1>4, <1>5, <1>6, <1>7, <1>8, <1>9, <1>10, <1>11 DEF Handle

(* Who commits is at a later step and outdates the others.                  *)
LEMMA CommitLeads ==
    ASSUME Now, NEW r \in Requests, CommitEffect(r)
    PROVE  /\ pc'[r] \in {"clear", "upgrade", "enforce", "done"}
           /\ row' # row => Outdated(r) \subseteq overtaken'
           /\ snap'[r] \in {snap[r], Unread}
BY DEF CommitEffect, CommitGoes, Committed, Now, MfaTypeOK, Goto, Forget

(* A batch is made when its request commits.                                *)
LEMMA BatchOf ==
    ASSUME NEW b \in Requests, NEW c \in Batch(b)
    PROVE  c[1] = b
BY DEF Batch

LEMMA StepsOutdate ==
    ASSUME Now, NEW r \in Requests, OneMoves(r),
           Quits(r) \/ Looks(r) \/ Passes(r) \/ CommitEffect(r) \/ RollsBack(r),
           NEW q \in Requests \ {r}, Fresh(q)
    PROVE  Fresh(q)'
<1>1. pc'[q] = pc[q] /\ snap'[q] = snap[q] /\ (q \in overtaken => q \in overtaken')
  BY DEF OneMoves, Elsewhere, Quits, Looks, Passes, CommitEffect, RollsBack, Outdates
<1>2. row' # row /\ HoldsSnapshot(q) => q \in overtaken'
  BY CommitLeads DEF Quits, Looks, Passes, RollsBack, Outdates, Outdated
<1> QED BY <1>1, <1>2 DEF Fresh, HoldsSnapshot

LEMMA CommitStaysFresh ==
    ASSUME Now, NEW r \in Requests, CommitEffect(r), Fresh(r)
    PROVE  Fresh(r)'
<1>1. CASE pc'[r] # "enforce"
  BY <1>1, CommitLeads DEF Fresh
<1>2. CASE pc'[r] = "enforce"
  <2>1. /\ op[r] \in Revising /\ snap'[r] = snap[r] /\ pc[r] = "commit"
        /\ r \in overtaken' <=> r \in overtaken
    BY <1>2, Names DEF CommitEffect, CommitGoes, Goto, Now, MfaTypeOK
  <2>2. row'.keys \subseteq row.keys
    BY <2>1 DEF CommitEffect, Committed, Revising, MfaDisabledData, Now, MfaTypeOK, Account
  <2> QED BY <1>2, <2>1, <2>2 DEF Fresh
<1> QED BY <1>1, <1>2

LEMMA CommitIssues ==
    ASSUME Now, Snapshots, NEW r \in Requests, CommitEffect(r)
    PROVE  /\ \A c \in row'.codes : c \in row.codes \cup snap[r].codes \cup Batch(r)
           /\ \A c \in spent' : c \in spent \cup snap[r].codes
<1>1. row \in Account /\ op[r] \in Comes("commit") /\ (op[r] = "recovery" => pick[r] \in snap[r].codes)
  BY DEF CommitEffect, Now, MfaTypeOK, Route, Picked
<1>2. op[r] \in {"code", "recovery", "regenerate", "regVerify", "authVerify", "disable",
                 "reset", "revokeKey"}
  BY <1>1 DEF Comes, Finishing, Revising
<1>3. row' = Committed(r) /\ spent' = IF op[r] = "recovery" THEN spent \cup {pick[r]} ELSE spent
  BY DEF CommitEffect
<1>4. \A c \in Committed(r).codes : c \in row.codes \cup snap[r].codes \cup Batch(r)
  <2>1. CASE op[r] \in {"code", "regenerate"}
    BY <1>1, <2>1 DEF Committed, Account
  <2>2. CASE op[r] \in {"recovery", "authVerify"}
    BY <1>1, <2>2 DEF Committed, Account
  <2>3. CASE op[r] \in {"disable", "reset"}
    BY <2>3 DEF Committed, MfaDisabledData
  <2>4. CASE op[r] = "regVerify"
    BY <1>1, <2>4 DEF Committed, Account
  <2>5. CASE op[r] = "revokeKey"
    BY <1>1, <2>5 DEF Committed, MfaDisabledData, Account
  <2> QED BY <1>2, <2>1, <2>2, <2>3, <2>4, <2>5
<1> QED BY <1>1, <1>3, <1>4

LEMMA SnapshotsHold ==
    ASSUME Now, Snapshots, [Next]_vars
    PROVE  Snapshots'
<1>1. ASSUME NEW r \in Requests, Handle(r) \/ Crash(r) PROVE Snapshots'
  <2>1. /\ OneMoves(r) /\ pc[r] \notin Ended
        /\ Quits(r) \/ Looks(r) \/ Passes(r) \/ CommitEffect(r) \/ RollsBack(r)
    BY <1>1, HandlerMoves, Kinds
  <2>2. Fresh(r)'
    <3>1. CASE CommitEffect(r)
      BY <3>1, CommitStaysFresh DEF Snapshots
    <3>2. CASE Quits(r) \/ Looks(r) \/ RollsBack(r)
      BY <3>2 DEF Quits, Looks, RollsBack, Fresh
    <3>3. CASE Passes(r)
      BY <3>3 DEF Passes, Fresh, Snapshots
    <3> QED BY <2>1, <3>1, <3>2, <3>3
  <2>3. \A q \in Requests \ {r} : Fresh(q)'
    BY <2>1, StepsOutdate DEF Snapshots
  <2>4. ASSUME NEW b \in Requests, pc[b] \notin Early PROVE pc'[b] \notin Early
    <3>1. CASE b # r
      BY <2>1, <2>4, <3>1 DEF OneMoves, Elsewhere
    <3>2. CASE b = r
      BY <2>1, <2>4, <3>2, CommitLeads DEF Quits, Looks, Passes, RollsBack, CommitEffect, Early
    <3> QED BY <3>1, <3>2
  <2>5. ASSUME NEW codes, Issued(codes) PROVE \A c \in codes : c[1] \in Requests => pc'[c[1]] \notin Early
    BY <2>4, <2>5 DEF Issued
  <2>6. CASE CommitEffect(r)
    <3>1. pc'[r] \notin Early /\ snap'[r] \in {snap[r], Unread}
      BY <2>6, CommitLeads DEF Early
    <3>2. \A c \in Batch(r) : c[1] \in Requests => pc'[c[1]] \notin Early
      BY <3>1, BatchOf
    <3>3. Issued(row.codes)' /\ Issued(spent)'
      BY <2>5, <2>6, <3>2, CommitIssues DEF Snapshots, Issued
    <3>4. ASSUME NEW q \in Requests PROVE Issued(snap[q].codes)'
      <4>1. snap'[q] \in {snap[q], Unread}
        BY <2>1, <3>1 DEF OneMoves, Elsewhere
      <4> QED BY <2>5, <4>1 DEF Snapshots, Issued, Unread
    <3> QED BY <2>2, <2>3, <3>3, <3>4 DEF Snapshots
  <2>7. CASE Quits(r) \/ Looks(r) \/ Passes(r) \/ RollsBack(r)
    <3>1. spent' = spent /\ snap'[r] \in {snap[r], Unread, row}
      BY <2>7 DEF Quits, Looks, Passes, RollsBack
    <3>2. row'.codes \in {row.codes, snap[r].codes}
      BY <2>7 DEF Quits, Looks, Passes, RollsBack, RolledBack, Now, MfaTypeOK, Account
    <3>3. Issued(row.codes)' /\ Issued(spent)'
      BY <2>5, <3>1, <3>2 DEF Snapshots, Issued
    <3>4. ASSUME NEW q \in Requests PROVE Issued(snap[q].codes)'
      <4>1. snap'[q] \in {snap[q], Unread, row}
        BY <2>1, <3>1 DEF OneMoves, Elsewhere
      <4> QED BY <2>5, <4>1 DEF Snapshots, Issued, Unread
    <3> QED BY <2>2, <2>3, <3>3, <3>4 DEF Snapshots
  <2> QED BY <2>1, <2>6, <2>7
<1>2. CASE UNCHANGED vars
  BY <1>2 DEF vars, history, Snapshots, Fresh, Issued
<1> QED BY <1>1, <1>2 DEF Next, Idle

LEMMA SnapshotsAlways == Spec => [](Now /\ Snapshots)
<1>1. Init => Snapshots
  <2> SUFFICES ASSUME Init PROVE Snapshots
    OBVIOUS
  <2>1. \A c \in row.codes : c[1] = Old
    BY DEF Init, Batch
  <2> QED BY <2>1, MfaAssumption DEF Init, Snapshots, Fresh, Issued, Unread
<1> QED BY <1>1, SnapshotsHold, NowAlways, PTL DEF Spec

-----------------------------------------------------------------------------
(* What rollbacks and transactions make of the account.                     *)

LEMMA RollbackIsExact ==
    ASSUME Now, Snapshots, NEW r \in Requests, r \notin overtaken, RollsBack(r)
    PROVE  row' = snap[r]
<1>1. row.keys \subseteq snap[r].keys /\ snap[r] \in Account
  BY DEF RollsBack, Snapshots, Fresh, Now, MfaTypeOK
<1>2. row' = [snap[r] EXCEPT !.keys = snap[r].keys \cup row.keys]
  BY DEF RollsBack, RolledBack
<1>3. snap[r].keys \cup row.keys = snap[r].keys
  BY <1>1
<1> QED BY <1>1, <1>2, <1>3 DEF Account

(* When the sessions cannot be brought in line, the account is as it was    *)
(* before the operation, unless another one changed it in between           *)
(* (rollbackMfaState).                                                      *)
THEOREM RollbacksRestore == Spec => RollbackRestores
<1>1. Now /\ Snapshots /\ [Next]_vars =>
        [\A r \in Requests \ overtaken :
          pc[r] = "rollback" /\ pc'[r] = "restored" => row' = snap[r]]_vars
  <2> SUFFICES ASSUME Now, Snapshots, Next, NEW r \in Requests \ overtaken,
                      pc[r] = "rollback", pc'[r] = "restored"
               PROVE  row' = snap[r]
    OBVIOUS
  <2>1. PICK q \in Requests : Handle(q) \/ Crash(q)
    BY DEF Next, Idle, vars
  <2>2. q = r
    BY <2>1, HandlerMoves DEF OneMoves, Elsewhere
  <2>3. RollsBack(r)
    BY <2>1, <2>2, Kinds DEF Quits, Looks, Passes, CommitEffect
  <2> QED BY <2>3, RollbackIsExact
<1> QED BY <1>1, SnapshotsAlways, PTL DEF Spec, RollbackRestores

LEMMA CommitAgrees ==
    ASSUME Now, Snapshots, NEW r \in Requests, CommitEffect(r), Agree(row),
           r \notin overtaken \/ op[r] \notin {"recovery", "regenerate", "revokeKey"}
    PROVE  Agree(row')
<1> USE DEF Agree, HasFactor, HasPrimary
<1>1. /\ row \in Account /\ op[r] \in Comes("commit") /\ pc[r] = "commit" /\ row' = Committed(r)
      /\ snap[r] \in Account /\ (pick[r] # Absent \/ op[r] # "code")
      /\ Picked(r) /\ (r \notin overtaken => row = snap[r])
  BY Names DEF CommitEffect, Now, MfaTypeOK, Route, Picked, Snapshots, Fresh
<1>2. op[r] \in {"code", "recovery", "regenerate", "regVerify", "authVerify", "disable",
                 "reset", "revokeKey"}
  BY <1>1 DEF Comes, Finishing, Revising
<1>3. CASE op[r] = "code"
  BY <1>1, <1>3 DEF Committed, Account
<1>4. CASE op[r] = "recovery"
  BY <1>1, <1>4 DEF Committed, Account
<1>5. CASE op[r] = "regenerate"
  BY <1>1, <1>5 DEF Committed, Account, Picked
<1>6. CASE op[r] = "regVerify"
  BY <1>1, <1>6 DEF Committed, Account
<1>7. CASE op[r] = "authVerify"
  BY <1>1, <1>7 DEF Committed
<1>8. CASE op[r] \in {"disable", "reset"}
  BY <1>8, <1>1 DEF Committed, MfaDisabledData
<1>9. CASE op[r] = "revokeKey"
  BY <1>1, <1>9 DEF Committed, FactorRemains, MfaDisabledData, Account
<1> QED BY <1>2, <1>3, <1>4, <1>5, <1>6, <1>7, <1>8, <1>9

(* mfaEnabled and the recovery codes agree with the factors there are: no   *)
(* operation, failure or rollback breaks this but on a snapshot that        *)
(* another one outdated (findUnique and $transaction are apart).            *)
THEOREM FactorsStayInAgreement == Spec => FactorsAgree
<1>1. Now /\ Snapshots /\ [Next]_vars =>
        [\/ Agree(row) => Agree(row')
         \/ DoesOutdated({"recovery", "regenerate", "revokeKey"})
         \/ UndoesOutdated \/ Restores(Disagrees)]_vars
  <2> SUFFICES ASSUME Now, Snapshots, Next, Agree(row), row' # row,
                      ~DoesOutdated({"recovery", "regenerate", "revokeKey"}),
                      ~UndoesOutdated, ~Restores(Disagrees)
               PROVE  Agree(row')
    OBVIOUS
  <2>1. PICK r \in Requests : Handle(r) \/ Crash(r)
    BY DEF Next, Idle, vars
  <2>2. CASE CommitEffect(r)
    <3>1. Acts(r)
      BY <2>2, CommitLeads DEF CommitEffect, Acts
    <3> QED BY <2>2, <3>1, CommitAgrees DEF DoesOutdated
  <2>3. CASE RollsBack(r)
    <3>1. Acts(r) /\ pc[r] = "rollback"
      BY <2>3 DEF RollsBack, Acts
    <3>2. row' = snap[r]
      BY <2>3, <3>1, RollbackIsExact DEF UndoesOutdated
    <3> QED BY <3>1, <3>2 DEF Restores, Disagrees
  <2> QED BY <2>1, <2>2, <2>3, Kinds DEF Quits, Looks, Passes
<1> QED BY <1>1, SnapshotsAlways, PTL DEF Spec, FactorsAgree

LEMMA CommitReusesNone ==
    ASSUME Now, Snapshots, NEW r \in Requests, CommitEffect(r), ~Reusable(row),
           r \notin overtaken \/ op[r] # "recovery"
    PROVE  ~Reusable(row)'
<1>1. /\ row \in Account /\ op[r] \in Comes("commit") /\ pc[r] = "commit" /\ row' = Committed(r)
      /\ (r \notin overtaken => row = snap[r])
      /\ spent' = IF op[r] = "recovery" THEN spent \cup {pick[r]} ELSE spent
  BY DEF CommitEffect, Now, MfaTypeOK, Route, Snapshots, Fresh
<1>2. op[r] \in {"code", "recovery", "regenerate", "regVerify", "authVerify", "disable",
                 "reset", "revokeKey"}
  BY <1>1 DEF Comes, Finishing, Revising
<1>3. spent \cap Batch(r) = {}
  BY <1>1, BatchOf DEF Snapshots, Issued, Early
<1>4. CASE op[r] \in {"code", "regenerate", "regVerify"}
  <2>1. row'.codes \in {row.codes, Batch(r)}
    BY <1>1, <1>4 DEF Committed, Account
  <2> QED BY <1>1, <1>3, <1>4, <2>1 DEF Reusable
<1>5. CASE op[r] = "recovery"
  <2>1. row'.codes = row.codes \ {pick[r]}
    BY <1>1, <1>5 DEF Committed, Account
  <2> QED BY <1>1, <1>5, <2>1 DEF Reusable
<1>6. CASE op[r] = "authVerify"
  BY <1>1, <1>6 DEF Committed, Reusable
<1>7. CASE op[r] \in {"disable", "reset", "revokeKey"}
  <2>1. row'.codes \in {row.codes, {}}
    BY <1>1, <1>7 DEF Committed, MfaDisabledData, Account
  <2> QED BY <1>1, <1>7, <2>1 DEF Reusable
<1> QED BY <1>2, <1>4, <1>5, <1>6, <1>7

(* A recovery code that was accepted is not accepted again and does not     *)
(* come back, but on a snapshot that another one outdated (the list is      *)
(* written back minus one code, and restored by rollbacks).                 *)
THEOREM RecoveryCodesServeOnce == Spec => CodesServeOnce
<1>1. Now /\ Snapshots /\ [Next]_vars =>
        [\/ /\ ~Reusable(row) => ~Reusable(row)'
            /\ \A r \in Requests :
                  pc[r] = "commit" /\ op[r] = "recovery" /\ pc'[r] = "upgrade"
                     => pick[r] \notin spent \/ Reusable(row)
         \/ DoesOutdated({"recovery"}) \/ UndoesOutdated \/ Restores(Reusable)]_vars
  <2> SUFFICES ASSUME Now, Snapshots, Next, ~Reusable(row),
                      ~DoesOutdated({"recovery"}), ~UndoesOutdated, ~Restores(Reusable)
               PROVE  /\ ~Reusable(row)'
                      /\ \A r \in Requests :
                            pc[r] = "commit" /\ op[r] = "recovery" /\ pc'[r] = "upgrade"
                               => pick[r] \notin spent
    BY DEF vars, history, Reusable
  <2>1. CASE UNCHANGED vars
    BY <2>1 DEF vars, history, Reusable
  <2>2. ASSUME NEW r \in Requests, Handle(r) \/ Crash(r)
        PROVE  /\ ~Reusable(row)'
               /\ \A q \in Requests :
                     pc[q] = "commit" /\ op[q] = "recovery" /\ pc'[q] = "upgrade"
                        => pick[q] \notin spent
    <3>1. ASSUME CommitEffect(r) PROVE ~Reusable(row)' /\ (op[r] = "recovery" => pick[r] \notin spent)
      <4>1. r \notin overtaken \/ op[r] # "recovery"
        BY <3>1, CommitLeads DEF CommitEffect, Acts, DoesOutdated
      <4>2. op[r] = "recovery" => pick[r] \in row.codes
        BY <3>1, <4>1 DEF CommitEffect, Now, Route, Picked, Snapshots, Fresh
      <4> QED BY <3>1, <4>1, <4>2, CommitReusesNone DEF Reusable
    <3>2. RollsBack(r) => ~Reusable(row)'
      <4> SUFFICES ASSUME RollsBack(r) PROVE ~Reusable(row)'
        OBVIOUS
      <4>1. Acts(r) /\ pc[r] = "rollback" /\ spent' = spent
        BY DEF RollsBack, Acts
      <4>2. row' = snap[r]
        BY <4>1, RollbackIsExact DEF UndoesOutdated
      <4> QED BY <4>1, <4>2 DEF Restores, Reusable
    <3>3. Quits(r) \/ Looks(r) \/ Passes(r) => ~Reusable(row)'
      BY DEF Quits, Looks, Passes, Reusable
    <3>4. Quits(r) \/ Looks(r) \/ Passes(r) \/ RollsBack(r) => ~(pc[r] = "commit" /\ pc'[r] = "upgrade")
      BY DEF Quits, Looks, Passes, RollsBack
    <3>5. \A q \in Requests \ {r} : pc'[q] = pc[q]
      BY <2>2, HandlerMoves DEF OneMoves, Elsewhere
    <3>6. Quits(r) \/ Looks(r) \/ Passes(r) \/ CommitEffect(r) \/ RollsBack(r)
      BY <2>2, Kinds
    <3> QED BY <3>1, <3>2, <3>3, <3>4, <3>5, <3>6
  <2> QED BY <2>1, <2>2 DEF Next, Idle
<1> QED BY <1>1, SnapshotsAlways, PTL DEF Spec, CodesServeOnce

-----------------------------------------------------------------------------
(* What outdated snapshots alone are to blame for.                          *)

(* The guard the code lacks, as the steps that are left.                    *)
FreshOnly ==
    /\ ~DoesOutdated({"recovery", "regenerate", "revokeKey"})
    /\ ~UndoesOutdated

(* Whatever was read agreed, and a snapshot that nobody has outdated offers *)
(* no code that was accepted.                                               *)
Sound ==
    /\ Agree(row) /\ ~Reusable(row)
    /\ \A r \in Requests : Agree(snap[r])
    /\ \A r \in Requests \ overtaken : HoldsSnapshot(r) => ~Reusable(snap[r])

Serves(r) == pc[r] = "commit" /\ op[r] = "recovery" /\ pc'[r] = "upgrade"

LEMMA FreshCommits ==
    ASSUME Now, Snapshots, Sound, FreshOnly, NEW r \in Requests, CommitEffect(r)
    PROVE  /\ Agree(row') /\ ~Reusable(row)'
           /\ op[r] = "recovery" => pick[r] \notin spent
           /\ spent' # spent => op[r] = "recovery" /\ row' # row
           /\ spent' \subseteq spent \cup snap[r].codes
<1>1. r \notin overtaken \/ op[r] \notin {"recovery", "regenerate", "revokeKey"}
  BY CommitLeads DEF CommitEffect, Acts, FreshOnly, DoesOutdated
<1>2. op[r] = "recovery" => pick[r] \in row.codes /\ row = snap[r]
  BY <1>1 DEF CommitEffect, Now, Route, Picked, Snapshots, Fresh
<1>3. spent' = IF op[r] = "recovery" THEN spent \cup {pick[r]} ELSE spent
  BY DEF CommitEffect
<1>4. op[r] = "recovery" => row'.codes = row.codes \ {pick[r]}
  BY <1>2 DEF CommitEffect, Committed, Now, MfaTypeOK, Account
<1> QED BY <1>1, <1>2, <1>3, <1>4, CommitAgrees, CommitReusesNone DEF Sound, Reusable

LEMMA SoundHolds ==
    ASSUME Now, Snapshots, Sound, [Next]_vars, FreshOnly \/ UNCHANGED vars
    PROVE  Sound' /\ \A r \in Requests : Serves(r) => pick[r] \notin spent
<1>1. CASE UNCHANGED vars
  BY <1>1 DEF vars, history, Sound, Serves, Reusable, HoldsSnapshot
<1>2. ASSUME NEW r \in Requests, Handle(r) \/ Crash(r), FreshOnly
      PROVE  Sound' /\ \A q \in Requests : Serves(q) => pick[q] \notin spent
  <2>1. /\ OneMoves(r) /\ pc[r] \notin Ended
        /\ Quits(r) \/ Looks(r) \/ Passes(r) \/ CommitEffect(r) \/ RollsBack(r)
    BY <1>2, HandlerMoves, Kinds
  <2>2. ASSUME RollsBack(r)
        PROVE  row' = snap[r] /\ r \notin overtaken /\ ~Reusable(snap[r]) /\ UNCHANGED spent
    <3>1. Acts(r) /\ pc[r] = "rollback" /\ UNCHANGED spent
      BY <2>2 DEF RollsBack, Acts
    <3>2. r \notin overtaken
      BY <1>2, <3>1 DEF FreshOnly, UndoesOutdated
    <3> QED BY <2>2, <3>1, <3>2, RollbackIsExact DEF Sound, HoldsSnapshot
  <2>3. Agree(row') /\ ~Reusable(row)'
    <3>1. CASE CommitEffect(r)
      BY <1>2, <3>1, FreshCommits
    <3>2. CASE RollsBack(r)
      BY <2>2, <3>2 DEF Sound, Reusable
    <3>3. CASE Quits(r) \/ Looks(r) \/ Passes(r)
      BY <3>3 DEF Quits, Looks, Passes, Sound, Reusable
    <3> QED BY <2>1, <3>1, <3>2, <3>3
  <2>4. snap'[r] \in {snap[r], Unread, row}
    BY <2>1, CommitLeads DEF Quits, Looks, Passes, RollsBack
  <2>5. \A q \in Requests : Agree(snap'[q])
    <3>1. Agree(Unread)
      BY DEF Agree, Unread, HasFactor, HasPrimary
    <3> QED BY <2>1, <2>4, <3>1 DEF OneMoves, Elsewhere, Sound
  <2>6. ASSUME NEW q \in Requests, q \notin overtaken', HoldsSnapshot(q)'
        PROVE  ~Reusable(snap[q])'
    <3>1. CASE q # r
      <4>1. HoldsSnapshot(q) /\ snap'[q] = snap[q]
        BY <2>1, <2>6, <3>1 DEF OneMoves, Elsewhere, HoldsSnapshot
      <4>2. q \notin overtaken
        BY <2>1, <2>6, <3>1 DEF Quits, Looks, Passes, CommitEffect, RollsBack, Outdates
      <4>3. row' # row => q \in overtaken'
        BY <2>1, <3>1, <4>1, CommitLeads DEF Quits, Looks, Passes, RollsBack, Outdates, Outdated
      <4>4. UNCHANGED spent
        BY <1>2, <2>1, <2>6, <4>3, FreshCommits DEF Quits, Looks, Passes, RollsBack
      <4> QED BY <4>1, <4>2, <4>4 DEF Sound, Reusable
    <3>2. CASE q = r
      <4>1. CASE Looks(r)
        BY <3>2, <4>1 DEF Looks, Sound, Reusable
      <4>2. CASE Passes(r)
        BY <2>6, <3>2, <4>2 DEF Passes, Sound, Reusable, HoldsSnapshot
      <4>3. CASE CommitEffect(r)
        <5>1. pc'[r] = "enforce" /\ pc[r] = "commit" /\ op[r] # "recovery"
          BY <2>6, <3>2, <4>3, CommitLeads, Names
             DEF HoldsSnapshot, CommitEffect, CommitGoes, Goto, Revising, Now, MfaTypeOK
        <5>2. snap'[r] \in {snap[r], Unread} /\ UNCHANGED spent /\ r \notin overtaken
          BY <1>2, <2>6, <3>2, <4>3, <5>1, CommitLeads, FreshCommits
             DEF CommitEffect, CommitGoes, Goto, Now, MfaTypeOK
        <5> QED BY <3>2, <5>1, <5>2 DEF Sound, Reusable, HoldsSnapshot, Unread
      <4>4. CASE Quits(r) \/ RollsBack(r)
        BY <2>6, <3>2, <4>4 DEF Quits, RollsBack, HoldsSnapshot
      <4> QED BY <2>1, <4>1, <4>2, <4>3, <4>4
    <3> QED BY <3>1, <3>2
  <2>7. ASSUME NEW q \in Requests, Serves(q) PROVE pick[q] \notin spent
    <3>1. q = r /\ CommitEffect(r)
      BY <2>1, <2>7 DEF Serves, OneMoves, Elsewhere, Quits, Looks, Passes, RollsBack
    <3> QED BY <1>2, <2>7, <3>1, FreshCommits DEF Serves
  <2> QED BY <2>3, <2>5, <2>6, <2>7 DEF Sound
<1> QED BY <1>1, <1>2 DEF Next, Idle

LEMMA SoundAlways ==
    Spec /\ WritesFreshOnly =>
        /\ []Sound
        /\ [][\A r \in Requests : Serves(r) => pick[r] \notin spent]_vars
<1>1. Init => Sound
  BY DEF Init, Sound, Reusable, Agree, Unread, HasFactor, HasPrimary
<1>2. Now /\ Snapshots /\ Sound /\ [Next]_vars /\ [FreshOnly]_vars => Sound'
  BY SoundHolds
<1>3. Now /\ Snapshots /\ Sound /\ [Next]_vars /\ [FreshOnly]_vars
        => [\A r \in Requests : Serves(r) => pick[r] \notin spent]_vars
  BY SoundHolds
<1> QED BY <1>1, <1>2, <1>3, SnapshotsAlways, PTL DEF Spec, WritesFreshOnly, FreshOnly

(* The flag and the recovery codes agree with the factors at every moment   *)
(* as long as no outdated snapshot is written or rolled back: the gap       *)
(* between findUnique and $transaction is the only cause of disagreement.   *)
THEOREM FreshAccountsAgree == Spec /\ WritesFreshOnly => []Agree(row)
<1>1. Sound => Agree(row)
  BY DEF Sound
<1> QED BY <1>1, SoundAlways, PTL

(* Under the same condition a recovery code that was accepted is never in   *)
(* the list again and never accepted again.                                 *)
THEOREM FreshCodesServeOnce ==
    Spec /\ WritesFreshOnly =>
        /\ []~Reusable(row)
        /\ [][\A r \in Requests :
                 pc[r] = "commit" /\ op[r] = "recovery" /\ pc'[r] = "upgrade"
                    => pick[r] \notin spent]_vars
<1>1. Sound => ~Reusable(row)
  BY DEF Sound
<1> QED BY <1>1, SoundAlways, PTL DEF Serves

=============================================================================
