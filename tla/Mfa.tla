-------------------------------- MODULE Mfa --------------------------------
(***************************************************************************)
(* The second factors of one account: the mfa columns of its row and its   *)
(* WebAuthnCredential rows, which auth.service.ts reads in one statement   *)
(* and writes back in another, and the pending TOTP setup and WebAuthn     *)
(* challenges that mfa.service.ts and webauthn.service.ts keep in Redis    *)
(* for a session.                                                          *)
(*                                                                         *)
(* Every HTTP request is a process, and a step is one statement, one       *)
(* transaction, one Redis command or one call of the sessions service.     *)
(* What is known to the client is chosen when it matters: a code or a      *)
(* credential of the account, an answer to a challenge it was given.       *)
(* Throttling is left to Throttle, cryptography to the libraries.  Of a    *)
(* session only the pending login is kept: module Sessions says what an    *)
(* upgrade or a revocation does to it, here either may succeed or fail.    *)
(* Likewise a key in Redis may have expired whenever it is looked at.      *)
(***************************************************************************)
EXTENDS Integers

CONSTANTS
    Requests,    \* a request, and the secret, challenge or codes it makes
    Sessions,    \* the sessions of the account
    Seeded,      \* passkeys the account may have at first
    Old,         \* the TOTP secret and the batch of codes it may have
    CodesPerBatch,
    Absent,      \* no value
    Nobody,      \* no session of this account: an administrator's
    Offered,     \* bound: the operations that come in
    Faults       \* the failures the environment may produce

Operations == {"setup", "code", "recovery", "regenerate", "disable", "reset",
               "regOptions", "regVerify", "authOptions", "authVerify", "revokeKey"}

(* "crash": the process dies or a store reports a failure before the step.  *)
(* "sessions": the sessions cannot be revoked, or their audit fails.        *)
FaultKinds == {"crash", "sessions"}

ASSUME MfaAssumption ==
    /\ CodesPerBatch \in Nat \ {0}
    /\ Offered \subseteq Operations
    /\ Faults \subseteq FaultKinds
    /\ Nobody \notin Sessions
    /\ Absent \notin Requests /\ Old \notin Requests \cup {Absent}
    /\ Seeded \cap Requests = {}

VARIABLES
    row,            \* the account: the mfa columns and the active credentials
    setup,          \* the pending setup of each session
    regChallenge,   \* the registration challenge of each session
    authChallenge,  \* the authentication challenge of each session
    pending,        \* the sessions whose login waits for a factor
    pc,             \* the next step of each request's handler
    op,             \* what the client asks for
    sess,           \* the session it comes with
    purpose,        \* "login" or "reauth"
    snap,           \* the account as the handler read it
    pick,           \* the code, secret, credential or challenge at stake
    overtaken,      \* history: handlers whose snapshot someone else outdated
    spent,          \* history: the recovery codes that were accepted
    verified        \* history: the requests whose ceremony was verified

redis   == <<setup, regChallenge, authChallenge>>
request == <<op, sess, purpose>>
history == <<overtaken, spent, verified>>
vars == <<row, redis, pending, pc, request, snap, pick, history>>

-----------------------------------------------------------------------------
Credentials == Requests \cup Seeded

Batch(b) == {<<b, i>> : i \in 1 .. CodesPerBatch}

Codes == UNION {Batch(b) : b \in Requests \cup {Old}}

Account == [enabled : BOOLEAN, totp : Requests \cup {Old, Absent},
            codes : SUBSET Codes, keys : SUBSET Credentials]

\* Mutant: the secret is blanked instead of set to null.
MfaDisabledDataBlank(keys) ==
    [enabled |-> FALSE, totp |-> Nobody, codes |-> {}, keys |-> keys]

(* getMfaDisabledData, and the credentials that stay active.                *)
MfaDisabledData(keys) ==
    [enabled |-> FALSE, totp |-> Absent, codes |-> {}, keys |-> keys]

Unread == [enabled |-> FALSE, totp |-> Absent, codes |-> {}, keys |-> {}]

HasPrimary(totp, keys) == totp # Absent \/ keys # {}

HasFactor(account) == HasPrimary(account.totp, account.keys)

(* What the columns say of each other when no handler is in between.        *)
Agree(account) ==
    /\ account.enabled <=> HasFactor(account)
    /\ account.codes # {} => HasFactor(account)

Labels == {"start", "read", "store", "pending", "consume", "commit", "clear",
           "upgrade", "enforce", "rollback", "done", "restored", "failed"}

Ended == {"done", "restored", "failed"}

(* The endpoints marked AllowPendingMfa.                                    *)
AllowPendingMfa == {"code", "recovery", "authOptions", "authVerify"}

(* A snapshot is in use from the read until the handler has no more writes  *)
(* to derive from it.                                                       *)
HoldsSnapshot(r) == pc[r] \in {"pending", "consume", "commit", "enforce", "rollback"}

Init ==
    /\ row \in [enabled : BOOLEAN, totp : {Old, Absent},
                codes : {{}, Batch(Old)}, keys : SUBSET Seeded]
    /\ Agree(row)
    /\ setup = [s \in Sessions |-> Absent]
    /\ regChallenge = [s \in Sessions |-> Absent]
    /\ authChallenge = [s \in Sessions |-> Absent]
    /\ pending \in SUBSET Sessions
    /\ ~HasFactor(row) => pending = {}
    /\ pc = [r \in Requests |-> "start"]
    /\ op = [r \in Requests |-> "setup"]
    /\ sess = [r \in Requests |-> Nobody]
    /\ purpose = [r \in Requests |-> "reauth"]
    /\ snap = [r \in Requests |-> Unread]
    /\ pick = [r \in Requests |-> Absent]
    /\ overtaken = {}
    /\ spent = {}
    /\ verified = {}

-----------------------------------------------------------------------------
(* Moves of a handler.                                                      *)

Goto(r, label) == pc' = [pc EXCEPT ![r] = label]

Move(r, label) == Goto(r, label) /\ UNCHANGED <<request, snap, overtaken>>

Remembered(r) == op[r] \in {"regOptions", "authOptions"} \/ r \in verified

(* The handler ends and what it held is gone; the history of a ceremony is  *)
(* kept.                                                                    *)
Forget(r) ==
    /\ snap' = [snap EXCEPT ![r] = Unread]
    /\ IF Remembered(r) THEN UNCHANGED <<request, pick>>
       ELSE /\ op' = [op EXCEPT ![r] = "setup"]
            /\ sess' = [sess EXCEPT ![r] = Nobody]
            /\ purpose' = [purpose EXCEPT ![r] = "reauth"]
            /\ pick' = [pick EXCEPT ![r] = Absent]

End(r, label) ==
    /\ Goto(r, label)
    /\ Forget(r)
    /\ overtaken' = overtaken \ {r}

Pick(r, value) == pick' = [pick EXCEPT ![r] = value]

(* r writes the account: the snapshots of the others are outdated.          *)
Outdated(r) == {q \in Requests \ {r} : HoldsSnapshot(q)}

(* A request comes in with a session, or an administrator resets the        *)
(* account from a session of another one.  An answer to a ceremony names    *)
(* the challenge it was made for.                                           *)
Challenges(kind) == {q \in Requests : op[q] = kind /\ pc[q] = "done"}

Arrive(r) ==
    /\ pc[r] = "start"
    /\ \E o \in Offered, s \in Sessions \cup {Nobody} :
          /\ s = Nobody => o = "reset"
          /\ s \in pending => o \in AllowPendingMfa
          /\ op' = [op EXCEPT ![r] = o]
          /\ sess' = [sess EXCEPT ![r] = s]
          /\ purpose' = [purpose EXCEPT ![r] = IF s \in pending THEN "login" ELSE "reauth"]
          /\ \/ o = "regVerify" /\ \E q \in Challenges("regOptions") : Pick(r, q)
             \/ o = "authVerify" /\ \E q \in Challenges("authOptions") : Pick(r, q)
             \/ o \notin {"regVerify", "authVerify"} /\ UNCHANGED pick
    /\ Goto(r, "read")
    /\ UNCHANGED <<row, redis, pending, snap, history>>

-----------------------------------------------------------------------------
(* findUnique of the account: an operation is refused or goes on with what  *)
(* it read.                                                                 *)

Reads(r, operation) == pc[r] = "read" /\ op[r] = operation

Refuse(r) == End(r, "failed")

GoOn(r, label) ==
    /\ Goto(r, label)
    /\ snap' = [snap EXCEPT ![r] = row]
    /\ UNCHANGED <<request, overtaken>>

Reading == UNCHANGED <<row, redis, pending, spent, verified>>

SetupMfa(r) ==
    /\ Reads(r, "setup")
    /\ IF row.totp # Absent THEN Refuse(r) ELSE GoOn(r, "store") /\ UNCHANGED pick
    /\ Reading

(* verifyMfa with a recovery code: the code is in the list or not.          *)
VerifyRecovery(r) ==
    /\ Reads(r, "recovery")
    /\ \/ Refuse(r)
       \/ /\ HasFactor(row)
          /\ \E c \in row.codes : Pick(r, c)
          /\ GoOn(r, "commit")
    /\ Reading

(* verifyMfa with a TOTP code, of an account that has TOTP: the code is     *)
(* right or not.                                                            *)
VerifyTotp(r) ==
    /\ Reads(r, "code") /\ row.enabled /\ row.totp # Absent
    /\ Refuse(r) \/ (GoOn(r, "upgrade") /\ UNCHANGED pick)
    /\ Reading

(* verifyMfa with a TOTP code, of an account that has none.                 *)
VerifyEnrollment(r) ==
    /\ Reads(r, "code") /\ ~(row.enabled /\ row.totp # Absent)
    /\ IF row.enabled /\ HasFactor(row)
       THEN Refuse(r)
       ELSE GoOn(r, "pending") /\ UNCHANGED pick
    /\ Reading

RegenerateRecoveryCodes(r) ==
    /\ Reads(r, "regenerate")
    /\ IF HasFactor(row) THEN GoOn(r, "commit") /\ UNCHANGED pick ELSE Refuse(r)
    /\ Reading

DisableMfa(r) ==
    /\ Reads(r, "disable")
    /\ IF row.enabled THEN GoOn(r, "commit") /\ UNCHANGED pick ELSE Refuse(r)
    /\ Reading

(* The caller has the role or not.                                          *)
AdminResetMfa(r) ==
    /\ Reads(r, "reset")
    /\ Refuse(r) \/ (GoOn(r, "commit") /\ UNCHANGED pick)
    /\ Reading

BeginWebAuthnRegistration(r) ==
    /\ Reads(r, "regOptions")
    /\ GoOn(r, "store") /\ UNCHANGED pick
    /\ Reading

FinishWebAuthnRegistration(r) ==
    /\ Reads(r, "regVerify")
    /\ GoOn(r, "consume") /\ UNCHANGED pick
    /\ Reading

BeginWebAuthnAuthentication(r) ==
    /\ Reads(r, "authOptions")
    /\ IF row.keys # {} THEN GoOn(r, "store") /\ UNCHANGED pick ELSE Refuse(r)
    /\ Reading

(* The credential of the answer is among the active ones or not.            *)
FinishWebAuthnAuthentication(r) ==
    /\ Reads(r, "authVerify")
    /\ Refuse(r) \/ (row.keys # {} /\ GoOn(r, "consume") /\ UNCHANGED pick)
    /\ Reading

(* The credential to revoke is among the active ones or not.                *)
RevokeWebAuthnCredential(r) ==
    /\ Reads(r, "revokeKey")
    /\ \/ Refuse(r)
       \/ /\ \E k \in row.keys : Pick(r, k)
          /\ GoOn(r, "commit")
    /\ Reading

Read(r) ==
    \/ SetupMfa(r) \/ VerifyRecovery(r) \/ VerifyTotp(r) \/ VerifyEnrollment(r)
    \/ RegenerateRecoveryCodes(r) \/ DisableMfa(r) \/ AdminResetMfa(r)
    \/ BeginWebAuthnRegistration(r) \/ FinishWebAuthnRegistration(r)
    \/ BeginWebAuthnAuthentication(r) \/ FinishWebAuthnAuthentication(r)
    \/ RevokeWebAuthnCredential(r)

-----------------------------------------------------------------------------
(* Redis.  A SET replaces what the session had.                             *)

Stores(r, operation) == pc[r] = "store" /\ op[r] = operation

CreateSetup(r) ==
    /\ Stores(r, "setup")
    /\ setup' = [setup EXCEPT ![sess[r]] = r]
    /\ End(r, "done")
    /\ UNCHANGED <<row, regChallenge, authChallenge, pending, spent, verified>>

StoreRegistrationChallenge(r) ==
    /\ Stores(r, "regOptions")
    /\ regChallenge' = [regChallenge EXCEPT ![sess[r]] = r]
    /\ End(r, "done")
    /\ UNCHANGED <<row, setup, authChallenge, pending, spent, verified>>

StoreAuthenticationChallenge(r) ==
    /\ Stores(r, "authOptions")
    /\ authChallenge' = [authChallenge EXCEPT ![sess[r]] = r]
    /\ End(r, "done")
    /\ UNCHANGED <<row, setup, regChallenge, pending, spent, verified>>

(* The secret is gone, or the code is right or not.                         *)
VerifyPendingSetup(r) ==
    /\ pc[r] = "pending"
    /\ \/ Refuse(r)
       \/ /\ setup[sess[r]] # Absent
          /\ Pick(r, setup[sess[r]])
          /\ Move(r, "commit")
    /\ UNCHANGED <<row, redis, pending, spent, verified>>

ClearPendingSetup(r) ==
    /\ pc[r] = "clear"
    /\ setup' = [setup EXCEPT ![sess[r]] = Absent]
    /\ Move(r, "upgrade")
    /\ UNCHANGED <<row, regChallenge, authChallenge, pending, pick, spent, verified>>

\* Mutant: the challenge is read and not deleted.
TakenPeek(challenges, s) == challenges

(* consumeChallengeScript: GET and DEL in one script.                       *)
Taken(challenges, s) == [challenges EXCEPT ![s] = Absent]

(* The answer matches the stored challenge and is verified, or not.         *)
Verifies(r, accepted) ==
    \/ Refuse(r) /\ UNCHANGED verified
    \/ /\ accepted
       /\ Move(r, "commit")
       /\ verified' = verified \cup {r}
       /\ UNCHANGED pick

FinishRegistration(r) ==
    /\ pc[r] = "consume" /\ op[r] = "regVerify"
    /\ regChallenge' = Taken(regChallenge, sess[r])
    /\ Verifies(r, regChallenge[sess[r]] = pick[r] /\ pick[r] \notin snap[r].keys)
    /\ UNCHANGED <<row, setup, authChallenge, pending, spent>>

FinishAuthentication(r) ==
    /\ pc[r] = "consume" /\ op[r] = "authVerify"
    /\ authChallenge' = Taken(authChallenge, sess[r])
    /\ Verifies(r, /\ authChallenge[sess[r]] = pick[r]
                   /\ purpose[pick[r]] = purpose[r])
    /\ UNCHANGED <<row, setup, regChallenge, pending, spent>>

-----------------------------------------------------------------------------
(* The transaction of each operation.                                       *)

Commits(r, operation) == pc[r] = "commit" /\ op[r] = operation

(* The account is written, and the handler is done with what it read or has *)
(* more to derive from it.                                                  *)
Outdates(r) == overtaken' = (overtaken \cup Outdated(r)) \ {r}

WriteAndEnd(r, account) ==
    /\ row' = account
    /\ Goto(r, "done") /\ Forget(r)
    /\ Outdates(r)

WriteAndGo(r, account, label) ==
    /\ row' = account
    /\ Goto(r, label)
    /\ Outdates(r)
    /\ UNCHANGED <<request, snap, pick>>

(* The factors are gone and the sessions have to follow.                    *)
WriteAndEnforce(r, account) ==
    /\ row' = account
    /\ Goto(r, "enforce")
    /\ overtaken' = overtaken \cup Outdated(r)
    /\ UNCHANGED <<request, snap, pick>>

Committing == UNCHANGED <<redis, pending, verified>>

Enroll(r) ==
    /\ Commits(r, "code")
    /\ WriteAndGo(r, [row EXCEPT !.enabled = TRUE, !.totp = pick[r], !.codes = Batch(r)],
                  "clear")
    /\ Committing /\ UNCHANGED spent

\* Mutant: the code is compared and left in the list.
RemainingHashesAll(codes, c) == codes

RemainingHashes(codes, c) == codes \ {c}

(* consumeRecoveryCode worked on the list that was read.                    *)
ConsumeRecoveryCode(r) ==
    /\ Commits(r, "recovery")
    /\ WriteAndGo(r, [row EXCEPT !.codes = RemainingHashes(snap[r].codes, pick[r])],
                  "upgrade")
    /\ spent' = spent \cup {pick[r]}
    /\ Committing

ReplaceRecoveryCodes(r) ==
    /\ Commits(r, "regenerate")
    /\ WriteAndEnd(r, [row EXCEPT !.codes = Batch(r)])
    /\ Committing /\ UNCHANGED spent

CommitDisable(r) ==
    /\ Commits(r, "disable")
    /\ WriteAndEnforce(r, MfaDisabledData({}))
    /\ Committing /\ UNCHANGED spent

CommitReset(r) ==
    /\ Commits(r, "reset")
    /\ WriteAndEnforce(r, MfaDisabledData({}))
    /\ Committing /\ UNCHANGED spent

(* The credential is created and, if the account that was read had none,    *)
(* recovery codes.                                                          *)
Register(r) ==
    /\ Commits(r, "regVerify")
    /\ WriteAndEnd(r, [row EXCEPT !.enabled = TRUE, !.keys = @ \cup {pick[r]},
                          !.codes = IF snap[r].codes = {} THEN Batch(r) ELSE @])
    /\ Committing /\ UNCHANGED spent

(* The counter of the credential, which is left out here.                   *)
RecordUse(r) ==
    /\ Commits(r, "authVerify")
    /\ Move(r, "upgrade")
    /\ Committing /\ UNCHANGED <<row, pick, spent>>

\* Mutant: the revoked credential still counts.
FactorRemainsOffByOne(account, k) == HasFactor(account)

(* hasRemainingPrimaryFactor, on the snapshot.                              *)
FactorRemains(account, k) == HasPrimary(account.totp, account.keys \ {k})

CommitRevocation(r) ==
    /\ Commits(r, "revokeKey")
    /\ LET keys == row.keys \ {pick[r]} IN
       IF FactorRemains(snap[r], pick[r])
       THEN WriteAndEnd(r, [row EXCEPT !.keys = keys])
       ELSE WriteAndEnforce(r, MfaDisabledData(keys))
    /\ Committing /\ UNCHANGED spent

Commit(r) ==
    \/ Enroll(r) \/ ConsumeRecoveryCode(r) \/ ReplaceRecoveryCodes(r)
    \/ CommitDisable(r) \/ CommitReset(r) \/ Register(r) \/ RecordUse(r)
    \/ CommitRevocation(r)

-----------------------------------------------------------------------------
(* The sessions.                                                            *)

(* completeMfaChallenge or updateMfaLevel, and markReauthenticated, which   *)
(* find the session valid or not.                                           *)
Upgrade(r) ==
    /\ pc[r] = "upgrade"
    /\ \/ pending' = pending \ {sess[r]} /\ End(r, "done")
       \/ UNCHANGED pending /\ End(r, "failed")
    /\ UNCHANGED <<row, redis, spent, verified>>

(* revokeAllSessions except the caller's, whose level is then lowered; for  *)
(* an administrator's reset of another account there is no exception.       *)
Enforce(r) ==
    /\ pc[r] = "enforce"
    /\ End(r, "done")
    /\ UNCHANGED <<row, redis, pending, spent, verified>>

(* The sessions cannot be revoked, or the caller's is no longer valid.      *)
EnforceFails(r) ==
    /\ pc[r] = "enforce"
    /\ "sessions" \in Faults \/ sess[r] # Nobody
    /\ Move(r, "rollback")
    /\ UNCHANGED <<row, redis, pending, pick, spent, verified>>

\* Mutant: the columns come back without the credentials.
RolledBackColumns(r) == [snap[r] EXCEPT !.keys = row.keys]

(* The columns of the snapshot, and its credentials active again.           *)
RolledBack(r) == [snap[r] EXCEPT !.keys = @ \cup row.keys]

RollbackMfaState(r) ==
    /\ pc[r] = "rollback"
    /\ row' = RolledBack(r)
    /\ Goto(r, "restored") /\ Forget(r)
    /\ Outdates(r)
    /\ UNCHANGED <<redis, pending, spent, verified>>

-----------------------------------------------------------------------------
Crash(r) ==
    /\ "crash" \in Faults
    /\ pc[r] \notin Ended \cup {"start"}
    /\ End(r, "failed")
    /\ UNCHANGED <<row, redis, pending, spent, verified>>

-----------------------------------------------------------------------------
Handle(r) ==
    \/ Arrive(r) \/ Read(r) \/ Commit(r)
    \/ CreateSetup(r) \/ StoreRegistrationChallenge(r) \/ StoreAuthenticationChallenge(r)
    \/ VerifyPendingSetup(r) \/ ClearPendingSetup(r)
    \/ FinishRegistration(r) \/ FinishAuthentication(r)
    \/ Upgrade(r) \/ Enforce(r) \/ EnforceFails(r) \/ RollbackMfaState(r)

(* No request is at work and none can come in any more, or none has to.     *)
Idle == (\A r \in Requests : pc[r] \in Ended \cup {"start"}) /\ UNCHANGED vars

Next ==
    \/ \E r \in Requests : Handle(r) \/ Crash(r)
    \/ Idle

Spec == Init /\ [][Next]_vars

-----------------------------------------------------------------------------
(* Properties.                                                              *)

(* Every variable has its type: the account, what Redis keeps per session   *)
(* and what the handlers hold.                                              *)
MfaTypeOK ==
    /\ row \in Account
    /\ setup \in [Sessions -> Requests \cup {Absent}]
    /\ regChallenge \in [Sessions -> Requests \cup {Absent}]
    /\ authChallenge \in [Sessions -> Requests \cup {Absent}]
    /\ pending \subseteq Sessions
    /\ pc \in [Requests -> Labels]
    /\ op \in [Requests -> Operations]
    /\ sess \in [Requests -> Sessions \cup {Nobody}]
    /\ purpose \in [Requests -> {"login", "reauth"}]
    /\ snap \in [Requests -> Account]
    /\ pick \in [Requests -> Codes \cup Credentials \cup {Old, Absent}]
    /\ overtaken \subseteq Requests /\ verified \subseteq Requests
    /\ spent \subseteq Codes

(* A challenge serves one ceremony: however the answers to it overlap, are  *)
(* repeated or come late, one at most is verified, and only for the session *)
(* and the purpose the challenge was made for (consumeChallengeScript, the  *)
(* challenge keys and the purpose in their payload).                        *)
ChallengeOnce ==
    /\ \A r, q \in verified : op[r] = op[q] /\ pick[r] = pick[q] => r = q
    /\ \A r \in verified :
          /\ sess[pick[r]] = sess[r]
          /\ op[r] = "authVerify" => purpose[pick[r]] = purpose[r]

(* r does the step that is taken.                                           *)
Acts(r) == pc'[r] # pc[r]

(* A handler does an operation, or undoes one, on a snapshot that someone   *)
(* else has outdated.                                                       *)
DoesOutdated(operations) == \E r \in overtaken : Acts(r) /\ op[r] \in operations

UndoesOutdated == \E r \in overtaken : Acts(r) /\ pc[r] = "rollback"

(* A handler restores a snapshot that was wrong when it was taken.          *)
Restores(Wrong(_)) == \E r \in Requests : Acts(r) /\ pc[r] = "rollback" /\ Wrong(snap[r])

Disagrees(account) == ~Agree(account)

(* mfaEnabled says whether there is a primary factor, and recovery codes    *)
(* exist only beside one: no operation, failure or rollback breaks this,    *)
(* except one that consumes or renews codes, revokes a passkey or rolls     *)
(* back on a snapshot that another one outdated (findUnique and             *)
(* $transaction are apart in every operation).                              *)
FactorsAgree ==
    [][\/ Agree(row) => Agree(row')
       \/ DoesOutdated({"recovery", "regenerate", "revokeKey"})
       \/ UndoesOutdated \/ Restores(Disagrees)]_vars

(* What the code would have to ensure for the account to stay in agreement, *)
(* and does not: what is decided on a snapshot is written, or rolled back,  *)
(* only while nobody has outdated it.                                       *)
WritesFreshOnly ==
    [][/\ ~DoesOutdated({"recovery", "regenerate", "revokeKey"})
       /\ ~UndoesOutdated]_vars

Reusable(account) == spent \cap account.codes # {}

(* A recovery code that was accepted is not accepted again and does not     *)
(* come back into the list, except through a verification or a rollback     *)
(* whose snapshot was outdated.                                             *)
CodesServeOnce ==
    [][\/ /\ ~Reusable(row) => ~Reusable(row)'
          /\ \A r \in Requests :
                pc[r] = "commit" /\ op[r] = "recovery" /\ pc'[r] = "upgrade"
                   => pick[r] \notin spent \/ Reusable(row)
       \/ DoesOutdated({"recovery"}) \/ UndoesOutdated \/ Restores(Reusable)]_vars

(* When the sessions cannot be brought in line, the account is as it was    *)
(* before the operation, credentials included, unless another one changed   *)
(* it in between (rollbackMfaState against the transactions it undoes).     *)
RollbackRestores ==
    [][\A r \in Requests \ overtaken :
          pc[r] = "rollback" /\ pc'[r] = "restored" => row' = snap[r]]_vars

=============================================================================
