------------------------------ MODULE Sessions ------------------------------
(***************************************************************************)
(* The sessions of one user in Redis: sessions.service.ts, reached through *)
(* SessionAuthGuard and the endpoints that create, rotate, revoke or       *)
(* upgrade a session.  A session is one key, read and written back whole;  *)
(* user_sessions is a set beside it.                                       *)
(*                                                                         *)
(* Every HTTP request is a process, and a step is one Redis command, one   *)
(* MULTI or one audit write.  The session a request creates is identified  *)
(* by the request.  Time is left out: a key may lapse whenever nobody      *)
(* prevents it, and a handler may find any deadline passed.                *)
(***************************************************************************)

CONSTANTS
    Requests,
    Absent,      \* no value at the key
    Nobody,      \* no session, no request
    Faults       \* the failures the environment may produce

(* "audit": an audit event that fails closed cannot be persisted.  "crash": *)
(* the process dies, or Redis reports a failure, with or without effect.    *)
FaultKinds == {"audit", "crash"}

ASSUME SessionsAssumption ==
    /\ Nobody \notin Requests
    /\ Faults \subseteq FaultKinds

VARIABLES
    store,      \* the session keys
    index,      \* user_sessions
    trail,      \* the sessions with a session.revoked audit event
    pc,         \* the next step of each request's handler
    stage,      \* the service method the handler is in
    endpoint,   \* what the client asks for
    cookie,     \* the session the request came with
    at,         \* the session the current method works on
    held,       \* the session value the handler read
    todo,       \* the ids a walk over user_sessions has yet to visit
    stale,      \* the ids a listing found without a session
    due,        \* history: the sessions a walk was called to revoke
    known,      \* history: sessions some client was given
    lapsed,     \* history: sessions whose time was over
    asked,      \* history: logins that asked for a second factor
    proven,     \* history: sessions on which a second factor was verified
    origin      \* history: the login each session descends from

walk    == <<todo, stale, due>>
control == <<pc, stage, endpoint, cookie, at, held, walk>>
redis   == <<store, index>>
history == <<known, lapsed, asked, proven, origin>>
vars    == <<redis, trail, control, history>>

-----------------------------------------------------------------------------
Session == [level : {"none", "factor"}, pending : BOOLEAN, reauth : BOOLEAN]

ASSUME AbsentAssumption == Absent \notin Session

NewSession(needsMfa) == [level |-> "none", pending |-> needsMfa, reauth |-> FALSE]

Endpoints == {"login", "me", "list", "logout", "revokeOne", "revokeAll",
              "refresh", "verify", "reauthenticate", "disable"}

\* The endpoints marked AllowPendingMfa.
AllowPendingMfa == {"logout", "verify"}

\* The methods that begin with validateSession.
Validating == {"guard", "complete", "level", "reauth", "rotate", "relax"}

Stages == Validating \cup {"create", "revoke", "listing"}

Labels == {"start", "get", "touch", "drop", "write", "persist", "index", "record",
           "copy", "unmake", "list", "next", "find", "delete", "recordRevoked",
           "restore", "reindex", "members", "look", "done", "refused", "failed"}

Ended == {"done", "refused", "failed"}

Init ==
    /\ store = [s \in Requests |-> Absent]
    /\ index = {}
    /\ trail = {}
    /\ pc = [r \in Requests |-> "start"]
    /\ stage = [r \in Requests |-> "guard"]
    /\ endpoint = [r \in Requests |-> "me"]
    /\ cookie = [r \in Requests |-> Nobody]
    /\ at = [r \in Requests |-> Nobody]
    /\ held = [r \in Requests |-> Absent]
    /\ todo = [r \in Requests |-> {}]
    /\ stale = [r \in Requests |-> {}]
    /\ due = [r \in Requests |-> {}]
    /\ known = {}
    /\ lapsed = {}
    /\ asked = {}
    /\ proven = {}
    /\ origin = [s \in Requests |-> Nobody]

-----------------------------------------------------------------------------
(* Moves of a handler.                                                      *)

Goto(r, label) == pc' = [pc EXCEPT ![r] = label]

Enter(r, method, label, s) ==
    /\ Goto(r, label)
    /\ stage' = [stage EXCEPT ![r] = method]
    /\ at' = [at EXCEPT ![r] = s]

Stay(r, label) == Goto(r, label) /\ UNCHANGED <<stage, at>>

Hold(r, value) == held' = [held EXCEPT ![r] = value]

(* The handler ends; what it held is gone.                                  *)
End(r, label) ==
    /\ Stay(r, label)
    /\ Hold(r, Absent)

(* The answer carries the cookie of a session.                              *)
EndWith(r, s) == End(r, "done") /\ known' = known \cup {s}

(* validateSession returned null: a login answers all the same, the others  *)
(* are refused.                                                             *)
Invalid(r) ==
    \/ endpoint[r] = "login" /\ EndWith(r, at[r])
    \/ endpoint[r] # "login" /\ End(r, "refused") /\ UNCHANGED known

Request == UNCHANGED <<endpoint, cookie>>

-----------------------------------------------------------------------------
(* A request comes in: a login, or one that presents a session.             *)
Login(r) ==
    /\ pc[r] = "start"
    /\ endpoint' = [endpoint EXCEPT ![r] = "login"]
    /\ Enter(r, "create", "persist", r)
    /\ \E needsMfa \in BOOLEAN :
          /\ Hold(r, NewSession(needsMfa))
          /\ asked' = IF needsMfa THEN asked \cup {r} ELSE asked
    /\ UNCHANGED <<redis, trail, cookie, walk, known, lapsed, proven, origin>>

Arrive(r) ==
    /\ pc[r] = "start"
    /\ \E e \in Endpoints \ {"login"}, s \in known :
          /\ endpoint' = [endpoint EXCEPT ![r] = e]
          /\ cookie' = [cookie EXCEPT ![r] = s]
          /\ Enter(r, "guard", "get", s)
    /\ UNCHANGED <<redis, trail, held, walk, history>>

(* What follows a validateSession that returned value.                      *)
GuardPassed(r, value) ==
    \/ /\ value.pending /\ endpoint[r] \notin AllowPendingMfa
       /\ End(r, "refused")
       /\ UNCHANGED proven
    \/ /\ ~value.pending \/ endpoint[r] \in AllowPendingMfa
       /\ \/ endpoint[r] = "me" /\ End(r, "done") /\ UNCHANGED proven
          \/ /\ endpoint[r] = "logout"
             /\ Enter(r, "revoke", "find", cookie[r])
             /\ Hold(r, value) /\ UNCHANGED proven
          \/ /\ endpoint[r] = "revokeOne"
             /\ \E s \in known \cup index : Enter(r, "revoke", "find", s)
             /\ Hold(r, value) /\ UNCHANGED proven
          \/ /\ endpoint[r] = "revokeAll"
             /\ Enter(r, "revoke", "list", cookie[r])
             /\ Hold(r, value) /\ UNCHANGED proven
          \/ /\ endpoint[r] = "refresh"
             /\ Enter(r, "rotate", "get", cookie[r])
             /\ Hold(r, value) /\ UNCHANGED proven
          \/ /\ endpoint[r] \in {"verify", "reauthenticate", "disable"}
             /\ End(r, "refused") /\ UNCHANGED proven
          \/ /\ endpoint[r] = "disable" /\ value.reauth
             /\ Enter(r, "revoke", "list", cookie[r])
             /\ Hold(r, value) /\ UNCHANGED proven
          \/ /\ endpoint[r] = "list"
             /\ Enter(r, "listing", "members", cookie[r])
             /\ Hold(r, value) /\ UNCHANGED proven
          \/ /\ endpoint[r] = "verify"
             /\ Enter(r, IF value.pending THEN "complete" ELSE "level", "get", cookie[r])
             /\ Hold(r, value)
             /\ proven' = proven \cup {cookie[r]}
          \/ /\ endpoint[r] = "reauthenticate"
             /\ Enter(r, "reauth", "get", cookie[r])
             /\ Hold(r, value) /\ UNCHANGED proven

Validated(r, value) ==
    CASE stage[r] = "guard"  -> GuardPassed(r, value)
      [] stage[r] = "rotate" -> /\ Enter(r, "create", "persist", r)
                                /\ Hold(r, value) /\ UNCHANGED proven
      [] OTHER               -> /\ Stay(r, "write")
                                /\ Hold(r, value) /\ UNCHANGED proven

\* Mutant: a method trusts the session the guard attached to the request.
GetTrusting(r) ==
    /\ pc[r] = "get"
    /\ LET value == IF held[r] = Absent THEN store[at[r]] ELSE held[r] IN
       \/ value = Absent /\ Invalid(r) /\ UNCHANGED proven
       \/ value # Absent /\ Validated(r, value) /\ UNCHANGED known
    /\ Request
    /\ UNCHANGED <<redis, trail, walk, lapsed, asked, origin>>

(* validateSession: one GET; a session that was not touched for a while is  *)
(* then written back, one whose time is over is deleted.                    *)
Get(r) ==
    /\ pc[r] = "get"
    /\ \/ store[at[r]] = Absent /\ Invalid(r) /\ UNCHANGED proven
       \/ /\ store[at[r]] # Absent
          /\ \/ Validated(r, store[at[r]])
             \/ /\ \E label \in {"touch", "drop"} : Stay(r, label)
                /\ Hold(r, store[at[r]]) /\ UNCHANGED proven
          /\ UNCHANGED known
    /\ Request
    /\ UNCHANGED <<redis, trail, walk, lapsed, asked, origin>>

Touch(r) ==
    /\ pc[r] = "touch"
    /\ store' = [store EXCEPT ![at[r]] = held[r]]
    /\ Validated(r, held[r])
    /\ Request
    /\ UNCHANGED <<index, trail, walk, known, lapsed, asked, origin>>

(* deleteSession: DEL and SREM in one MULTI.                                *)
Remove(s) ==
    /\ store' = [store EXCEPT ![s] = Absent]
    /\ index' = index \ {s}

Drop(r) ==
    /\ pc[r] = "drop"
    /\ Remove(at[r])
    /\ lapsed' = lapsed \cup {at[r]}
    /\ Invalid(r)
    /\ Request
    /\ UNCHANGED <<trail, walk, asked, proven, origin>>

(* completeMfaChallenge, updateMfaLevel and markReauthenticated.            *)
Upgraded(method, value) ==
    CASE method = "complete" -> [value EXCEPT !.level = "factor", !.pending = FALSE]
      [] method = "level"    -> [value EXCEPT !.level = "factor"]
      [] method = "relax"    -> [value EXCEPT !.level = "none", !.pending = FALSE]
      [] method = "reauth"   -> [value EXCEPT !.reauth = TRUE]

Write(r) ==
    /\ pc[r] = "write"
    /\ store' = [store EXCEPT ![at[r]] = Upgraded(stage[r], held[r])]
    /\ \/ /\ stage[r] \in {"complete", "level"}
          /\ Enter(r, "reauth", "get", at[r])
          /\ UNCHANGED <<held, known>>
       \/ stage[r] \in {"reauth", "relax"} /\ EndWith(r, at[r])
       \/ /\ stage[r] = "reauth" /\ endpoint[r] = "verify"
          /\ "audit" \in Faults
          /\ End(r, "refused") /\ UNCHANGED known
    /\ Request
    /\ UNCHANGED <<index, trail, walk, lapsed, asked, proven, origin>>

-----------------------------------------------------------------------------
(* createSession, for a login and for a rotation.                           *)

\* Mutant: a new session never asks for a second factor.
CreatedFresh(r) == NewSession(FALSE)

Created(r) == [held[r] EXCEPT !.reauth = FALSE]

Persist(r) ==
    /\ pc[r] = "persist"
    /\ store' = [store EXCEPT ![r] = Created(r)]
    /\ origin' = [origin EXCEPT ![r] = IF endpoint[r] = "login" THEN r
                                       ELSE origin[cookie[r]]]
    /\ Stay(r, "index")
    /\ Request
    /\ UNCHANGED <<index, trail, held, walk, known, lapsed, asked, proven>>

\* Mutant: the index gets the session the request came with, not the new one.
AddToIndexCookie(r) ==
    /\ pc[r] = "index"
    /\ index' = index \cup {cookie[r]}
    /\ Stay(r, "record")
    /\ Request
    /\ UNCHANGED <<store, trail, held, walk, history>>

AddToIndex(r) ==
    /\ pc[r] = "index"
    /\ index' = index \cup {r}
    /\ Stay(r, "record")
    /\ Request
    /\ UNCHANGED <<store, trail, held, walk, history>>

RecordCreated(r) ==
    /\ pc[r] = "record"
    /\ \/ /\ endpoint[r] = "login" /\ held[r].pending
          /\ EndWith(r, r)
       \/ /\ endpoint[r] = "login" /\ ~held[r].pending
          /\ Enter(r, "reauth", "get", r)
          /\ UNCHANGED <<held, known>>
       \/ /\ endpoint[r] = "refresh"
          /\ IF held[r].reauth THEN Stay(r, "copy")
                               ELSE Enter(r, "revoke", "find", cookie[r])
          /\ UNCHANGED <<held, known>>
    /\ Request
    /\ UNCHANGED <<redis, trail, walk, lapsed, asked, proven, origin>>

RecordCreatedFails(r) ==
    /\ "audit" \in Faults
    /\ pc[r] = "record"
    /\ Stay(r, "unmake")
    /\ Request
    /\ UNCHANGED <<redis, trail, held, walk, history>>

CopyReauth(r) ==
    /\ pc[r] = "copy"
    /\ store' = [store EXCEPT ![r] = held[r]]
    /\ Enter(r, "revoke", "find", cookie[r])
    /\ Request
    /\ UNCHANGED <<index, trail, held, walk, history>>

(* The new session is taken back: its audit event or the revocation of the  *)
(* session it replaces failed.                                              *)
Unmake(r) ==
    /\ pc[r] = "unmake"
    /\ Remove(r)
    /\ End(r, "failed")
    /\ Request
    /\ UNCHANGED <<trail, walk, history>>

-----------------------------------------------------------------------------
(* revokeSession, alone, in revokeAllSessions or in rotateSession.          *)

(* exceptSessionId: disabling MFA spares the session it was asked on.       *)
Spared(r) == IF endpoint[r] = "disable" THEN {cookie[r]} ELSE {}

ListSessions(r) ==
    /\ pc[r] = "list"
    /\ todo' = [todo EXCEPT ![r] = index \ Spared(r)]
    /\ due' = [due EXCEPT ![r] = known \ Spared(r)]
    /\ Stay(r, "next")
    /\ Request
    /\ UNCHANGED <<redis, trail, held, stale, history>>

NextSession(r) ==
    /\ pc[r] = "next"
    /\ \/ /\ todo[r] = {}
          /\ \/ endpoint[r] = "revokeAll" /\ End(r, "done")
             \/ /\ endpoint[r] = "disable"
                /\ Enter(r, "relax", "get", cookie[r])
                /\ UNCHANGED held
          /\ UNCHANGED todo
       \/ \E s \in todo[r] :
             /\ todo' = [todo EXCEPT ![r] = @ \ {s}]
             /\ Enter(r, "revoke", "find", s)
             /\ UNCHANGED held
    /\ Request
    /\ UNCHANGED <<redis, trail, stale, due, history>>

\* Mutant: a session that is not found ends the walk.
RevokedEarly(r) ==
    \/ endpoint[r] = "refresh" /\ EndWith(r, r)
    \/ endpoint[r] # "refresh" /\ End(r, "done") /\ UNCHANGED known

(* revokeSession returned; its result is not looked at.                     *)
Revoked(r) ==
    \/ endpoint[r] = "refresh" /\ EndWith(r, r)
    \/ endpoint[r] \in {"revokeAll", "disable"} /\ Stay(r, "next") /\ UNCHANGED <<held, known>>
    \/ endpoint[r] \in {"logout", "revokeOne"} /\ End(r, "done") /\ UNCHANGED known

FindVictim(r) ==
    /\ pc[r] = "find"
    /\ \/ store[at[r]] = Absent /\ Revoked(r)
       \/ /\ store[at[r]] # Absent
          /\ Stay(r, "delete")
          /\ Hold(r, store[at[r]])
          /\ UNCHANGED known
    /\ Request
    /\ UNCHANGED <<redis, trail, walk, lapsed, asked, proven, origin>>

DeleteVictim(r) ==
    /\ pc[r] = "delete"
    /\ Remove(at[r])
    /\ Stay(r, "recordRevoked")
    /\ Request
    /\ UNCHANGED <<trail, held, walk, history>>

RecordRevoked(r) ==
    /\ pc[r] = "recordRevoked"
    /\ trail' = trail \cup {at[r]}
    /\ Revoked(r)
    /\ Request
    /\ UNCHANGED <<redis, walk, lapsed, asked, proven, origin>>

\* Mutant: the failure of the audit is passed on and nothing is restored.
RecordRevokedGivesUp(r) ==
    /\ "audit" \in Faults
    /\ pc[r] = "recordRevoked"
    /\ End(r, "refused")
    /\ Request
    /\ UNCHANGED <<redis, trail, walk, history>>

RecordRevokedFails(r) ==
    /\ "audit" \in Faults
    /\ pc[r] = "recordRevoked"
    /\ Stay(r, "restore")
    /\ Request
    /\ UNCHANGED <<redis, trail, held, walk, history>>

(* The walks at work are no longer due to revoke what is put back.          *)
PutBack(s) == due' = [r \in Requests |-> due[r] \ {s}]

Restore(r) ==
    /\ pc[r] = "restore"
    /\ store' = [store EXCEPT ![at[r]] = held[r]]
    /\ PutBack(at[r])
    /\ Stay(r, "reindex")
    /\ Request
    /\ UNCHANGED <<index, trail, held, todo, stale, history>>

Reindexed(r) ==
    /\ PutBack(at[r])
    /\ IF endpoint[r] = "refresh"
       THEN Enter(r, "create", "unmake", r) /\ UNCHANGED held
       ELSE End(r, "refused")
    /\ Request
    /\ UNCHANGED <<store, trail, todo, stale, history>>

\* Mutant: the session is put back, but not into user_sessions.
ReindexSkipped(r) ==
    /\ pc[r] = "reindex"
    /\ UNCHANGED index
    /\ Reindexed(r)

Reindex(r) ==
    /\ pc[r] = "reindex"
    /\ index' = index \cup {at[r]}
    /\ Reindexed(r)

-----------------------------------------------------------------------------
(* listUserSessions: SMEMBERS, a GET of each session, an SREM of the ids it *)
(* found stale.                                                             *)

Members(r) ==
    /\ pc[r] = "members"
    /\ todo' = [todo EXCEPT ![r] = index]
    /\ Stay(r, "look")
    /\ Request
    /\ UNCHANGED <<redis, trail, held, stale, due, history>>

Look(r) ==
    /\ pc[r] = "look"
    /\ \E s \in todo[r] :
          /\ todo' = [todo EXCEPT ![r] = @ \ {s}]
          /\ \/ /\ store[s] # Absent
                /\ UNCHANGED <<stale, lapsed>>
             \/ /\ stale' = [stale EXCEPT ![r] = @ \cup {s}]
                /\ lapsed' = IF store[s] = Absent THEN lapsed ELSE lapsed \cup {s}
    /\ UNCHANGED <<redis, trail, pc, stage, endpoint, cookie, at, held, due,
                   known, asked, proven, origin>>

(* The GET of a session answers with an error.                              *)
LookFails(r) ==
    /\ "crash" \in Faults
    /\ pc[r] = "look"
    /\ \E s \in todo[r] :
          /\ todo' = [todo EXCEPT ![r] = @ \ {s}]
          /\ stale' = [stale EXCEPT ![r] = @ \cup {s}]
    /\ UNCHANGED <<redis, trail, pc, stage, endpoint, cookie, at, held, due, history>>

Sweep(r) ==
    /\ pc[r] = "look"
    /\ todo[r] = {}
    /\ index' = index \ stale[r]
    /\ End(r, "done")
    /\ Request
    /\ UNCHANGED <<store, trail, walk, history>>

-----------------------------------------------------------------------------
(* The environment.                                                         *)

(* The TTL of a key runs out.                                               *)
Lapse(s) ==
    /\ store[s] # Absent
    /\ store' = [store EXCEPT ![s] = Absent]
    /\ lapsed' = lapsed \cup {s}
    /\ UNCHANGED <<index, trail, control, known, asked, proven, origin>>

(* The process dies, or a Redis command fails and takes the handler with it.*)
Crash(r) ==
    /\ "crash" \in Faults
    /\ pc[r] \notin Ended \cup {"start"}
    /\ Goto(r, "failed")
    /\ UNCHANGED <<redis, trail, stage, endpoint, cookie, at, held, walk, history>>

(* A Redis command of the revocation inside rotateSession fails, before it  *)
(* takes effect or after: the catch block takes the new session back.       *)
RotationFails(r) ==
    /\ "crash" \in Faults
    /\ endpoint[r] = "refresh"
    /\ pc[r] \in {"find", "delete", "recordRevoked", "restore", "reindex"}
    /\ Stay(r, "unmake")
    /\ Request
    /\ UNCHANGED <<redis, trail, held, walk, history>>

-----------------------------------------------------------------------------
Handle(r) ==
    \/ Login(r) \/ Arrive(r) \/ Get(r) \/ Touch(r) \/ Drop(r) \/ Write(r)
    \/ Persist(r) \/ AddToIndex(r) \/ RecordCreated(r) \/ RecordCreatedFails(r)
    \/ CopyReauth(r) \/ Unmake(r) \/ ListSessions(r) \/ NextSession(r)
    \/ FindVictim(r) \/ DeleteVictim(r) \/ RecordRevoked(r)
    \/ RecordRevokedFails(r) \/ Restore(r) \/ Reindex(r) \/ RotationFails(r)
    \/ Members(r) \/ Look(r) \/ LookFails(r) \/ Sweep(r)

(* Every request has ended: the instance has no more work.                  *)
Idle == (\A r \in Requests : pc[r] \in Ended) /\ UNCHANGED vars

Next ==
    \/ \E r \in Requests : Handle(r) \/ Crash(r) \/ Lapse(r)
    \/ Idle

Spec == Init /\ [][Next]_vars

-----------------------------------------------------------------------------
(* Properties.                                                              *)

(* Every variable has its type: values, sets of ids, control points and     *)
(* what the handlers hold.                                                  *)
SessionsTypeOK ==
    /\ store \in [Requests -> Session \cup {Absent}]
    /\ index \subseteq Requests /\ trail \subseteq Requests
    /\ pc \in [Requests -> Labels]
    /\ stage \in [Requests -> Stages]
    /\ endpoint \in [Requests -> Endpoints]
    /\ cookie \in [Requests -> Requests \cup {Nobody}]
    /\ at \in [Requests -> Requests \cup {Nobody}]
    /\ held \in [Requests -> Session \cup {Absent}]
    /\ todo \in [Requests -> SUBSET Requests]
    /\ stale \in [Requests -> SUBSET Requests]
    /\ due \in [Requests -> SUBSET Requests]
    /\ known \subseteq Requests /\ lapsed \subseteq Requests
    /\ asked \subseteq Requests /\ proven \subseteq Requests
    /\ origin \in [Requests -> Requests \cup {Nobody}]

(* A handler is about to write back a value of s that it has read or made,  *)
(* or to put back what it deletes.                                          *)
Holder(r, s) ==
    \/ at[r] = s /\ pc[r] \in {"touch", "write", "delete", "recordRevoked", "restore"}
    \/ r = s /\ pc[r] \in {"index", "record", "copy"}

(* A session that is gone comes back only through a handler that read it    *)
(* before: once those have ended it is gone for good, so a revocation is    *)
(* final as soon as the requests it overlapped are over (persistSession,    *)
(* which writes whatever its caller holds).                                 *)
GoneForGood ==
    [][\A s \in Requests :
          /\ origin[s] # Nobody
          /\ store[s] = Absent
          /\ \A r \in Requests : ~Holder(r, s)
          => store'[s] = Absent /\ \A r \in Requests : ~Holder(r, s)']_vars

(* No interleaving of write-backs, rotations and restorations makes up a    *)
(* second factor: a session that descends from a login that asked for one   *)
(* is complete, upgraded or reauthenticated only if a factor was verified   *)
(* on a session of the same descent.                                        *)
FactorWasProven ==
    \A s \in Requests :
        store[s] # Absent /\ (store[s].level = "factor" \/
            (~store[s].pending /\ origin[s] \in asked)) =>
                \E t \in proven : origin[t] = origin[s]

(* A handler is between deleting s and recording that, or putting it back,  *)
(* or was cut off there.                                                    *)
Revoking(r, s) ==
    /\ at[r] = s /\ stage[r] = "revoke"
    /\ pc[r] \in {"recordRevoked", "restore", "reindex", "unmake", "failed"}

(* A session a client held does not vanish without a trace: its time was    *)
(* over, or its revocation is in the audit trail, unless the handler that   *)
(* revoked it is still at work or was cut off.                              *)
GoneIsAccounted ==
    \A s \in known :
        store[s] = Absent =>
            \/ s \in lapsed \cup trail
            \/ \E r \in Requests : Revoking(r, s) /\ pc[r] # "reindex"

(* What a revocation of all cannot see does not stay alive: a session a     *)
(* client holds is in user_sessions, however creations, listings and failed *)
(* revocations interleave (the SADD apart from the SET, the SREM of a       *)
(* listing apart from its GETs).  The exceptions: a revocation or a         *)
(* deadline that a handler wrote over, a revocation at work or cut off, and *)
(* an id that a listing took for stale.                                     *)
LiveIsIndexed ==
    \A s \in known :
        store[s] # Absent =>
            \/ s \in index \cup trail \cup lapsed
            \/ \E r \in Requests : Revoking(r, s) \/ s \in stale[r]

(* A revocation of all that reports success has left none of the sessions   *)
(* that clients held when it read the list, and spared only the one it was  *)
(* told to spare (revokeAllSessions, which walks a list read once, while    *)
(* others create, revoke, restore and sweep).  It owes nothing for a        *)
(* session another handler is revoking or puts back, or that a listing took *)
(* for stale.                                                               *)
RevokedAllThatWereDue ==
    \A r \in Requests :
        endpoint[r] \in {"revokeAll", "disable"} /\ pc[r] = "done" =>
            \A s \in due[r] :
                \/ s \in trail \cup lapsed
                \/ \E q \in Requests : Revoking(q, s) \/ s \in stale[q]

-----------------------------------------------------------------------------
(* Properties the repository's documents state and the code does not keep.  *)

(* Revocation is immediate: once it is in the trail, the session is gone    *)
(* (validateSession and the upgrades write back what they read before).     *)
RevokedIsGone == \A s \in trail : store[s] = Absent

(* What the code would have to ensure for that, and does not: a session is  *)
(* written back only while it is there.                                     *)
WritesBackOnlyLive ==
    [][\A r \in Requests :
          Touch(r) \/ Write(r) \/ CopyReauth(r) => store[at[r]] # Absent]_vars

(* A rotation keeps the replacement only if the revocation of the session   *)
(* it replaces succeeded: of two rotations of a session at most one gives   *)
(* its client a new one (rotateSession, which drops revokeSession's result).*)
ReplacedOnce ==
    \A r, q \in Requests :
        /\ endpoint[r] = "refresh" /\ endpoint[q] = "refresh"
        /\ cookie[r] = cookie[q] /\ cookie[r] \notin lapsed
        /\ pc[r] = "done" /\ pc[q] = "done"
        => r = q

(* What the code would have to ensure for that: a rotation goes on only if  *)
(* the session it replaces is there to be found and to be deleted.          *)
RotationsTakeTheOld ==
    [][\A r \in Requests :
          endpoint[r] = "refresh" /\ (FindVictim(r) \/ DeleteVictim(r)) =>
              store[at[r]] # Absent]_vars

=============================================================================
