------------------------------ MODULE Payments ------------------------------
(***************************************************************************)
(* POST /payments: createPayment of payments.service.ts, with the unique   *)
(* index of the payment table and the audit trail it writes to.  Clients   *)
(* retry: several requests may carry the same idempotency key, with the    *)
(* same body or another one, and run at the same time.                     *)
(*                                                                         *)
(* Every request is a process; a step is one database statement or one     *)
(* transaction.  The row a request inserts is identified by the request.   *)
(* The fingerprint of a body is the body: sha256 is taken as injective.    *)
(***************************************************************************)

CONSTANTS
    Requests,     \* requests to POST /payments
    Users,
    Creators,     \* the users with a role that may create payments
    Keys,         \* idempotency keys
    NoKey,        \* SQL NULL in idempotencyKey
    Bodies,       \* payment bodies that differ in a fingerprinted field
    NoRow,
    FailClosed,   \* the outcomes whose audit event must be persisted
    Faults        \* the failures the environment may produce

(* "crash": the API process dies.  "database": a statement reports failure, *)
(* with or without its effect.                                              *)
FaultKinds == {"crash", "database"}

\* What a request may be answered.  "constraint" is a P2002 that escapes the
\* handler, "unavailable" any other database failure.
Kinds == {"created", "replayed", "conflict", "denied", "constraint",
          "unavailable"}

ASSUME PaymentsAssumption ==
    /\ Creators \subseteq Users
    /\ NoKey \notin Keys
    /\ NoRow \notin Requests
    /\ Faults \subseteq FaultKinds
    /\ FailClosed \subseteq {"replayed", "conflict", "denied"}

VARIABLES
    payload,     \* who asks for what, under which key
    payments,    \* the payment table
    audit,       \* the audit events: what happened to which request
    pc,          \* the next step of each request's handler
    found,       \* the row the handler holds from findPaymentReplay
    answer       \* what the client was told

vars == <<payload, payments, audit, pc, found, answer>>

-----------------------------------------------------------------------------
Payload == [user : Users, key : Keys \cup {NoKey}, body : Bodies]

PaymentRow == [id : Requests, user : Users, key : Keys \cup {NoKey},
               fingerprint : Bodies]

Answer == [kind : Kinds \cup {"none"}, id : Requests \cup {NoRow}]

Labels == {"start", "lookup", "create", "lookupAgain", "resolve", "done"}

RowOf(r) == [id |-> r, user |-> payload[r].user, key |-> payload[r].key,
             fingerprint |-> payload[r].body]

(* The row with this userId and idempotencyKey, if there is one; NULLs are  *)
(* distinct in the unique index.                                            *)
Matching(r) ==
    {p \in payments : /\ p.key # NoKey
                      /\ p.key = payload[r].key
                      /\ p.user = payload[r].user}

Goto(r, label) == pc' = [pc EXCEPT ![r] = label]

Reply(r, kind, id) ==
    /\ answer' = [answer EXCEPT ![r] = [kind |-> kind, id |-> id]]
    /\ Goto(r, "done")

Init ==
    /\ payload \in [Requests -> Payload]
    /\ payments = {}
    /\ audit = {}
    /\ pc = [r \in Requests |-> "start"]
    /\ found = [r \in Requests |-> NoRow]
    /\ answer = [r \in Requests |-> [kind |-> "none", id |-> NoRow]]

-----------------------------------------------------------------------------
\* Mutant: a failure to persist the event never reaches the client.
AuditedFailOpen(r, kind, id) ==
    /\ \/ audit' = audit \cup {<<kind, r>>}
       \/ "database" \in Faults /\ audit' = audit
    /\ Reply(r, kind, id)

(* auditService.record, then the answer.  When the event cannot be          *)
(* persisted a fail-closed outcome becomes a 503.                           *)
Audited(r, kind, id) ==
    \/ /\ audit' = audit \cup {<<kind, r>>}
       /\ Reply(r, kind, id)
    \/ /\ "database" \in Faults
       /\ audit' \in {audit, audit \cup {<<kind, r>>}}
       /\ IF kind \in FailClosed THEN Reply(r, "unavailable", NoRow)
                                 ELSE Reply(r, kind, id)

Deny(r) ==
    /\ pc[r] = "start"
    /\ payload[r].user \notin Creators
    /\ Audited(r, "denied", NoRow)
    /\ UNCHANGED <<payload, payments, found>>

\* Mutant: whoever carries a key is let through.
AllowRetries(r) ==
    /\ pc[r] = "start"
    /\ payload[r].user \in Creators \/ payload[r].key # NoKey
    /\ Goto(r, IF payload[r].key = NoKey THEN "create" ELSE "lookup")
    /\ UNCHANGED <<payload, payments, audit, found, answer>>

Allow(r) ==
    /\ pc[r] = "start"
    /\ payload[r].user \in Creators
    /\ Goto(r, IF payload[r].key = NoKey THEN "create" ELSE "lookup")
    /\ UNCHANGED <<payload, payments, audit, found, answer>>

\* Mutant: the key is kept where the id of the row belongs.
FoundKey(r, p) ==
    /\ found' = [found EXCEPT ![r] = p.key]
    /\ Goto(r, "resolve")
    /\ UNCHANGED <<payload, payments, audit, answer>>

(* findPaymentReplay, before the insert and after the insert was refused.   *)
Found(r, p) ==
    /\ found' = [found EXCEPT ![r] = p.id]
    /\ Goto(r, "resolve")
    /\ UNCHANGED <<payload, payments, audit, answer>>

Lookup(r) ==
    /\ pc[r] = "lookup"
    /\ \/ \E p \in Matching(r) : Found(r, p)
       \/ /\ Matching(r) = {}
          /\ Goto(r, "create")
          /\ UNCHANGED <<payload, payments, audit, found, answer>>

LookupAgain(r) ==
    /\ pc[r] = "lookupAgain"
    /\ IF Matching(r) # {}
       THEN \E p \in Matching(r) : Found(r, p)
       ELSE /\ Reply(r, "constraint", NoRow)
            /\ UNCHANGED <<payload, payments, audit, found>>

\* Mutant: no unique index; the earlier lookup decides.
CreateUnchecked(r) ==
    /\ pc[r] = "create"
    /\ payments' = payments \cup {RowOf(r)}
    /\ audit' = audit \cup {<<"created", r>>}
    /\ Reply(r, "created", r)
    /\ UNCHANGED <<payload, found>>

(* The transaction: the row and its audit event, or neither.                *)
Create(r) ==
    /\ pc[r] = "create"
    /\ Matching(r) = {}
    /\ payments' = payments \cup {RowOf(r)}
    /\ audit' = audit \cup {<<"created", r>>}
    /\ Reply(r, "created", r)
    /\ UNCHANGED <<payload, found>>

(* It commits, but the client only learns that something failed: the        *)
(* statement reported an error, or the process died before it answered.     *)
CreateUnacknowledged(r) ==
    /\ Faults # {}
    /\ pc[r] = "create"
    /\ Matching(r) = {}
    /\ payments' = payments \cup {RowOf(r)}
    /\ audit' = audit \cup {<<"created", r>>}
    /\ Reply(r, "unavailable", NoRow)
    /\ UNCHANGED <<payload, found>>

\* Mutant: the unique violation is rethrown.
CreateRethrows(r) ==
    /\ pc[r] = "create"
    /\ Matching(r) # {}
    /\ Reply(r, "constraint", NoRow)
    /\ UNCHANGED <<payload, payments, audit, found>>

(* P2002: another request inserted the key since the lookup.                *)
CreateRefused(r) ==
    /\ pc[r] = "create"
    /\ Matching(r) # {}
    /\ Goto(r, "lookupAgain")
    /\ UNCHANGED <<payload, payments, audit, found, answer>>

\* Mutant: the replay is accepted without comparing the fingerprints.
ResolveUnchecked(r) ==
    /\ pc[r] = "resolve"
    /\ Audited(r, "replayed", found[r])
    /\ UNCHANGED <<payload, payments, found>>

(* resolveIdempotentReplay.                                                 *)
Resolve(r) ==
    /\ pc[r] = "resolve"
    /\ \E p \in payments :
          /\ p.id = found[r]
          /\ IF p.fingerprint = payload[r].body
             THEN Audited(r, "replayed", p.id)
             ELSE Audited(r, "conflict", p.id)
    /\ UNCHANGED <<payload, payments, found>>

(* A read fails, or the transaction rolls back for another reason.          *)
DatabaseFails(r) ==
    /\ "database" \in Faults
    /\ pc[r] \in {"start", "lookup", "create", "lookupAgain"}
    /\ Reply(r, "unavailable", NoRow)
    /\ UNCHANGED <<payload, payments, audit, found>>

(* The process dies before the handler ends; whatever was committed stays.  *)
Crash(r) ==
    /\ "crash" \in Faults
    /\ pc[r] # "done"
    /\ Goto(r, "done")
    /\ UNCHANGED <<payload, payments, audit, found, answer>>

-----------------------------------------------------------------------------
Handle(r) ==
    Deny(r) \/ Allow(r) \/ Lookup(r) \/ LookupAgain(r) \/ Create(r)
        \/ CreateUnacknowledged(r) \/ CreateRefused(r) \/ Resolve(r)
        \/ DatabaseFails(r)

(* Every request has ended: the instance has no more work.                  *)
Idle == (\A r \in Requests : pc[r] = "done") /\ UNCHANGED vars

Next == (\E r \in Requests : Handle(r) \/ Crash(r)) \/ Idle

Spec == Init /\ [][Next]_vars

-----------------------------------------------------------------------------
(* Properties.                                                              *)

(* Every variable has its type: payloads, rows, audit events, control       *)
(* points and answers.                                                      *)
PaymentsTypeOK ==
    /\ payload \in [Requests -> Payload]
    /\ payments \subseteq PaymentRow
    /\ audit \subseteq (Kinds \X Requests)
    /\ pc \in [Requests -> Labels]
    /\ found \in [Requests -> Requests \cup {NoRow}]
    /\ answer \in [Requests -> Answer]

(* A user's idempotency key names at most one payment, however many         *)
(* requests raced between findPaymentReplay and the insert, crashed or were *)
(* retried after an answer that was lost.                                   *)
OnePaymentPerKey ==
    \A p, q \in payments :
        p.key # NoKey /\ p.key = q.key /\ p.user = q.user => p = q

(* What the client is told is so: "created" and "replayed" come with a      *)
(* stored payment of this user, this key and exactly this body, and         *)
(* "conflict" is answered only when the key is taken by another body.       *)
AnswersAreTrue ==
    \A r \in Requests :
        answer[r].kind \in {"created", "replayed", "conflict"} =>
            \E p \in payments :
                /\ p.id = answer[r].id
                /\ p.user = payload[r].user
                /\ p.key = payload[r].key
                /\ (p.fingerprint = payload[r].body)
                        <=> (answer[r].kind # "conflict")

(* Losing the race for a key is invisible: the unique violation is always   *)
(* turned into the answer of a replay, never passed on to the client.       *)
RaceIsInvisible == \A r \in Requests : answer[r].kind # "constraint"

(* No payment and no fail-closed answer without its audit event, whatever   *)
(* the database failed to do.                                               *)
TrailIsComplete ==
    /\ \A p \in payments : <<"created", p.id>> \in audit
    /\ \A r \in Requests :
          answer[r].kind \in FailClosed => <<answer[r].kind, r>> \in audit

=============================================================================
