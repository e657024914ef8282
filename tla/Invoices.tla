------------------------------ MODULE Invoices ------------------------------
(***************************************************************************)
(* The invoice state machine of invoices.service.ts: stampInvoice,         *)
(* cancelInvoice and reconcileInvoiceProcessing, the processing lock kept  *)
(* in the invoice row, and the external PAC (the certification provider)   *)
(* reached through pac.service.ts.                                         *)
(*                                                                         *)
(* Every HTTP request is a process that runs its handler once.  A step is  *)
(* what the handler does between two awaits: one database statement, one   *)
(* transaction or one exchange with the PAC.  A request draws at most one  *)
(* random operation id, so the request itself stands for that id: it is    *)
(* the value of processingOperationId, the PAC's idempotency key and the   *)
(* reference the PAC issues for it.                                        *)
(***************************************************************************)

CONSTANTS
    Invoices,            \* invoice ids
    StampRequests,       \* requests to POST /invoices/stamp
    CancelRequests,      \* requests to POST /invoices/cancel
    ReconcileRequests,   \* requests to POST /invoices/reconcile
    NoRequest,           \* SQL NULL in processingOperationId and pacReference
    Users,               \* users whose session passed the guards
    RolesOf,             \* the roles the database assigns to each user
    Owner,               \* Invoice.userId
    Faults               \* the failures the environment may produce

(***************************************************************************)
(* "abort":     the API process dies, or a database call fails.            *)
(* "ambiguous": the PAC path answers with an error status, or without a    *)
(*              reference, for an operation the PAC has not rejected.      *)
(* "overlap":   two requests resolve the same unconfirmed operation at the *)
(*              same time.                                                 *)
(* "misreport": the operator's manual resolution contradicts the PAC.      *)
(***************************************************************************)
FaultKinds == {"abort", "ambiguous", "overlap", "misreport"}

Lockers  == StampRequests \cup CancelRequests
Requests == Lockers \cup ReconcileRequests

ASSUME RequestsAssumption ==
    /\ StampRequests \cap CancelRequests = {}
    /\ Lockers \cap ReconcileRequests = {}
    /\ NoRequest \notin Requests

ASSUME FaultsAssumption == Faults \subseteq FaultKinds

VARIABLES
    invoice,    \* the invoice table
    pac,        \* what became of each operation sent to the PAC
    pc,         \* the next step of each request's handler
    target,     \* the invoiceId in each request's payload
    snapshot    \* the row each handler holds from its findUnique

vars == <<invoice, pac, pc, target, snapshot>>

-----------------------------------------------------------------------------
(* Rows.  "cancelRef" keeps only who issued the cancellation reference.     *)

Statuses == {"DRAFT", "STAMPED", "CANCELLED"}
Actions  == {"STAMP", "CANCEL"}

Row == [status    : Statuses,
        action    : Actions \cup {"NONE"},
        op        : Lockers \cup {NoRequest},
        confirm   : BOOLEAN,
        ref       : StampRequests \cup {NoRequest},
        cancelRef : {"NONE", "LOCAL", "PAC"}]

NewRow == [status |-> "DRAFT", action |-> "NONE", op |-> NoRequest,
           confirm |-> FALSE, ref |-> NoRequest, cancelRef |-> "NONE"]

ActionOf(r) == IF r \in StampRequests THEN "STAMP" ELSE "CANCEL"

\* Mutants of Locked: the two columns swapped; confirmation asked for at once.
LockedSwapped(row, r) ==
    [row EXCEPT !.action = r, !.op = ActionOf(r), !.confirm = FALSE]
LockedUnconfirmed(row, r) ==
    [row EXCEPT !.action = ActionOf(r), !.op = r, !.confirm = TRUE]

Locked(row, r) ==
    [row EXCEPT !.action = ActionOf(r), !.op = r, !.confirm = FALSE]

Unlocked(row) ==
    [row EXCEPT !.action = "NONE", !.op = NoRequest, !.confirm = FALSE]

Stamped(row, o) == [Unlocked(row) EXCEPT !.status = "STAMPED", !.ref = o]

Cancelled(row, source) ==
    [Unlocked(row) EXCEPT !.status = "CANCELLED", !.cancelRef = source]

\* Mutant: a stamp may lock whatever is not stamped.
LockableUnlessStamped(r) ==
    IF r \in StampRequests THEN {"DRAFT", "CANCELLED"} ELSE {"DRAFT", "STAMPED"}

LockableStatuses(r) ==
    IF r \in StampRequests THEN {"DRAFT"} ELSE {"DRAFT", "STAMPED"}

\* Mutant: the WHERE clause without processingAction = null.
LockableIgnoringLock(row, r) == row.status \in LockableStatuses(r)

(* The WHERE clause of acquireInvoiceProcessingLock.                        *)
Lockable(row, r) == row.action = "NONE" /\ row.status \in LockableStatuses(r)

(* A PAC operation whose outcome the API still does not know.               *)
Unconfirmed(row) == row.action # "NONE" /\ row.op # NoRequest /\ row.confirm

-----------------------------------------------------------------------------
(* Who may ask for what.                                                    *)

PermittedRoles(r) ==
    IF r \in StampRequests THEN {"ADMIN", "FINANCE", "OPERATOR"}
                           ELSE {"ADMIN", "FINANCE"}

Permitted(u, r) ==
    /\ RolesOf[u] \cap PermittedRoles(r) # {}
    /\ \/ Owner[target[r]] = u
       \/ RolesOf[u] \cap {"ADMIN", "FINANCE"} # {}

-----------------------------------------------------------------------------
(* Control points.                                                          *)

Resolving == {"query", "clear", "finalize"}
Working   == {"validate", "call", "wait", "commit", "mark", "release"}
Ended     == {"done", "aborted"}
Labels    == {"read", "lock"} \cup Resolving \cup Working \cup Ended

Goto(r, label) == pc' = [pc EXCEPT ![r] = label]

End(r, label) ==
    /\ Goto(r, label)
    /\ snapshot' = [snapshot EXCEPT ![r] = NewRow]

Advance(r, label) == Goto(r, label) /\ UNCHANGED snapshot

Write(r, row) == invoice' = [invoice EXCEPT ![target[r]] = row]

PacOutcomes == {"none", "sent", "applied", "rejected", "lost"}

Init ==
    /\ invoice = [i \in Invoices |-> NewRow]
    /\ pac = [r \in Lockers |-> "none"]
    /\ pc = [r \in Requests |-> "read"]
    /\ target \in [Requests -> Invoices]
    /\ snapshot = [r \in Requests |-> NewRow]

-----------------------------------------------------------------------------
(* The first part of the handlers: roles, findUnique, ownership, status.    *)

Begin(r) == pc[r] = "read" /\ UNCHANGED <<invoice, pac, target>>

Deny(r) ==
    /\ Begin(r)
    /\ \E u \in Users : ~Permitted(u, r)
    /\ End(r, "done")

(* 409: the row is already where the request wants it, or past it; there is *)
(* nothing to reconcile; or a manual confirmation of a stamp comes without  *)
(* the reference.                                                           *)
Refusable(row, r) ==
    IF r \in StampRequests THEN row.status \in {"STAMPED", "CANCELLED"}
    ELSE IF r \in CancelRequests THEN row.status = "CANCELLED"
    ELSE ~Unconfirmed(row)

Refuse(r) ==
    /\ Begin(r)
    /\ \E u \in Users : Permitted(u, r)
    /\ \/ Refusable(invoice[target[r]], r)
       \/ r \in ReconcileRequests /\ invoice[target[r]].action = "STAMP"
    /\ End(r, "done")

Accept(r, label) ==
    /\ Begin(r)
    /\ \E u \in Users : Permitted(u, r)
    /\ ~Refusable(invoice[target[r]], r)
    /\ snapshot' = [snapshot EXCEPT ![r] = invoice[target[r]]]
    /\ Goto(r, label)

(* Without the fault "overlap" an unconfirmed operation is resolved by one  *)
(* request at a time: the next one reads the row after the first has ended. *)
MayResolve(r) ==
    \/ "overlap" \in Faults
    \/ \A q \in Requests : target[q] = target[r] => pc[q] \notin Resolving

(* A stamp or cancel that meets its own kind of operation unconfirmed asks  *)
(* the PAC first; any other goes for the lock.                              *)
OwnKindUnconfirmed(row, r) == Unconfirmed(row) /\ row.action = ActionOf(r)

AcceptNew(r) ==
    /\ r \in Lockers
    /\ ~OwnKindUnconfirmed(invoice[target[r]], r)
    /\ Accept(r, "lock")

AcceptRetry(r) ==
    /\ r \in Lockers
    /\ OwnKindUnconfirmed(invoice[target[r]], r)
    /\ MayResolve(r)
    /\ Accept(r, "query")

(* The three resolutions of POST /invoices/reconcile: ask the PAC, or take  *)
(* the operator's word, which agrees with the PAC unless "misreport".       *)
OperatorMayClaim(row, outcomes) ==
    /\ Unconfirmed(row)
    /\ "misreport" \in Faults \/ pac[row.op] \in outcomes

AcceptReconcile(r) ==
    /\ r \in ReconcileRequests
    /\ MayResolve(r)
    /\ \/ Accept(r, "query")
       \/ /\ OperatorMayClaim(invoice[target[r]], {"rejected", "lost"})
          /\ Accept(r, "clear")
       \/ /\ OperatorMayClaim(invoice[target[r]], {"applied"})
          /\ Accept(r, "finalize")

-----------------------------------------------------------------------------
(* Resolving an operation whose outcome was unknown.                        *)

(* getOperationStatus answers PENDING (also for an unknown operation), or   *)
(* fails, or lacks the reference of a stamp: 503, nothing changes.          *)
QueryInconclusive(r) ==
    /\ pc[r] = "query"
    /\ End(r, "done")
    /\ UNCHANGED <<invoice, pac, target>>

QueryAnswer(r) ==
    /\ pc[r] = "query"
    /\ \/ pac[snapshot[r].op] = "rejected" /\ Advance(r, "clear")
       \/ pac[snapshot[r].op] = "applied" /\ Advance(r, "finalize")
    /\ UNCHANGED <<invoice, pac, target>>

(* clearPendingInvoiceOperationState: an update by id alone.                *)
Clear(r) ==
    /\ pc[r] = "clear"
    /\ Write(r, Unlocked(invoice[target[r]]))
    /\ End(r, "done")
    /\ UNCHANGED <<pac, target>>

(* finalizeReconciledInvoice: an update by id alone, for the action and the *)
(* operation of the snapshot.                                               *)
FinalizeStamp(r) ==
    /\ pc[r] = "finalize"
    /\ snapshot[r].action = "STAMP"
    /\ Write(r, Stamped(invoice[target[r]], snapshot[r].op))
    /\ End(r, "done")
    /\ UNCHANGED <<pac, target>>

FinalizeCancel(r) ==
    /\ pc[r] = "finalize"
    /\ snapshot[r].action = "CANCEL"
    /\ \E source \in {"LOCAL", "PAC"} :
          Write(r, Cancelled(invoice[target[r]], source))
    /\ End(r, "done")
    /\ UNCHANGED <<pac, target>>

-----------------------------------------------------------------------------
(* A new operation.                                                         *)

\* Mutant: the lock is decided on the row the handler read, not in the update.
AcquireStaleCheck(r) ==
    /\ pc[r] = "lock"
    /\ Lockable(snapshot[r], r)
    /\ Write(r, Locked(invoice[target[r]], r))
    /\ Advance(r, IF r \in StampRequests THEN "validate" ELSE "call")
    /\ UNCHANGED <<pac, target>>

(* acquireInvoiceProcessingLock: one conditional UPDATE.                    *)
Acquire(r) ==
    /\ pc[r] = "lock"
    /\ Lockable(invoice[target[r]], r)
    /\ Write(r, Locked(invoice[target[r]], r))
    /\ Advance(r, IF r \in StampRequests THEN "validate" ELSE "call")
    /\ UNCHANGED <<pac, target>>

LockRefused(r) ==
    /\ pc[r] = "lock"
    /\ ~Lockable(invoice[target[r]], r)
    /\ End(r, "done")
    /\ UNCHANGED <<invoice, pac, target>>

(* validateLinkedPayment, whose outcome the payments table decides.         *)
Validate(r) ==
    /\ pc[r] = "validate"
    /\ \E label \in {"call", "release"} : Advance(r, label)
    /\ UNCHANGED <<invoice, pac, target>>

(* A cancel calls the PAC only when the row it read was stamped.            *)
CallsPac(r) ==
    \/ r \in StampRequests
    \/ snapshot[r].status = "STAMPED" /\ snapshot[r].ref # NoRequest

SkipPac(r) ==
    /\ pc[r] = "call"
    /\ ~CallsPac(r)
    /\ Advance(r, "commit")
    /\ UNCHANGED <<invoice, pac, target>>

Send(r) ==
    /\ pc[r] = "call"
    /\ CallsPac(r)
    /\ pac' = [pac EXCEPT ![r] = "sent"]
    /\ Advance(r, "wait")
    /\ UNCHANGED <<invoice, target>>

(* The provider is not configured: 503 before anything is sent.             *)
NotConfigured(r) ==
    /\ pc[r] = "call"
    /\ CallsPac(r)
    /\ Advance(r, "release")
    /\ UNCHANGED <<invoice, pac, target>>

\* Mutant: any 2xx counts, with or without a reference.
RepliedUnchecked(r) ==
    /\ pc[r] = "wait"
    /\ Advance(r, "commit")
    /\ UNCHANGED <<invoice, pac, target>>

Replied(r) ==
    /\ pc[r] = "wait"
    /\ pac[r] = "applied"
    /\ Advance(r, "commit")
    /\ UNCHANGED <<invoice, pac, target>>

(* BadGatewayException: an error status, or a 2xx without a reference.      *)
RepliedError(r) ==
    /\ pc[r] = "wait"
    /\ pac[r] = "rejected" \/ "ambiguous" \in Faults
    /\ Advance(r, "release")
    /\ UNCHANGED <<invoice, pac, target>>

\* Mutant: a timeout is taken for a failure.
TimeoutReleases(r) ==
    /\ pc[r] = "wait"
    /\ Advance(r, "release")
    /\ UNCHANGED <<invoice, pac, target>>

(* PacConfirmationRequiredException: the timeout or a transport error, at   *)
(* whatever point the PAC is.                                               *)
Timeout(r) ==
    /\ pc[r] = "wait"
    /\ Advance(r, "mark")
    /\ UNCHANGED <<invoice, pac, target>>

PacCompleted(r) == pac[r] # "none"

CommitStamp(r) ==
    /\ r \in StampRequests
    /\ pc[r] = "commit"
    /\ Write(r, Stamped(invoice[target[r]], r))
    /\ End(r, "done")
    /\ UNCHANGED <<pac, target>>

CommitCancel(r) ==
    /\ r \in CancelRequests
    /\ pc[r] = "commit"
    /\ Write(r, Cancelled(invoice[target[r]],
                          IF PacCompleted(r) THEN "PAC" ELSE "LOCAL"))
    /\ End(r, "done")
    /\ UNCHANGED <<pac, target>>

(* The transaction fails: the lock is released only if the PAC was not      *)
(* called; otherwise the row stays locked.                                  *)
CommitFails(r) ==
    /\ "abort" \in Faults
    /\ pc[r] = "commit"
    /\ IF PacCompleted(r) THEN End(r, "aborted") ELSE Advance(r, "release")
    /\ UNCHANGED <<invoice, pac, target>>

\* Mutant: WHERE the operation the handler read, which is never its own.
MarkBySnapshot(r) ==
    /\ pc[r] = "mark"
    /\ IF invoice[target[r]].op = snapshot[r].op
       THEN Write(r, [invoice[target[r]] EXCEPT !.confirm = TRUE])
       ELSE UNCHANGED invoice
    /\ End(r, "done")
    /\ UNCHANGED <<pac, target>>

(* markInvoiceProcessingConfirmationRequired: WHERE action and operation.   *)
Mark(r) ==
    /\ pc[r] = "mark"
    /\ IF invoice[target[r]].action = ActionOf(r) /\ invoice[target[r]].op = r
       THEN Write(r, [invoice[target[r]] EXCEPT !.confirm = TRUE])
       ELSE UNCHANGED invoice
    /\ End(r, "done")
    /\ UNCHANGED <<pac, target>>

\* Mutant: WHERE the action the handler read, which is never its own.
ReleaseBySnapshot(r) ==
    /\ pc[r] = "release"
    /\ IF invoice[target[r]].action = snapshot[r].action
       THEN Write(r, Unlocked(invoice[target[r]]))
       ELSE UNCHANGED invoice
    /\ End(r, "done")
    /\ UNCHANGED <<pac, target>>

(* releaseInvoiceProcessingLock: WHERE action, whatever the operation.      *)
Release(r) ==
    /\ pc[r] = "release"
    /\ IF invoice[target[r]].action = ActionOf(r)
       THEN Write(r, Unlocked(invoice[target[r]]))
       ELSE UNCHANGED invoice
    /\ End(r, "done")
    /\ UNCHANGED <<pac, target>>

(* The process dies, or the statement the handler is at fails and the       *)
(* exception leaves the handler: nothing more runs for this request.        *)
Abort(r) ==
    /\ "abort" \in Faults
    /\ pc[r] \notin Ended
    /\ End(r, "aborted")
    /\ UNCHANGED <<invoice, pac, target>>

-----------------------------------------------------------------------------
(* The PAC, and the network on the way to it.  A request that was sent is   *)
(* applied, rejected or lost at any later time, whether or not the API      *)
(* still waits for the answer.                                              *)

PacDecides(r) ==
    /\ pac[r] = "sent"
    /\ \E outcome \in {"applied", "rejected", "lost"} :
          pac' = [pac EXCEPT ![r] = outcome]
    /\ UNCHANGED <<invoice, pc, target, snapshot>>

-----------------------------------------------------------------------------
Resolve(r) ==
    QueryInconclusive(r) \/ QueryAnswer(r) \/ Clear(r)
        \/ FinalizeStamp(r) \/ FinalizeCancel(r)

Operate(r) ==
    Acquire(r) \/ LockRefused(r) \/ Validate(r) \/ SkipPac(r) \/ Send(r)
        \/ NotConfigured(r) \/ Replied(r) \/ RepliedError(r) \/ Timeout(r)
        \/ CommitStamp(r) \/ CommitCancel(r) \/ Mark(r) \/ Release(r)

Start(r) == Deny(r) \/ Refuse(r) \/ AcceptNew(r) \/ AcceptRetry(r)
                \/ AcceptReconcile(r)

(* Every request has ended: the instance has no more work.                  *)
Idle == (\A r \in Requests : pc[r] \in Ended) /\ UNCHANGED vars

Next ==
    \/ \E r \in Requests : Start(r) \/ Resolve(r) \/ Abort(r)
    \/ \E r \in Lockers : Operate(r) \/ CommitFails(r) \/ PacDecides(r)
    \/ Idle

(* A handler that was started runs on: the event loop resumes it after each *)
(* await, and the wait for the PAC is bounded by the AbortController timer. *)
Fairness ==
    /\ \A r \in Requests : WF_vars(Resolve(r))
    /\ \A r \in Lockers : WF_vars(Operate(r))

Spec == Init /\ [][Next]_vars /\ Fairness

-----------------------------------------------------------------------------
(* Properties.                                                              *)

(* Every variable has its type: rows, PAC outcomes, control points, targets *)
(* and snapshots.                                                           *)
TypeOK ==
    /\ invoice \in [Invoices -> Row]
    /\ pac \in [Lockers -> PacOutcomes]
    /\ pc \in [Requests -> Labels]
    /\ target \in [Requests -> Invoices]
    /\ snapshot \in [Requests -> Row]

(* A request between acquireInvoiceProcessingLock and the end of its        *)
(* handler still owns the row: no other request works on the invoice, the   *)
(* row names its operation, and no reconciliation of the row is under way   *)
(* (acquireInvoiceProcessingLock, clearPendingInvoiceOperationState and     *)
(* finalizeReconciledInvoice, which update by id alone).                    *)
LockExclusive ==
    \A r \in Requests : pc[r] \in Working =>
        /\ invoice[target[r]].op = r
        /\ \A q \in Requests \ {r} : target[q] = target[r] =>
               pc[q] \notin Working \cup Resolving

(* The PAC applies at most one stamp and at most one cancellation for an    *)
(* invoice, whatever timed out, crashed or was retried.                     *)
NoDoubleEffect ==
    \A r, q \in Lockers :
        /\ target[r] = target[q]
        /\ ActionOf(r) = ActionOf(q)
        /\ pac[r] = "applied"
        /\ pac[q] = "applied"
        => r = q

(* What the PAC has applied, or may still apply, is never forgotten: the    *)
(* row already records it, or the lock still names the operation so that a  *)
(* retry or a reconciliation can find it.                                   *)
PacEffectTracked ==
    \A r \in Lockers : pac[r] \in {"sent", "applied"} =>
        \/ invoice[target[r]].op = r
        \/ r \in StampRequests /\ invoice[target[r]].ref = r
        \/ r \in CancelRequests /\ invoice[target[r]].cancelRef # "NONE"

(* The row never claims more than the PAC did: a reference belongs to a     *)
(* stamp the PAC applied to this invoice, a PAC cancellation reference to   *)
(* an applied cancellation.                                                 *)
RowBackedByPac ==
    \A i \in Invoices :
        /\ invoice[i].status = "STAMPED" => invoice[i].ref # NoRequest
        /\ invoice[i].ref # NoRequest =>
               pac[invoice[i].ref] = "applied" /\ target[invoice[i].ref] = i
        /\ invoice[i].cancelRef = "PAC" =>
               \E r \in CancelRequests : target[r] = i /\ pac[r] = "applied"

(* A row waits for confirmation only for an operation that was sent to the  *)
(* PAC and whose own handler has ended, so the reconciliation that          *)
(* overwrites the row cannot collide with that handler.                     *)
ConfirmationIsOver ==
    \A i \in Invoices : invoice[i].confirm =>
        pac[invoice[i].op] # "none" /\ pc[invoice[i].op] = "done"

(* The status only moves DRAFT -> STAMPED -> CANCELLED or DRAFT ->          *)
(* CANCELLED, and a PAC reference is never replaced or lost, although the   *)
(* updates that write them carry no condition on the status they overwrite. *)
StatusMovesForward ==
    [][\A i \in Invoices :
          /\ invoice[i].status = "CANCELLED" => invoice'[i].status = "CANCELLED"
          /\ invoice[i].status = "STAMPED" => invoice'[i].status # "DRAFT"
          /\ invoice[i].ref # NoRequest => invoice'[i].ref = invoice[i].ref
      ]_vars

(* Only an abort leaves a lock that nothing can resolve: whatever path a    *)
(* handler ends on, and whoever else resolved, released or retook its lock  *)
(* meanwhile, a row that still names its operation asks for confirmation    *)
(* (the catch blocks of stampInvoice and cancelInvoice).                    *)
AbandonedOnlyByAbort ==
    \A i \in Invoices :
        invoice[i].op # NoRequest /\ pc[invoice[i].op] \in Ended =>
            invoice[i].confirm \/ pc[invoice[i].op] = "aborted"

(* A lock does not outlive its handler silently: it is released, or its     *)
(* operation is left for reconciliation, unless the handler was aborted.    *)
LockSettles ==
    \A r \in Lockers :
        (invoice[target[r]].op = r)
            ~> \/ invoice[target[r]].op # r
               \/ invoice[target[r]].confirm
               \/ pc[r] = "aborted"

-----------------------------------------------------------------------------
(* Properties the repository's documents state and the code does not keep.  *)

(* A cancelled invoice that was stamped was cancelled at the PAC as well.   *)
CancelReachesPac ==
    \A i \in Invoices :
        invoice[i].status = "CANCELLED" /\ invoice[i].ref # NoRequest =>
            \E r \in CancelRequests : target[r] = i /\ pac[r] = "applied"

(* What the code would have to ensure for that, and does not: a cancel      *)
(* takes the lock only of a row that has still the status it read.          *)
CancelsLockWhatTheyRead ==
    [][\A r \in CancelRequests :
          Acquire(r) => invoice[target[r]].status = snapshot[r].status]_vars

(* A lock whose handler has ended can be resolved: the row offers its       *)
(* operation to POST /invoices/reconcile.                                   *)
AbandonedLockReconcilable ==
    \A i \in Invoices :
        invoice[i].op # NoRequest /\ pc[invoice[i].op] \in Ended =>
            invoice[i].confirm

=============================================================================
