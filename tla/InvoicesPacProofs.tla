--------------------------- MODULE InvoicesPacProofs ---------------------------
(***************************************************************************)
(* Theorems that relate the invoice row to the PAC: what the row claims is *)
(* backed, what the PAC did is tracked, and it does everything once.       *)
(***************************************************************************)
EXTENDS InvoicesProofs, Naturals

-----------------------------------------------------------------------------
(* Where the handler is tells what the PAC can have done with its request.  *)

Unsent == {"read", "lock", "validate", "call"} \cup Resolving

PcPac ==
    \A r \in Lockers :
        /\ pc[r] \in Unsent => pac[r] = "none"
        /\ pc[r] \in {"wait", "mark"} => pac[r] # "none"
        /\ pc[r] = "commit" =>
              pac[r] = "applied" \/ (r \in CancelRequests /\ pac[r] = "none")
        /\ pc[r] = "release" =>
              pac[r] \in {"none", "rejected"} \/ "ambiguous" \in Faults

LEMMA PcPacInit == Init => PcPac
BY DEF Init, PcPac, Requests

(* What one step may do to a request's label, as far as PcPac sees it.      *)
LEMMA PcPacMove ==
    ASSUME TypeInv, PcPac, NEW r \in Requests, NEW label \in Labels,
           Goto(r, label), UNCHANGED pac,
           r \in Lockers =>
              \/ label \in Ended
              \/ label \in Unsent /\ pc[r] \in Unsent
              \/ label = "mark" /\ pc[r] = "wait"
              \/ label = "commit" /\ pac[r] = "applied"
              \/ label = "commit" /\ r \in CancelRequests /\ pc[r] = "call"
              \/ label = "release" /\
                    (pac[r] \in {"none", "rejected"} \/ "ambiguous" \in Faults)
    PROVE  PcPac'
<1>1. \A q \in Requests : pc'[q] = IF q = r THEN label ELSE pc[q]
  BY DEF Goto, TypeInv, TypeOK
<1>2. \A q \in Lockers : q \in Requests
  BY DEF Requests
<1>3. ASSUME NEW q \in Lockers, q # r
      PROVE  pc'[q] = pc[q] /\ pac'[q] = pac[q]
  BY <1>1, <1>2, <1>3
<1>4. CASE r \in Lockers
  <2>1. /\ label \in Unsent => pac[r] = "none"
        /\ label \in {"wait", "mark"} => pac[r] # "none"
        /\ label = "commit" =>
              pac[r] = "applied" \/ (r \in CancelRequests /\ pac[r] = "none")
        /\ label = "release" =>
              pac[r] \in {"none", "rejected"} \/ "ambiguous" \in Faults
    BY <1>4 DEF PcPac, Unsent, Ended, Resolving
  <2> QED
    BY <1>1, <1>2, <1>3, <2>1 DEF PcPac
<1>5. CASE r \notin Lockers
  BY <1>3, <1>5 DEF PcPac
<1> QED
  BY <1>4, <1>5

LEMMA PcPacStep == TypeInv /\ PcPac /\ [Next]_vars => PcPac'
<1> SUFFICES ASSUME TypeInv, PcPac, [Next]_vars PROVE PcPac'
  OBVIOUS
<1> USE DEF End, Advance, Labels, Resolving, Working, Ended, Unsent
<1>1. ASSUME NEW r \in Requests, Start(r) PROVE PcPac'
  <2>1. PICK label \in {"lock", "query", "clear", "finalize", "done"} :
            Begin(r) /\ Goto(r, label)
    BY <1>1 DEF Start, Deny, Refuse, AcceptNew, AcceptRetry, AcceptReconcile, Accept
  <2> QED
    BY <2>1, PcPacMove DEF Begin
<1>2. ASSUME NEW r \in Requests, Resolve(r) PROVE PcPac'
  <2>1. PICK label \in {"clear", "finalize", "done"} :
            pc[r] \in Resolving /\ Goto(r, label) /\ UNCHANGED pac
    BY <1>2 DEF Resolve, QueryInconclusive, QueryAnswer, Clear, FinalizeStamp,
                FinalizeCancel
  <2> QED
    BY <2>1, PcPacMove
<1>3. ASSUME NEW r \in Requests, Abort(r) PROVE PcPac'
  BY <1>3, PcPacMove DEF Abort
<1>4. ASSUME NEW r \in Lockers, CommitFails(r) PROVE PcPac'
  BY <1>4, PcPacMove DEF CommitFails, PacCompleted, Requests
<1>5. ASSUME NEW r \in Lockers, Operate(r) PROVE PcPac'
  <2>0. r \in Requests /\ (r \notin StampRequests => r \in CancelRequests)
    BY DEF Requests, Lockers
  <2>1. CASE Acquire(r) \/ LockRefused(r)
    BY <2>0, <2>1, PcPacMove DEF Acquire, LockRefused
  <2>2. CASE Validate(r)
    BY <2>0, <2>2, PcPacMove DEF Validate, PcPac
  <2>3. CASE SkipPac(r) \/ NotConfigured(r)
    BY <2>0, <2>3, PcPacMove DEF SkipPac, NotConfigured, CallsPac, PcPac
  <2>4. CASE Send(r)
    <3>1. /\ pac' = [pac EXCEPT ![r] = "sent"]
          /\ \A q \in Lockers : pc'[q] = IF q = r THEN "wait" ELSE pc[q]
      BY <2>0, <2>4 DEF Send, Goto, TypeInv, TypeOK, Requests
    <3> QED
      BY <3>1 DEF PcPac, TypeInv, TypeOK
  <2>5. CASE Replied(r) \/ RepliedError(r) \/ Timeout(r)
    BY <2>0, <2>5, PcPacMove DEF Replied, RepliedError, Timeout
  <2>6. CASE CommitStamp(r) \/ CommitCancel(r) \/ Mark(r) \/ Release(r)
    BY <2>0, <2>6, PcPacMove DEF CommitStamp, CommitCancel, Mark, Release
  <2> QED
    BY <1>5, <2>1, <2>2, <2>3, <2>4, <2>5, <2>6 DEF Operate
<1>6. ASSUME NEW r \in Lockers, PacDecides(r) PROVE PcPac'
  BY <1>6 DEF PacDecides, PcPac, TypeInv, TypeOK
<1>7. CASE UNCHANGED vars
  BY <1>7 DEF vars, PcPac
<1> QED
  BY <1>1, <1>2, <1>3, <1>4, <1>5, <1>6, <1>7 DEF Next, Idle

-----------------------------------------------------------------------------
(* What one step may do to a row, and from where.                           *)

StampSource(i, o) ==
    \/ o \in StampRequests /\ pc[o] = "commit" /\ target[o] = i
    \/ \E r \in Requests : /\ pc[r] = "finalize" /\ target[r] = i
                           /\ snapshot[r].action = "STAMP" /\ snapshot[r].op = o

CancelSource(i, source) ==
    \/ \E r \in CancelRequests :
          /\ pc[r] = "commit" /\ target[r] = i
          /\ source = IF PacCompleted(r) THEN "PAC" ELSE "LOCAL"
    \/ \E r \in Requests : /\ pc[r] = "finalize" /\ target[r] = i
                           /\ snapshot[r].action = "CANCEL"

UnlockSource(i) ==
    \E r \in Requests : /\ target[r] = i
                        /\ pc[r] = "clear" \/ (r \in Lockers /\ pc[r] = "release")

RowStep(i) ==
    \/ invoice'[i] = invoice[i]
    \/ UnlockSource(i) /\ invoice'[i] = Unlocked(invoice[i])
    \/ \E r \in Lockers : /\ target[r] = i
                          /\ Lockable(invoice[i], r)
                          /\ pc[r] = "lock" /\ pc'[r] \in Working
                          /\ invoice'[i] = Locked(invoice[i], r)
    \/ \E r \in Lockers : /\ invoice[i].op = r /\ pc[r] = "mark" /\ pc'[r] = "done"
                          /\ invoice'[i] = [invoice[i] EXCEPT !.confirm = TRUE]
    \/ \E o \in StampRequests : StampSource(i, o) /\ invoice'[i] = Stamped(invoice[i], o)
    \/ \E source \in {"LOCAL", "PAC"} :
          CancelSource(i, source) /\ invoice'[i] = Cancelled(invoice[i], source)

LEMMA RowSteps ==
    ASSUME TypeInv, [Next]_vars, NEW i \in Invoices
    PROVE  RowStep(i) /\ target' = target
<1> USE DEF TypeInv, TypeOK
<1>1. ASSUME NEW r \in Requests, Start(r) \/ Abort(r)
      PROVE  UNCHANGED <<invoice, target>>
  BY <1>1 DEF Start, Begin, Deny, Refuse, Accept, AcceptNew, AcceptRetry,
              AcceptReconcile, Abort
<1>2. ASSUME NEW r \in Requests, Resolve(r) PROVE RowStep(i) /\ target' = target
  <2>1. CASE QueryInconclusive(r) \/ QueryAnswer(r)
    BY <2>1 DEF QueryInconclusive, QueryAnswer, RowStep
  <2>2. CASE Clear(r)
    BY <2>2 DEF Clear, Write, RowStep, UnlockSource
  <2>3. CASE FinalizeStamp(r)
    <3>1. snapshot[r].op \in StampRequests
      BY <2>3 DEF FinalizeStamp, Coherent, Row, ActionOf
    <3> QED
      BY <2>3, <3>1 DEF FinalizeStamp, Write, RowStep, StampSource
  <2>4. CASE FinalizeCancel(r)
    BY <2>4 DEF FinalizeCancel, Write, RowStep, CancelSource
  <2> QED
    BY <1>2, <2>1, <2>2, <2>3, <2>4 DEF Resolve
<1>3. ASSUME NEW r \in Lockers, Operate(r) PROVE RowStep(i) /\ target' = target
  <2>0. r \in Requests
    BY DEF Requests
  <2>1. CASE Acquire(r)
    <3>1. pc'[r] \in Working
      BY <2>0, <2>1 DEF Acquire, Advance, Goto, Working
    <3> QED
      BY <2>0, <2>1, <3>1 DEF Acquire, Write, RowStep
  <2>2. CASE \/ LockRefused(r) \/ Validate(r) \/ SkipPac(r) \/ Send(r)
             \/ NotConfigured(r) \/ Replied(r) \/ RepliedError(r) \/ Timeout(r)
    BY <2>2 DEF LockRefused, Validate, SkipPac, Send, NotConfigured, Replied,
                RepliedError, Timeout, RowStep
  <2>3. CASE CommitStamp(r)
    BY <2>0, <2>3 DEF CommitStamp, Write, RowStep, StampSource
  <2>4. CASE CommitCancel(r)
    BY <2>0, <2>4 DEF CommitCancel, Write, RowStep, CancelSource
  <2>5. CASE Mark(r)
    <3>1. pc'[r] = "done"
      BY <2>0, <2>5 DEF Mark, End, Goto
    <3> QED
      BY <2>0, <2>5, <3>1 DEF Mark, Write, RowStep
  <2>6. CASE Release(r)
    BY <2>0, <2>6 DEF Release, Write, RowStep, UnlockSource
  <2> QED
    BY <1>3, <2>1, <2>2, <2>3, <2>4, <2>5, <2>6 DEF Operate
<1>4. ASSUME NEW r \in Lockers, CommitFails(r) \/ PacDecides(r)
      PROVE  UNCHANGED <<invoice, target>>
  BY <1>4 DEF CommitFails, PacDecides
<1>5. CASE UNCHANGED <<invoice, target>>
  BY <1>5 DEF RowStep
<1> QED
  BY <1>1, <1>2, <1>3, <1>4, <1>5 DEF Next, Idle, vars

(* The facts about the updates, as they show in the next row.               *)
LEMMA UnlockedRow ==
    ASSUME TypeInv, NEW i \in Invoices, invoice'[i] = Unlocked(invoice[i])
    PROVE  /\ invoice'[i].op = NoRequest
           /\ invoice'[i].confirm = FALSE
           /\ invoice'[i].status = invoice[i].status
           /\ invoice'[i].ref = invoice[i].ref
           /\ invoice'[i].cancelRef = invoice[i].cancelRef
<1> DEFINE new == Unlocked(invoice[i])
<1>1. invoice[i] \in Row
  BY DEF TypeInv, TypeOK
<1>2. /\ new.op = NoRequest
      /\ new.confirm = FALSE
      /\ new.status = invoice[i].status
      /\ new.ref = invoice[i].ref
      /\ new.cancelRef = invoice[i].cancelRef
  BY <1>1, UnlockedFacts
<1> QED
  BY <1>2

LEMMA LockedRow ==
    ASSUME TypeInv, NEW i \in Invoices, NEW r \in Lockers,
           invoice'[i] = Locked(invoice[i], r)
    PROVE  /\ invoice'[i].op = r
           /\ invoice'[i].confirm = FALSE
           /\ invoice'[i].status = invoice[i].status
           /\ invoice'[i].ref = invoice[i].ref
           /\ invoice'[i].cancelRef = invoice[i].cancelRef
<1> DEFINE new == Locked(invoice[i], r)
<1>1. invoice[i] \in Row
  BY DEF TypeInv, TypeOK
<1>2. /\ new.op = r
      /\ new.confirm = FALSE
      /\ new.status = invoice[i].status
      /\ new.ref = invoice[i].ref
      /\ new.cancelRef = invoice[i].cancelRef
  BY <1>1, LockedFacts
<1> QED
  BY <1>2

LEMMA StampedRow ==
    ASSUME TypeInv, NEW i \in Invoices, NEW o \in StampRequests,
           invoice'[i] = Stamped(invoice[i], o)
    PROVE  /\ invoice'[i].op = NoRequest
           /\ invoice'[i].confirm = FALSE
           /\ invoice'[i].status = "STAMPED"
           /\ invoice'[i].ref = o
           /\ invoice'[i].cancelRef = invoice[i].cancelRef
<1> DEFINE new == Stamped(invoice[i], o)
<1>1. invoice[i] \in Row
  BY DEF TypeInv, TypeOK
<1>2. /\ new.op = NoRequest
      /\ new.confirm = FALSE
      /\ new.status = "STAMPED"
      /\ new.ref = o
      /\ new.cancelRef = invoice[i].cancelRef
  BY <1>1, StampedFacts
<1> QED
  BY <1>2

LEMMA CancelledRow ==
    ASSUME TypeInv, NEW i \in Invoices, NEW source \in {"LOCAL", "PAC"},
           invoice'[i] = Cancelled(invoice[i], source)
    PROVE  /\ invoice'[i].op = NoRequest
           /\ invoice'[i].confirm = FALSE
           /\ invoice'[i].status = "CANCELLED"
           /\ invoice'[i].ref = invoice[i].ref
           /\ invoice'[i].cancelRef = source
<1> DEFINE new == Cancelled(invoice[i], source)
<1>1. invoice[i] \in Row
  BY DEF TypeInv, TypeOK
<1>2. /\ new.op = NoRequest
      /\ new.confirm = FALSE
      /\ new.status = "CANCELLED"
      /\ new.ref = invoice[i].ref
      /\ new.cancelRef = source
  BY <1>1, CancelledFacts
<1> QED
  BY <1>2

LEMMA ConfirmedRow ==
    ASSUME TypeInv, NEW i \in Invoices,
           invoice'[i] = [invoice[i] EXCEPT !.confirm = TRUE]
    PROVE  /\ invoice'[i].op = invoice[i].op
           /\ invoice'[i].status = invoice[i].status
           /\ invoice'[i].ref = invoice[i].ref
           /\ invoice'[i].cancelRef = invoice[i].cancelRef
<1>1. invoice[i] \in Row
  BY DEF TypeInv, TypeOK
<1> QED
  BY <1>1, ConfirmedFacts

(* A step moves at most one request, which had not ended, and the PAC never *)
(* forgets an operation or takes back its decision.                         *)
LEMMA Moves ==
    ASSUME TypeInv, [Next]_vars
    PROVE  /\ \A q \in Requests : pc[q] \in Ended => pc'[q] = pc[q]
           /\ \A o \in Lockers :
                 /\ pac[o] # "none" => pac'[o] # "none"
                 /\ pac[o] \in {"applied", "rejected", "lost"} =>
                       pac'[o] = pac[o] \/ pc[o] = "call"
                 /\ pac'[o] \in {"sent", "applied"} =>
                       \/ pac[o] \in {"sent", "applied"}
                       \/ pc[o] = "call" /\ UNCHANGED invoice
<1> USE DEF TypeInv, TypeOK
<1>1. ASSUME NEW r \in Requests, NEW label, pc[r] \notin Ended, Goto(r, label),
             \/ UNCHANGED pac
             \/ /\ pc[r] = "call" /\ UNCHANGED invoice
                /\ pac' = [pac EXCEPT ![r] = "sent"]
      PROVE  /\ \A q \in Requests : pc[q] \in Ended => pc'[q] = pc[q]
             /\ \A o \in Lockers :
                   /\ pac[o] # "none" => pac'[o] # "none"
                   /\ pac[o] \in {"applied", "rejected", "lost"} =>
                         pac'[o] = pac[o] \/ pc[o] = "call"
                   /\ pac'[o] \in {"sent", "applied"} =>
                         \/ pac[o] \in {"sent", "applied"}
                         \/ pc[o] = "call" /\ UNCHANGED invoice
  BY <1>1 DEF Goto
<1>2. ASSUME NEW r \in Requests, Start(r) \/ Resolve(r) \/ Abort(r)
      PROVE  /\ pc[r] \notin Ended /\ UNCHANGED pac
             /\ \E label : Goto(r, label)
  <2>1. CASE Start(r)
    BY <2>1 DEF Start, Begin, Deny, Refuse, Accept, AcceptNew, AcceptRetry,
                AcceptReconcile, End, Ended
  <2>2. CASE Resolve(r)
    BY <2>2 DEF Resolve, QueryInconclusive, QueryAnswer, Clear, FinalizeStamp,
                FinalizeCancel, End, Advance, Ended
  <2>3. CASE Abort(r)
    BY <2>3 DEF Abort, End
  <2> QED
    BY <1>2, <2>1, <2>2, <2>3
<1>3. ASSUME NEW r \in Lockers, Operate(r) \/ CommitFails(r)
      PROVE  /\ pc[r] \notin Ended
             /\ \/ UNCHANGED pac
                \/ /\ pc[r] = "call" /\ UNCHANGED invoice
                   /\ pac' = [pac EXCEPT ![r] = "sent"]
             /\ \E label : Goto(r, label)
  <2>1. CASE Acquire(r) \/ LockRefused(r) \/ Validate(r) \/ SkipPac(r)
    BY <2>1 DEF Acquire, LockRefused, Validate, SkipPac, End, Advance, Ended
  <2>2. CASE Send(r) \/ NotConfigured(r) \/ Replied(r) \/ RepliedError(r) \/ Timeout(r)
    BY <2>2 DEF Send, NotConfigured, Replied, RepliedError, Timeout, Advance, Ended
  <2>3. CASE CommitStamp(r) \/ CommitCancel(r) \/ Mark(r) \/ Release(r)
    BY <2>3 DEF CommitStamp, CommitCancel, Mark, Release, End, Ended
  <2>4. CASE CommitFails(r)
    BY <2>4 DEF CommitFails, End, Advance, Ended
  <2> QED
    BY <1>3, <2>1, <2>2, <2>3, <2>4 DEF Operate
<1>4. ASSUME NEW r \in Lockers, PacDecides(r)
      PROVE  /\ pc' = pc
             /\ \A o \in Lockers :
                   /\ pac[o] # "none" => pac'[o] # "none"
                   /\ pac[o] \in {"applied", "rejected", "lost"} => pac'[o] = pac[o]
                   /\ pac'[o] \in {"sent", "applied"} => pac[o] = "sent"
                         \/ pac[o] = "applied"
  BY <1>4 DEF PacDecides
<1>5. \A r \in Lockers : r \in Requests
  BY DEF Requests
<1> QED
  BY <1>1, <1>2, <1>3, <1>4, <1>5 DEF Next, Idle, vars

-----------------------------------------------------------------------------
(* The status a locked row has, and the columns that go with a status.      *)

StatusInv ==
    \A i \in Invoices :
        /\ invoice[i].op # NoRequest =>
              /\ target[invoice[i].op] = i
              /\ invoice[i].status \in LockableStatuses(invoice[i].op)
        /\ invoice[i].status = "DRAFT" => invoice[i].ref = NoRequest
        /\ invoice[i].status = "CANCELLED" => invoice[i].cancelRef # "NONE"

LEMMA StatusInit == Init => StatusInv
BY NewRowFacts DEF Init, StatusInv

LEMMA StatusStep == TypeInv /\ StatusInv /\ [Next]_vars => StatusInv'
<1> SUFFICES ASSUME TypeInv, StatusInv, [Next]_vars, NEW i \in Invoices
             PROVE  /\ invoice'[i].op # NoRequest =>
                          /\ target'[invoice'[i].op] = i
                          /\ invoice'[i].status \in LockableStatuses(invoice'[i].op)
                    /\ invoice'[i].status = "DRAFT" => invoice'[i].ref = NoRequest
                    /\ invoice'[i].status = "CANCELLED" => invoice'[i].cancelRef # "NONE"
  BY DEF StatusInv, LockableStatuses
<1>1. RowStep(i) /\ target' = target
  BY RowSteps
<1>2. invoice[i] \in Row
  BY DEF TypeInv, TypeOK
<1> USE DEF StatusInv
<1>3. CASE invoice'[i] = invoice[i]
  BY <1>1, <1>3
<1>4. CASE invoice'[i] = Unlocked(invoice[i])
  BY <1>1, <1>4, UnlockedRow
<1>5. ASSUME NEW r \in Lockers, target[r] = i, Lockable(invoice[i], r),
             invoice'[i] = Locked(invoice[i], r)
      PROVE  /\ invoice'[i].op = r /\ target'[r] = i
             /\ invoice'[i].status = invoice[i].status
             /\ invoice[i].status \in LockableStatuses(r)
             /\ invoice'[i].ref = invoice[i].ref
             /\ invoice'[i].cancelRef = invoice[i].cancelRef
  BY <1>1, <1>5, LockedRow DEF Lockable
<1>6. CASE invoice'[i] = [invoice[i] EXCEPT !.confirm = TRUE]
  BY <1>1, <1>6, ConfirmedRow
<1>7. ASSUME NEW o \in StampRequests, StampSource(i, o),
             invoice'[i] = Stamped(invoice[i], o)
      PROVE  invoice'[i].op = NoRequest /\ invoice'[i].status = "STAMPED"
  BY <1>7, StampedRow
<1>8. ASSUME NEW source \in {"LOCAL", "PAC"},
             invoice'[i] = Cancelled(invoice[i], source)
      PROVE  /\ invoice'[i].op = NoRequest /\ invoice'[i].status = "CANCELLED"
             /\ invoice'[i].cancelRef # "NONE"
  BY <1>8, CancelledRow
<1> QED
  BY <1>1, <1>3, <1>4, <1>5, <1>6, <1>7, <1>8 DEF RowStep

(* With the lock exclusive, whoever stamps or cancels a row does it for the *)
(* operation that has the lock, in a status that operation may lock.        *)
LEMMA SourceHolds ==
    ASSUME TypeInv, LockInv, StatusInv, NEW i \in Invoices
    PROVE  /\ \A o \in StampRequests : StampSource(i, o) =>
                 invoice[i].op = o /\ invoice[i].status = "DRAFT"
           /\ \A source \in {"LOCAL", "PAC"} : CancelSource(i, source) =>
                 /\ invoice[i].op \in CancelRequests
                 /\ invoice[i].status \in {"DRAFT", "STAMPED"}
<1>0. invoice[i] \in Row /\ Coherent(invoice[i])
  BY DEF TypeInv, TypeOK
<1>1. ASSUME NEW o \in StampRequests, StampSource(i, o)
      PROVE  invoice[i].op = o /\ invoice[i].status = "DRAFT"
  <2>1. invoice[i].op = o
    BY <1>1 DEF StampSource, LockInv, Holds, Resolves, Working, Resolving,
                Requests, Lockers
  <2> QED
    BY <2>1, RequestsAssumption DEF StatusInv, LockableStatuses, Requests, Lockers
<1>2. ASSUME NEW source \in {"LOCAL", "PAC"}, CancelSource(i, source)
      PROVE  /\ invoice[i].op \in CancelRequests
             /\ invoice[i].status \in {"DRAFT", "STAMPED"}
  <2>1. invoice[i].op # NoRequest /\ invoice[i].action = "CANCEL"
    <3>1. CASE \E r \in CancelRequests : pc[r] = "commit" /\ target[r] = i
      BY <1>0, <3>1, RequestsAssumption
      DEF LockInv, Holds, Working, Requests, Lockers, Coherent, ActionOf
    <3>2. CASE \E r \in Requests : /\ pc[r] = "finalize" /\ target[r] = i
                                   /\ snapshot[r].action = "CANCEL"
      BY <1>0, <3>2 DEF LockInv, Resolves, Resolving, Coherent
    <3> QED
      BY <1>2, <3>1, <3>2 DEF CancelSource
  <2>2. invoice[i].op \in CancelRequests
    BY <1>0, <2>1 DEF Coherent, ActionOf, Row, Lockers
  <2> QED
    BY <2>1, <2>2, RequestsAssumption DEF StatusInv, LockableStatuses
<1> QED
  BY <1>1, <1>2

(* While unconfirmed operations are resolved one at a time, no step takes   *)
(* an invoice back to an earlier status or replaces its PAC reference,      *)
(* although the updates that write them name only the invoice id.           *)
THEOREM OnlyForward ==
    ASSUME "overlap" \notin Faults
    PROVE  Spec => StatusMovesForward
<1> DEFINE
      Forward(i) ==
          /\ invoice[i].status = "CANCELLED" => invoice'[i].status = "CANCELLED"
          /\ invoice[i].status = "STAMPED" => invoice'[i].status # "DRAFT"
          /\ invoice[i].ref # NoRequest => invoice'[i].ref = invoice[i].ref
      Inv == TypeInv /\ LockInv /\ StatusInv
<1>1. Init => Inv
  BY TypeInit, StatusInit, LabelFacts DEF Init, LockInv
<1>2. Inv /\ [Next]_vars => Inv'
  BY TypeStep, LockStep, StatusStep
<1>3. Inv /\ [Next]_vars => [\A i \in Invoices : Forward(i)]_vars
  <2> SUFFICES ASSUME Inv, [Next]_vars, NEW i \in Invoices PROVE Forward(i)
    OBVIOUS
  <2>1. RowStep(i) /\ invoice[i] \in Row
    BY RowSteps DEF TypeInv, TypeOK
  <2>2. CASE \/ invoice'[i] = invoice[i]
             \/ invoice'[i] = Unlocked(invoice[i])
             \/ invoice'[i] = [invoice[i] EXCEPT !.confirm = TRUE]
    BY <2>2, UnlockedRow, ConfirmedRow
  <2>3. ASSUME NEW r \in Lockers, invoice'[i] = Locked(invoice[i], r)
        PROVE  Forward(i)
    BY <2>3, LockedRow
  <2>4. ASSUME NEW o \in StampRequests, StampSource(i, o),
               invoice'[i] = Stamped(invoice[i], o)
        PROVE  Forward(i)
    <3>1. invoice[i].status = "DRAFT" /\ invoice[i].ref = NoRequest
      BY <2>4, SourceHolds DEF StatusInv
    <3> QED
      BY <2>4, <3>1, StampedRow
  <2>5. ASSUME NEW source \in {"LOCAL", "PAC"},
               invoice'[i] = Cancelled(invoice[i], source)
        PROVE  Forward(i)
    BY <2>5, CancelledRow, SourceHolds
  <2> QED
    BY <2>1, <2>2, <2>3, <2>4, <2>5 DEF RowStep
<1> QED
  BY <1>1, <1>2, <1>3, PTL DEF Spec, StatusMovesForward

-----------------------------------------------------------------------------
(* A row waits for confirmation only when its handler has ended.            *)

LEMMA ConfirmStep ==
    TypeInv /\ PcPac /\ ConfirmationIsOver /\ [Next]_vars => ConfirmationIsOver'
<1> SUFFICES ASSUME TypeInv, PcPac, ConfirmationIsOver, [Next]_vars,
                    NEW i \in Invoices, invoice'[i].confirm
             PROVE  pac'[invoice'[i].op] # "none" /\ pc'[invoice'[i].op] = "done"
  BY DEF ConfirmationIsOver
<1>0. RowStep(i) /\ invoice[i] \in Row /\ Coherent(invoice[i])
  BY RowSteps DEF TypeInv, TypeOK
<1>1. /\ \A o \in Lockers : pc[o] = "done" => pc'[o] = "done"
      /\ \A o \in Lockers : pac[o] # "none" => pac'[o] # "none"
  BY Moves DEF Ended, Requests
<1>2. CASE invoice'[i] = invoice[i]
  BY <1>0, <1>1, <1>2 DEF ConfirmationIsOver, Coherent, Row
<1>3. CASE invoice'[i] = Unlocked(invoice[i])
  BY <1>3, UnlockedRow
<1>4. ASSUME NEW r \in Lockers, invoice'[i] = Locked(invoice[i], r) PROVE FALSE
  BY <1>4, LockedRow
<1>5. ASSUME NEW r \in Lockers, invoice[i].op = r, pc[r] = "mark", pc'[r] = "done",
             invoice'[i] = [invoice[i] EXCEPT !.confirm = TRUE]
      PROVE  invoice'[i].op = r /\ pac'[r] # "none"
  BY <1>1, <1>5, ConfirmedRow DEF PcPac
<1>6. ASSUME NEW o \in StampRequests, invoice'[i] = Stamped(invoice[i], o)
      PROVE  FALSE
  BY <1>6, StampedRow
<1>7. ASSUME NEW source \in {"LOCAL", "PAC"},
             invoice'[i] = Cancelled(invoice[i], source)
      PROVE  FALSE
  BY <1>7, CancelledRow
<1> QED
  BY <1>0, <1>2, <1>3, <1>4, <1>5, <1>6, <1>7 DEF RowStep

(* Under every fault, overlapping resolutions included, a row waits for     *)
(* confirmation only of an operation that was sent to the PAC and whose own *)
(* handler has ended.                                                       *)
THEOREM ConfirmationAfterHandler == Spec => []ConfirmationIsOver
<1>1. Init => TypeInv /\ PcPac /\ ConfirmationIsOver
  BY TypeInit, PcPacInit, NewRowFacts DEF Init, ConfirmationIsOver
<1>2. TypeInv /\ PcPac /\ ConfirmationIsOver /\ [Next]_vars
          => (TypeInv /\ PcPac /\ ConfirmationIsOver)'
  BY TypeStep, PcPacStep, ConfirmStep
<1> QED
  BY <1>1, <1>2, PTL DEF Spec

-----------------------------------------------------------------------------
(* What a request that resolves an operation knows stays true until it acts *)
(* on it: the PAC does not take back what it answered.                      *)

SnapOK(r) ==
    /\ snapshot[r].op # NoRequest => target[snapshot[r].op] = target[r]
    /\ pc[r] \in Resolving => snapshot[r].op # NoRequest
    /\ pc[r] = "clear" => pac[snapshot[r].op] \in {"rejected", "lost"}
    /\ pc[r] = "finalize" => pac[snapshot[r].op] = "applied"

SnapInv == \A r \in Requests : SnapOK(r)

LEMMA SnapFrame ==
    ASSUME TypeInv, PcPac, [Next]_vars, NEW q \in Requests, SnapOK(q),
           pc'[q] = pc[q], snapshot'[q] = snapshot[q]
    PROVE  SnapOK(q)'
<1>1. target' = target
  <2>1. target[q] \in Invoices
    BY DEF TypeInv, TypeOK
  <2> QED
    BY <2>1, RowSteps
<1>2. snapshot[q].op \in Lockers \cup {NoRequest}
  BY DEF TypeInv, TypeOK, Row
<1>3. ASSUME NEW o \in Lockers, pac[o] \in {"applied", "rejected", "lost"}
      PROVE  pac'[o] = pac[o]
  BY <1>3, Moves DEF PcPac, Unsent
<1> QED
  BY <1>1, <1>2, <1>3 DEF SnapOK, Resolving

(* A step of request r, given by where it goes and what it then remembers.  *)
LEMMA SnapMove ==
    ASSUME TypeInv, PcPac, SnapInv, StatusInv, [Next]_vars,
           NEW r \in Requests, NEW label, Goto(r, label),
           \/ label \in Ended /\ snapshot' = [snapshot EXCEPT ![r] = NewRow]
           \/ label \notin Resolving /\ UNCHANGED snapshot
           \/ /\ label \in {"lock"} \cup Resolving
              /\ snapshot' = [snapshot EXCEPT ![r] = invoice[target[r]]]
              /\ label \in Resolving => invoice[target[r]].op # NoRequest
              /\ label = "clear" =>
                    pac'[invoice[target[r]].op] \in {"rejected", "lost"}
              /\ label = "finalize" => pac'[invoice[target[r]].op] = "applied"
           \/ /\ UNCHANGED <<snapshot, pac>> /\ pc[r] = "query"
              /\ \/ label = "clear" /\ pac[snapshot[r].op] \in {"rejected", "lost"}
                 \/ label = "finalize" /\ pac[snapshot[r].op] = "applied"
    PROVE  SnapInv'
<1>1. ASSUME NEW q \in Requests, q # r PROVE SnapOK(q)'
  <2>1. pc'[q] = pc[q] /\ snapshot'[q] = snapshot[q]
    BY <1>1 DEF Goto, TypeInv, TypeOK
  <2> QED
    BY <2>1, SnapFrame DEF SnapInv
<1>2. pc'[r] = label /\ target' = target /\ target[r] \in Invoices
  <2>1. target[r] \in Invoices
    BY DEF TypeInv, TypeOK
  <2> QED
    BY <2>1, RowSteps DEF Goto, TypeInv, TypeOK
<1>3. SnapOK(r)'
  <2>3. CASE label \in Ended /\ snapshot' = [snapshot EXCEPT ![r] = NewRow]
    BY <1>2, <2>3, NewRowFacts, LabelFacts
    DEF SnapOK, TypeInv, TypeOK, Ended, Resolving
  <2>4. CASE label \notin Resolving /\ UNCHANGED snapshot
    BY <1>2, <2>4 DEF SnapOK, SnapInv, Resolving
  <2>5. CASE /\ label \in {"lock"} \cup Resolving
             /\ snapshot' = [snapshot EXCEPT ![r] = invoice[target[r]]]
             /\ label \in Resolving => invoice[target[r]].op # NoRequest
             /\ label = "clear" =>
                   pac'[invoice[target[r]].op] \in {"rejected", "lost"}
             /\ label = "finalize" => pac'[invoice[target[r]].op] = "applied"
    <3>1. snapshot'[r] = invoice[target[r]]
      BY <2>5 DEF TypeInv, TypeOK
    <3> QED
      BY <1>2, <2>5, <3>1 DEF SnapOK, StatusInv
  <2>6. CASE /\ UNCHANGED <<snapshot, pac>> /\ pc[r] = "query"
             /\ \/ label = "clear" /\ pac[snapshot[r].op] \in {"rejected", "lost"}
                \/ label = "finalize" /\ pac[snapshot[r].op] = "applied"
    BY <1>2, <2>6 DEF SnapOK, SnapInv, Resolving
  <2> QED
    BY <2>3, <2>4, <2>5, <2>6
<1> QED
  BY <1>1, <1>3 DEF SnapInv

LEMMA SnapStep ==
    ASSUME "misreport" \notin Faults
    PROVE  TypeInv /\ PcPac /\ StatusInv /\ SnapInv /\ [Next]_vars => SnapInv'
<1> SUFFICES ASSUME TypeInv, PcPac, StatusInv, SnapInv, [Next]_vars
             PROVE  SnapInv'
  OBVIOUS
<1>1. ASSUME NEW r \in Requests, Start(r) PROVE SnapInv'
  <2>1. CASE Deny(r) \/ Refuse(r)
    BY <2>1, SnapMove DEF Deny, Refuse, End, Ended
  <2>2. CASE AcceptNew(r)
    BY <2>2, SnapMove DEF AcceptNew, Accept, Resolving
  <2>3. CASE AcceptRetry(r)
    BY <2>3, SnapMove
    DEF AcceptRetry, Accept, OwnKindUnconfirmed, Unconfirmed, Resolving
  <2>4. CASE AcceptReconcile(r)
    <3>1. Unconfirmed(invoice[target[r]]) /\ UNCHANGED pac
      BY <2>4, RequestsAssumption
      DEF AcceptReconcile, Accept, Begin, Refusable, Lockers, Requests
    <3> QED
      BY <2>4, <3>1, SnapMove
      DEF AcceptReconcile, Accept, OperatorMayClaim, Unconfirmed, Resolving
  <2> QED
    BY <1>1, <2>1, <2>2, <2>3, <2>4 DEF Start
<1>2. ASSUME NEW r \in Requests, Resolve(r) PROVE SnapInv'
  <2>1. CASE QueryInconclusive(r) \/ Clear(r) \/ FinalizeStamp(r) \/ FinalizeCancel(r)
    BY <2>1, SnapMove
    DEF QueryInconclusive, Clear, FinalizeStamp, FinalizeCancel, End, Ended
  <2>2. CASE QueryAnswer(r)
    BY <2>2, SnapMove DEF QueryAnswer, Advance
  <2> QED
    BY <1>2, <2>1, <2>2 DEF Resolve
<1>3. ASSUME NEW r \in Requests, Abort(r) PROVE SnapInv'
  BY <1>3, SnapMove DEF Abort, End, Ended
<1>4. ASSUME NEW r \in Lockers, Operate(r) \/ CommitFails(r) PROVE SnapInv'
  <2>0. r \in Requests
    BY DEF Requests
  <2>1. CASE Acquire(r) \/ Validate(r) \/ SkipPac(r) \/ Send(r) \/ NotConfigured(r)
    BY <2>0, <2>1, SnapMove
    DEF Acquire, Validate, SkipPac, Send, NotConfigured, Advance, Resolving
  <2>2. CASE Replied(r) \/ RepliedError(r) \/ Timeout(r)
    BY <2>0, <2>2, SnapMove DEF Replied, RepliedError, Timeout, Advance, Resolving
  <2>3. CASE LockRefused(r) \/ CommitStamp(r) \/ CommitCancel(r) \/ Mark(r) \/ Release(r)
    BY <2>0, <2>3, SnapMove
    DEF LockRefused, CommitStamp, CommitCancel, Mark, Release, End, Ended
  <2>4. CASE CommitFails(r)
    BY <2>0, <2>4, SnapMove DEF CommitFails, End, Advance, Ended, Resolving
  <2> QED
    BY <1>4, <2>1, <2>2, <2>3, <2>4 DEF Operate
<1>5. CASE UNCHANGED <<pc, snapshot>>
  BY <1>5, SnapFrame DEF SnapInv
<1> QED
  BY <1>1, <1>2, <1>3, <1>4, <1>5 DEF Next, Idle, PacDecides, vars

LEMMA SnapInit == Init => SnapInv
BY NewRowFacts DEF Init, SnapInv, SnapOK, Resolving

-----------------------------------------------------------------------------
(* What the row claims of the PAC is true.                                  *)

BackInv == TypeInv /\ PcPac /\ StatusInv /\ SnapInv /\ RowBackedByPac

LEMMA BackStep ==
    ASSUME BackInv, [Next]_vars
    PROVE  RowBackedByPac'
<1> USE DEF BackInv
<1> SUFFICES ASSUME NEW i \in Invoices
             PROVE  /\ invoice'[i].status = "STAMPED" => invoice'[i].ref # NoRequest
                    /\ invoice'[i].ref # NoRequest =>
                          /\ pac'[invoice'[i].ref] = "applied"
                          /\ target'[invoice'[i].ref] = i
                    /\ invoice'[i].cancelRef = "PAC" =>
                          \E r \in CancelRequests : target'[r] = i /\ pac'[r] = "applied"
  BY DEF RowBackedByPac
<1>1. RowStep(i) /\ target' = target
  BY RowSteps
<1>2. ASSUME NEW o \in Lockers, pac[o] = "applied" PROVE pac'[o] = "applied"
  BY <1>2, Moves DEF PcPac, Unsent
<1>3. CASE /\ invoice'[i].status = invoice[i].status
           /\ invoice'[i].ref = invoice[i].ref
           /\ invoice'[i].cancelRef = invoice[i].cancelRef
  <2>1. invoice[i].ref \in StampRequests \cup {NoRequest}
    BY DEF TypeInv, TypeOK, Row
  <2> QED
    BY <1>1, <1>2, <1>3, <2>1 DEF RowBackedByPac, Lockers
<1>4. ASSUME NEW o \in StampRequests, StampSource(i, o),
             invoice'[i] = Stamped(invoice[i], o)
      PROVE  /\ invoice'[i].ref = o /\ invoice'[i].cancelRef = invoice[i].cancelRef
             /\ target[o] = i /\ pac[o] = "applied" /\ o # NoRequest
  <2>1. o # NoRequest /\ o \in Lockers /\ o \notin CancelRequests
    BY RequestsAssumption DEF Requests, Lockers
  <2>2. target[o] = i /\ pac[o] = "applied"
    BY <1>4, <2>1 DEF StampSource, SnapInv, SnapOK, PcPac
  <2> QED
    BY <1>4, <2>1, <2>2, StampedRow
<1>5. ASSUME NEW source \in {"LOCAL", "PAC"}, CancelSource(i, source),
             invoice'[i] = Cancelled(invoice[i], source)
      PROVE  /\ invoice'[i].status = "CANCELLED"
             /\ invoice'[i].ref = invoice[i].ref
             /\ invoice'[i].cancelRef = "PAC" =>
                   \E r \in CancelRequests : target[r] = i /\ pac[r] = "applied"
  <2>1. /\ invoice'[i].status = "CANCELLED"
        /\ invoice'[i].ref = invoice[i].ref
        /\ invoice'[i].cancelRef = source
    BY <1>5, CancelledRow
  <2>2. ASSUME NEW r \in CancelRequests, pc[r] = "commit", target[r] = i,
               source = IF PacCompleted(r) THEN "PAC" ELSE "LOCAL", source = "PAC"
        PROVE  target[r] = i /\ pac[r] = "applied"
    BY <2>2 DEF PcPac, PacCompleted, Lockers
  <2>3. ASSUME NEW r \in Requests, pc[r] = "finalize", target[r] = i,
               snapshot[r].action = "CANCEL"
        PROVE  \E c \in CancelRequests : target[c] = i /\ pac[c] = "applied"
    <3>1. SnapOK(r) /\ Coherent(snapshot[r]) /\ snapshot[r] \in Row
      BY DEF SnapInv, TypeInv, TypeOK
    <3>2. snapshot[r].op \in CancelRequests
      BY <2>3, <3>1 DEF Coherent, ActionOf, Row, Lockers
    <3> QED
      BY <2>3, <3>1, <3>2, RequestsAssumption DEF SnapOK, Requests, Lockers
  <2> QED
    BY <1>5, <2>1, <2>2, <2>3 DEF CancelSource
<1>6. CASE \E o \in StampRequests :
              StampSource(i, o) /\ invoice'[i] = Stamped(invoice[i], o)
  <2>1. PICK o \in StampRequests :
                 StampSource(i, o) /\ invoice'[i] = Stamped(invoice[i], o)
    BY <1>6
  <2>2. /\ invoice'[i].ref = o /\ invoice'[i].cancelRef = invoice[i].cancelRef
        /\ target[o] = i /\ pac[o] = "applied" /\ o # NoRequest
    BY <1>4, <2>1
  <2> QED
    BY <1>1, <1>2, <2>2 DEF RowBackedByPac, Lockers
<1>7. CASE \E source \in {"LOCAL", "PAC"} :
              CancelSource(i, source) /\ invoice'[i] = Cancelled(invoice[i], source)
  <2>1. /\ invoice'[i].status = "CANCELLED"
        /\ invoice'[i].ref = invoice[i].ref
        /\ invoice'[i].cancelRef = "PAC" =>
              \E r \in CancelRequests : target[r] = i /\ pac[r] = "applied"
    BY <1>5, <1>7
  <2>2. invoice[i].ref \in StampRequests \cup {NoRequest}
    BY DEF TypeInv, TypeOK, Row
  <2> QED
    BY <1>1, <1>2, <2>1, <2>2 DEF RowBackedByPac, Lockers
<1> QED
  BY <1>1, <1>3, <1>6, <1>7, UnlockedRow, LockedRow, ConfirmedRow DEF RowStep

(* As long as manual resolutions agree with the PAC, and even when          *)
(* resolutions overlap and answers are ambiguous, a stamped row carries the *)
(* reference of a stamp the PAC applied to that invoice, and a PAC          *)
(* cancellation reference belongs to a cancellation the PAC applied.        *)
THEOREM RowsAreBacked ==
    ASSUME "misreport" \notin Faults
    PROVE  Spec => []RowBackedByPac
<1>1. Init => BackInv
  BY TypeInit, PcPacInit, StatusInit, SnapInit, NewRowFacts
  DEF Init, BackInv, RowBackedByPac
<1>2. BackInv /\ [Next]_vars => BackInv'
  BY TypeStep, PcPacStep, StatusStep, SnapStep, BackStep DEF BackInv
<1>3. BackInv => RowBackedByPac
  BY DEF BackInv
<1> QED
  BY <1>1, <1>2, <1>3, PTL DEF Spec

-----------------------------------------------------------------------------
(* Nothing the PAC did is forgotten, so it never does anything twice.       *)

Live(r) == pac[r] \in {"sent", "applied"}

Tracked(r) ==
    \/ invoice[target[r]].op = r
    \/ r \in StampRequests /\ invoice[target[r]].ref = r
    \/ r \in CancelRequests /\ invoice[target[r]].status = "CANCELLED"

TrackInv ==
    /\ \A r \in Lockers : Live(r) => Tracked(r)
    /\ \A r, q \in CancelRequests :
          target[r] = target[q] /\ Live(r) /\ Live(q) => r = q

EffectInv == TypeInv /\ LockInv /\ PcPac /\ StatusInv /\ SnapInv /\ TrackInv

(* The lock is given up only by an operation the PAC has not applied and    *)
(* will not apply.                                                          *)
LEMMA UnlockIsSafe ==
    ASSUME "ambiguous" \notin Faults, EffectInv, NEW i \in Invoices,
           UnlockSource(i), NEW o \in Lockers, invoice[i].op = o
    PROVE  ~Live(o)
<1>1. PICK r \in Requests :
          /\ target[r] = i
          /\ pc[r] = "clear" \/ (r \in Lockers /\ pc[r] = "release")
  BY DEF UnlockSource
<1>2. CASE pc[r] = "clear"
  <2>1. Resolves(r) /\ SnapOK(r)
    BY <1>2 DEF EffectInv, LockInv, SnapInv, Resolving
  <2> QED
    BY <1>1, <1>2, <2>1 DEF Resolves, SnapOK, Live
<1>3. CASE r \in Lockers /\ pc[r] = "release"
  <2>1. Holds(r)
    BY <1>3 DEF EffectInv, LockInv, Working
  <2> QED
    BY <1>1, <1>3, <2>1 DEF Holds, EffectInv, PcPac, Live
<1> QED
  BY <1>1, <1>2, <1>3

LEMMA TrackedStays ==
    ASSUME "ambiguous" \notin Faults, EffectInv, [Next]_vars,
           NEW r \in Lockers, Live(r), Tracked(r)
    PROVE  Tracked(r)'
<1> DEFINE i == target[r]
<1> USE DEF EffectInv
<1>1. i \in Invoices /\ invoice[i] \in Row
  BY DEF TypeInv, TypeOK, Requests
<1>2. RowStep(i) /\ target' = target
  BY <1>1, RowSteps
<1>3. CASE /\ invoice'[i].op = invoice[i].op \/ invoice[i].op # r
           /\ invoice'[i].ref = invoice[i].ref
           /\ invoice'[i].status = invoice[i].status
  BY <1>2, <1>3 DEF Tracked
<1>4. CASE UnlockSource(i) /\ invoice'[i] = Unlocked(invoice[i])
  BY <1>1, <1>3, <1>4, UnlockedRow, UnlockIsSafe
<1>5. ASSUME NEW q \in Lockers, Lockable(invoice[i], q),
             invoice'[i] = Locked(invoice[i], q)
      PROVE  Tracked(r)'
  <2>1. Coherent(invoice[i])
    BY <1>1 DEF TypeInv
  <2>2. invoice[i].op # r
    BY <1>5, <2>1, RequestsAssumption DEF Lockable, Coherent, Requests
  <2> QED
    BY <1>1, <1>3, <1>5, <2>2, LockedRow
<1>6. ASSUME NEW o \in StampRequests, StampSource(i, o),
             invoice'[i] = Stamped(invoice[i], o)
      PROVE  Tracked(r)'
  <2>1. invoice[i].op = o /\ invoice[i].status = "DRAFT"
    BY <1>1, <1>6, SourceHolds
  <2>2. invoice[i].ref = NoRequest
    BY <1>1, <2>1 DEF StatusInv
  <2>3. r = o
    BY <2>1, <2>2, RequestsAssumption DEF Tracked, Requests
  <2> QED
    BY <1>1, <1>2, <1>6, <2>3, StampedRow DEF Tracked
<1>7. ASSUME NEW source \in {"LOCAL", "PAC"}, CancelSource(i, source),
             invoice'[i] = Cancelled(invoice[i], source)
      PROVE  Tracked(r)'
  <2>1. invoice[i].op \in CancelRequests
    BY <1>1, <1>7, SourceHolds
  <2>2. invoice'[i].status = "CANCELLED" /\ invoice'[i].ref = invoice[i].ref
    BY <1>1, <1>7, CancelledRow
  <2> QED
    BY <1>2, <2>1, <2>2 DEF Tracked
<1>8. CASE invoice'[i] = [invoice[i] EXCEPT !.confirm = TRUE]
  BY <1>1, <1>3, <1>8, ConfirmedRow
<1> QED
  BY <1>2, <1>3, <1>4, <1>5, <1>6, <1>7, <1>8 DEF RowStep

(* An operation that becomes live holds the lock.                           *)
LEMMA NewlyLive ==
    ASSUME EffectInv, [Next]_vars, NEW r \in Lockers, Live(r)', ~Live(r)
    PROVE  pc[r] = "call" /\ Holds(r) /\ UNCHANGED <<invoice, target>>
<1> USE DEF EffectInv
<1>1. pc[r] = "call" /\ UNCHANGED invoice
  BY Moves DEF Live
<1>2. target[r] \in Invoices
  BY DEF TypeInv, TypeOK, Requests
<1>3. target' = target
  BY <1>2, RowSteps
<1> QED
  BY <1>1, <1>3 DEF LockInv, Working, Requests

LEMMA TrackStep ==
    ASSUME "ambiguous" \notin Faults, EffectInv, [Next]_vars
    PROVE  TrackInv'
<1>1. ASSUME NEW r \in Lockers, Live(r)' PROVE Tracked(r)'
  <2>1. CASE Live(r)
    BY <2>1, TrackedStays DEF EffectInv, TrackInv
  <2>2. CASE ~Live(r)
    BY <1>1, <2>2, NewlyLive DEF Holds, Tracked
  <2> QED
    BY <2>1, <2>2
<1>2. ASSUME NEW r \in CancelRequests, NEW q \in CancelRequests,
             target'[r] = target'[q], Live(r)', Live(q)', ~Live(r), Live(q)
      PROVE  r = q
  <2>1. /\ r \in Lockers /\ q \in Lockers
        /\ r \notin StampRequests /\ q \notin StampRequests /\ r # NoRequest
    BY RequestsAssumption DEF Lockers, Requests
  <2>2. Holds(r) /\ target[r] = target[q]
    BY <1>2, <2>1, NewlyLive
  <2>3. Tracked(q) /\ target[r] \in Invoices
    BY <1>2, <2>1 DEF EffectInv, TrackInv, TypeInv, TypeOK, Requests
  <2>4. invoice[target[r]].status # "CANCELLED"
    BY <2>1, <2>2, <2>3 DEF EffectInv, StatusInv, LockableStatuses, Holds
  <2> QED
    BY <2>1, <2>2, <2>3, <2>4 DEF Tracked, Holds
<1>3. ASSUME NEW r \in CancelRequests, NEW q \in CancelRequests,
             target'[r] = target'[q], Live(r)', Live(q)'
      PROVE  r = q
  <2>0. r \in Lockers /\ q \in Lockers
    BY DEF Lockers
  <2>1. CASE Live(r) /\ Live(q)
    <3>1. target[r] \in Invoices
      BY <2>0 DEF EffectInv, TypeInv, TypeOK, Requests
    <3>2. target' = target
      BY <3>1, RowSteps DEF EffectInv
    <3> QED
      BY <1>3, <2>1, <3>2 DEF EffectInv, TrackInv
  <2>2. CASE ~Live(r) /\ ~Live(q)
    BY <1>3, <2>0, <2>2, NewlyLive DEF Holds
  <2>3. CASE Live(r) /\ ~Live(q)
    BY <1>2, <1>3, <2>3
  <2>4. CASE ~Live(r) /\ Live(q)
    BY <1>2, <1>3, <2>4
  <2> QED
    BY <2>1, <2>2, <2>3, <2>4
<1> QED
  BY <1>1, <1>3 DEF TrackInv

LEMMA EffectInvariant ==
    ASSUME Faults \subseteq {"abort"}
    PROVE  Spec => []EffectInv
<1>0. {"overlap", "ambiguous", "misreport"} \cap Faults = {}
  OBVIOUS
<1>1. Init => EffectInv
  <2>1. Init => LockInv
    BY LabelFacts DEF Init, LockInv
  <2>2. Init => TrackInv
    BY DEF Init, TrackInv, Live, Lockers
  <2> QED
    BY <2>1, <2>2, TypeInit, PcPacInit, StatusInit, SnapInit DEF EffectInv
<1>2. EffectInv /\ [Next]_vars => EffectInv'
  BY <1>0, TypeStep, LockStep, PcPacStep, StatusStep, SnapStep, TrackStep
  DEF EffectInv
<1> QED
  BY <1>1, <1>2, PTL DEF Spec

(* Whatever crashes or times out, an operation the PAC applied or may still *)
(* apply is recorded in the row or named by its lock.                       *)
THEOREM EffectsAreTracked ==
    ASSUME Faults \subseteq {"abort"}
    PROVE  Spec => []PacEffectTracked
<1>1. EffectInv => PacEffectTracked
  <2> SUFFICES ASSUME EffectInv, NEW r \in Lockers, Live(r)
               PROVE  \/ invoice[target[r]].op = r
                      \/ r \in StampRequests /\ invoice[target[r]].ref = r
                      \/ r \in CancelRequests /\ invoice[target[r]].cancelRef # "NONE"
    BY DEF PacEffectTracked, Live
  <2>1. Tracked(r) /\ target[r] \in Invoices
    BY DEF EffectInv, TrackInv, TypeInv, TypeOK, Requests
  <2> QED
    BY <2>1 DEF EffectInv, StatusInv, Tracked
<1> QED
  BY <1>1, EffectInvariant, PTL

(* Whatever crashes or times out, the PAC applies at most one stamp and at  *)
(* most one cancellation to an invoice.                                     *)
THEOREM EffectsHappenOnce ==
    ASSUME Faults \subseteq {"abort"}
    PROVE  Spec => []NoDoubleEffect
<1>1. EffectInv => NoDoubleEffect
  <2> SUFFICES ASSUME EffectInv, NEW r \in Lockers, NEW q \in Lockers,
                      target[r] = target[q], ActionOf(r) = ActionOf(q),
                      pac[r] = "applied", pac[q] = "applied"
               PROVE  r = q
    BY DEF NoDoubleEffect
  <2>1. CASE r \in CancelRequests /\ q \in CancelRequests
    BY <2>1 DEF EffectInv, TrackInv, Live
  <2>2. CASE r \in StampRequests /\ q \in StampRequests
    <3> DEFINE i == target[r]
    <3>1. /\ r # NoRequest /\ q # NoRequest
          /\ r \notin CancelRequests /\ q \notin CancelRequests
      BY <2>2, RequestsAssumption DEF Requests, Lockers
    <3>2. Tracked(r) /\ Tracked(q) /\ i \in Invoices
      BY DEF EffectInv, TrackInv, Live, TypeInv, TypeOK, Requests
    <3>3. ASSUME NEW s \in StampRequests, s # NoRequest, invoice[i].op = s
          PROVE  invoice[i].ref = NoRequest
      BY <3>2, <3>3 DEF EffectInv, StatusInv, LockableStatuses
    <3> QED
      BY <2>2, <3>1, <3>2, <3>3 DEF Tracked
  <2> QED
    BY <2>1, <2>2, RequestsAssumption DEF ActionOf, Lockers
<1> QED
  BY <1>1, EffectInvariant, PTL

-----------------------------------------------------------------------------
(* Which locks can be left behind.                                          *)

(* Every way out of a handler that has the lock, except an abort, gives the *)
(* lock up or asks for confirmation of the operation.                       *)
LEMMA WaysOut ==
    ASSUME TypeInv, [Next]_vars, NEW o \in Lockers, pc[o] \in Working,
           pc'[o] \notin Working \cup {"aborted"}
    PROVE  invoice'[target[o]].op # o \/ invoice'[target[o]].confirm
<1> USE DEF TypeInv, TypeOK
<1> DEFINE row == invoice[target[o]]
<1>1. o \in Requests /\ o # NoRequest /\ row \in Row /\ Coherent(row)
  BY RequestsAssumption DEF Requests
<1>2. ASSUME NEW r \in Requests, NEW label, Goto(r, label), r # o
      PROVE  FALSE
  BY <1>1, <1>2 DEF Goto
<1>3. ASSUME NEW r \in Requests, Start(r) \/ Resolve(r) PROVE FALSE
  <2>1. pc[r] \in {"read"} \cup Resolving /\ \E label : Goto(r, label)
    BY <1>3 DEF Start, Begin, Deny, Refuse, Accept, AcceptNew, AcceptRetry,
                AcceptReconcile, Resolve, QueryInconclusive, QueryAnswer, Clear,
                FinalizeStamp, FinalizeCancel, End, Advance, Resolving
  <2> QED
    BY <1>2, <2>1 DEF Working, Resolving
<1>4. ASSUME NEW r \in Requests, Abort(r) PROVE FALSE
  BY <1>1, <1>2, <1>4 DEF Abort, End, Goto
<1>5. ASSUME NEW r \in Lockers, CommitFails(r) PROVE FALSE
  BY <1>1, <1>2, <1>5 DEF CommitFails, End, Advance, Goto, Requests, Working
<1>6. ASSUME NEW r \in Lockers, PacDecides(r) PROVE FALSE
  BY <1>6 DEF PacDecides
<1>7. ASSUME NEW r \in Lockers, Operate(r)
      PROVE  invoice'[target[o]].op # o \/ invoice'[target[o]].confirm
  <2>1. \E label : Goto(r, label)
    BY <1>7 DEF Operate, Acquire, LockRefused, Validate, SkipPac, Send, NotConfigured,
                Replied, RepliedError, Timeout, CommitStamp, CommitCancel, Mark,
                Release, End, Advance
  <2>2. r = o
    BY <1>2, <2>1 DEF Requests
  <2>3. CASE \/ Acquire(o) \/ LockRefused(o) \/ Validate(o) \/ SkipPac(o) \/ Send(o)
             \/ NotConfigured(o) \/ Replied(o) \/ RepliedError(o) \/ Timeout(o)
    BY <1>1, <2>3 DEF Acquire, LockRefused, Validate, SkipPac, Send, NotConfigured,
                      Replied, RepliedError, Timeout, Advance, Goto, Working
  <2>4. CASE CommitStamp(o)
    BY <1>1, <2>4, StampedFacts DEF CommitStamp, Write
  <2>5. CASE CommitCancel(o)
    BY <1>1, <2>5, CancelledFacts DEF CommitCancel, Write
  <2>6. CASE Mark(o)
    <3>1. CASE row.op = o
      <4>1. row.action = ActionOf(o)
        BY <1>1, <3>1 DEF Coherent
      <4>2. invoice'[target[o]] = [row EXCEPT !.confirm = TRUE]
        BY <1>1, <2>6, <3>1, <4>1 DEF Mark, Write
      <4> QED
        BY <1>1, <4>2, ConfirmedFacts
    <3>2. CASE row.op # o
      BY <2>6, <3>2 DEF Mark
    <3> QED
      BY <3>1, <3>2
  <2>7. CASE Release(o)
    <3>1. Unlocked(row).op = NoRequest
      BY <1>1, UnlockedFacts
    <3>2. CASE row.action = ActionOf(o)
      <4>1. invoice'[target[o]] = Unlocked(row)
        BY <1>1, <2>7, <3>2 DEF Release, Write
      <4> QED
        BY <1>1, <3>1, <4>1
    <3>3. CASE row.action # ActionOf(o)
      <4>1. row.op # o
        BY <1>1, <3>3 DEF Coherent
      <4> QED
        BY <2>7, <3>3, <4>1 DEF Release
    <3> QED
      BY <3>2, <3>3
  <2> QED
    BY <1>7, <2>2, <2>3, <2>4, <2>5, <2>6, <2>7 DEF Operate
<1>8. CASE UNCHANGED vars
  BY <1>8 DEF vars
<1> QED
  BY <1>3, <1>4, <1>5, <1>6, <1>7, <1>8 DEF Next, Idle

(* A lock has a handler at work on it, or waits for confirmation, or was    *)
(* left by an abort.                                                        *)
OwnerInv ==
    \A i \in Invoices : invoice[i].op # NoRequest =>
        \/ invoice[i].confirm
        \/ pc[invoice[i].op] \in Working \cup {"aborted"}

LEMMA OwnerStep ==
    TypeInv /\ StatusInv /\ OwnerInv /\ [Next]_vars => OwnerInv'
<1> SUFFICES ASSUME TypeInv, StatusInv, OwnerInv, [Next]_vars,
                    NEW i \in Invoices, NEW o, o = invoice'[i].op, o # NoRequest
             PROVE  invoice'[i].confirm \/ pc'[o] \in Working \cup {"aborted"}
  BY DEF OwnerInv
<1>0. RowStep(i) /\ invoice[i] \in Row
  BY RowSteps DEF TypeInv, TypeOK
<1>1. CASE invoice'[i] = invoice[i]
  <2>1. o = invoice[i].op /\ o \in Lockers /\ target[o] = i /\ o \in Requests
    BY <1>0, <1>1 DEF Row, StatusInv, Requests
  <2>2. CASE invoice[i].confirm
    BY <1>1, <2>2
  <2>3. CASE pc[o] = "aborted"
    BY <2>1, <2>3, Moves DEF Ended
  <2>4. CASE pc[o] \in Working
    BY <2>1, <2>4, WaysOut
  <2> QED
    BY <2>1, <2>2, <2>3, <2>4 DEF OwnerInv
<1>2. CASE invoice'[i] = Unlocked(invoice[i])
  BY <1>2, UnlockedRow
<1>3. ASSUME NEW r \in Lockers, invoice'[i] = Locked(invoice[i], r),
             pc'[r] \in Working
      PROVE  pc'[o] \in Working
  BY <1>3, LockedRow
<1>4. CASE invoice'[i] = [invoice[i] EXCEPT !.confirm = TRUE]
  BY <1>0, <1>4, ConfirmedFacts
<1>5. ASSUME NEW p \in StampRequests, invoice'[i] = Stamped(invoice[i], p)
      PROVE  FALSE
  BY <1>5, StampedRow
<1>6. ASSUME NEW source \in {"LOCAL", "PAC"},
             invoice'[i] = Cancelled(invoice[i], source)
      PROVE  FALSE
  BY <1>6, CancelledRow
<1> QED
  BY <1>0, <1>1, <1>2, <1>3, <1>4, <1>5, <1>6 DEF RowStep

LEMMA OwnerHolds == Spec => []OwnerInv
<1>1. Init => TypeInv /\ StatusInv /\ OwnerInv
  BY TypeInit, StatusInit, NewRowFacts DEF Init, OwnerInv
<1>2. TypeInv /\ StatusInv /\ OwnerInv /\ [Next]_vars
          => (TypeInv /\ StatusInv /\ OwnerInv)'
  BY TypeStep, StatusStep, OwnerStep
<1> QED
  BY <1>1, <1>2, PTL DEF Spec

(* Under every fault, overlapping resolutions and misreported outcomes      *)
(* included, a lock whose handler has ended waits for confirmation unless   *)
(* that handler was aborted.                                                *)
THEOREM LocksAreSettled == Spec => []AbandonedOnlyByAbort
<1>1. OwnerInv => AbandonedOnlyByAbort
  BY LabelFacts DEF OwnerInv, AbandonedOnlyByAbort, Working, Ended
<1> QED
  BY <1>1, OwnerHolds, PTL

(* How many steps a handler can still take.                                 *)
StepsLeft(label) ==
    CASE label = "read"                                     -> 7
      [] label \in {"lock", "query"}                        -> 6
      [] label = "validate"                                 -> 5
      [] label = "call"                                     -> 4
      [] label = "wait"                                     -> 3
      [] label = "commit"                                   -> 2
      [] label \in {"clear", "finalize", "mark", "release"} -> 1
      [] label \in Ended                                    -> 0

Nears(r) ==
    /\ pc'[r] = pc[r] \/ StepsLeft(pc'[r]) < StepsLeft(pc[r])
    /\ Resolve(r) \/ (r \in Lockers /\ Operate(r)) => pc'[r] # pc[r]

LEMMA StepsNear ==
    ASSUME TypeInv, [Next]_vars
    PROVE  \A r \in Requests : Nears(r)
<1> USE DEF Labels, Resolving, Working, Ended
<1>1. ASSUME NEW r \in Requests, Resolve(r)
      PROVE  \E label \in Labels : Goto(r, label) /\ StepsLeft(label) < StepsLeft(pc[r])
  BY <1>1 DEF Resolve, QueryInconclusive, QueryAnswer, Clear, FinalizeStamp, FinalizeCancel,
              End, Advance, StepsLeft
<1>2. ASSUME NEW r \in Lockers, Operate(r) \/ CommitFails(r)
      PROVE  \E label \in Labels : Goto(r, label) /\ StepsLeft(label) < StepsLeft(pc[r])
  BY <1>2 DEF Operate, Acquire, LockRefused, Validate, SkipPac, Send, NotConfigured, Replied,
              RepliedError, Timeout, CommitStamp, CommitCancel, Mark, Release, CommitFails,
              End, Advance, StepsLeft
<1>3. ASSUME NEW r \in Requests, Start(r)
      PROVE  \E label \in Labels : Goto(r, label) /\ StepsLeft(label) < StepsLeft(pc[r])
  BY <1>3 DEF Start, Begin, Deny, Refuse, Accept, AcceptNew, AcceptRetry, AcceptReconcile, End,
              StepsLeft
<1>4. ASSUME NEW r \in Requests, Abort(r)
      PROVE  \E label \in Labels : Goto(r, label) /\ StepsLeft(label) < StepsLeft(pc[r])
  <2>1. pc[r] \in Labels \ Ended /\ Goto(r, "aborted")
    BY <1>4 DEF Abort, End, TypeInv, TypeOK
  <2> QED
    BY <2>1 DEF StepsLeft
<1>5. ASSUME NEW r \in Requests, NEW label \in Labels, Goto(r, label),
             StepsLeft(label) < StepsLeft(pc[r]), NEW q \in Requests
      PROVE  pc'[q] = pc[q] \/ StepsLeft(pc'[q]) < StepsLeft(pc[q])
  BY <1>5 DEF Goto, TypeInv, TypeOK
<1>6. \A r \in Lockers : r \in Requests
  BY DEF Requests
<1>7. ASSUME NEW q \in Requests
      PROVE  pc'[q] = pc[q] \/ StepsLeft(pc'[q]) < StepsLeft(pc[q])
  BY <1>1, <1>2, <1>3, <1>4, <1>5, <1>6 DEF Next, Idle, PacDecides, vars
<1>8. ASSUME NEW q \in Requests, Resolve(q) \/ (q \in Lockers /\ Operate(q))
      PROVE  pc'[q] # pc[q]
  <2>1. PICK label \in Labels : Goto(q, label) /\ StepsLeft(label) < StepsLeft(pc[q])
    BY <1>1, <1>2, <1>8
  <2>2. label # pc[q]
    <3>1. pc[q] \in Labels
      BY DEF TypeInv, TypeOK
    <3> QED
      BY <2>1, <3>1 DEF StepsLeft
  <2> QED
    BY <2>1, <2>2 DEF Goto, TypeInv, TypeOK
<1> QED
  BY <1>7, <1>8 DEF Nears

(* The part of LockSettles that is not about fairness: a handler comes      *)
(* closer to its end with each of its steps, never goes back, and has at    *)
(* most seven to take; with LocksAreSettled, a lock whose handler keeps     *)
(* being scheduled settles.                                                 *)
THEOREM HandlersNearTheirEnd ==
    Spec => [][\A r \in Requests :
                  /\ pc'[r] = pc[r] \/ StepsLeft(pc'[r]) < StepsLeft(pc[r])
                  /\ Resolve(r) \/ (r \in Lockers /\ Operate(r)) => pc'[r] # pc[r]]_vars
<1>1. Init => TypeInv
  BY TypeInit
<1>2. TypeInv /\ [Next]_vars => TypeInv'
  BY TypeStep
<1>3. TypeInv /\ [Next]_vars =>
        [\A r \in Requests :
            /\ pc'[r] = pc[r] \/ StepsLeft(pc'[r]) < StepsLeft(pc[r])
            /\ Resolve(r) \/ (r \in Lockers /\ Operate(r)) => pc'[r] # pc[r]]_vars
  BY StepsNear DEF Nears
<1> QED
  BY <1>1, <1>2, <1>3, PTL DEF Spec

LEMMA NobodyAborts ==
    ASSUME "abort" \notin Faults
    PROVE  Spec => [](\A r \in Requests : pc[r] # "aborted")
<1> DEFINE NoneAborted == \A r \in Requests : pc[r] # "aborted"
<1>1. Init => NoneAborted
  BY DEF Init
<1>2. TypeInv /\ NoneAborted /\ [Next]_vars => NoneAborted'
  <2> SUFFICES ASSUME TypeInv, NoneAborted, [Next]_vars PROVE NoneAborted'
    OBVIOUS
  <2>1. ASSUME NEW r \in Requests, NEW label \in Labels \ {"aborted"}, Goto(r, label)
        PROVE  NoneAborted'
    BY <2>1 DEF Goto, TypeInv, TypeOK
  <2>2. ASSUME NEW r \in Requests, Start(r) \/ Resolve(r)
        PROVE  \E label \in Labels \ {"aborted"} : Goto(r, label)
    BY <2>2 DEF Start, Deny, Refuse, Accept, AcceptNew, AcceptRetry,
                AcceptReconcile, Resolve, QueryInconclusive, QueryAnswer, Clear,
                FinalizeStamp, FinalizeCancel, End, Advance, Labels, Resolving,
                Ended
  <2>3. ASSUME NEW r \in Lockers, Operate(r)
        PROVE  \E label \in Labels \ {"aborted"} : Goto(r, label)
    BY <2>3 DEF Operate, Acquire, LockRefused, Validate, SkipPac, Send,
                NotConfigured, Replied, RepliedError, Timeout, CommitStamp,
                CommitCancel, Mark, Release, End, Advance, Labels, Working, Ended
  <2>4. ASSUME NEW r, Abort(r) \/ CommitFails(r) PROVE FALSE
    BY <2>4 DEF Abort, CommitFails
  <2>5. CASE UNCHANGED pc
    BY <2>5
  <2>6. \A r \in Lockers : r \in Requests
    BY DEF Requests
  <2> QED
    BY <2>1, <2>2, <2>3, <2>4, <2>5, <2>6 DEF Next, Idle, PacDecides, vars
<1>3. Init => TypeInv
  BY TypeInit
<1>4. TypeInv /\ [Next]_vars => TypeInv'
  BY TypeStep
<1> QED
  BY <1>1, <1>2, <1>3, <1>4, PTL DEF Spec

(* As long as no process dies and no transaction fails, every lock that is  *)
(* left behind can be reconciled: aborts alone make AbandonedLockReconcilable*)
(* fail.                                                                    *)
THEOREM LocksAreReconcilable ==
    ASSUME "abort" \notin Faults
    PROVE  Spec => []AbandonedLockReconcilable
<1> DEFINE NoneAborted == \A r \in Requests : pc[r] # "aborted"
<1>1. TypeInv /\ AbandonedOnlyByAbort /\ NoneAborted => AbandonedLockReconcilable
  BY DEF AbandonedOnlyByAbort, AbandonedLockReconcilable, TypeInv, TypeOK, Row,
         Requests
<1>2. Spec => []NoneAborted
  BY NobodyAborts
<1>3. Init => TypeInv
  BY TypeInit
<1>4. TypeInv /\ [Next]_vars => TypeInv'
  BY TypeStep
<1> QED
  BY <1>1, <1>2, <1>3, <1>4, LocksAreSettled, PTL DEF Spec

-----------------------------------------------------------------------------
(* What it takes for a cancellation to reach the PAC.                       *)

(* How a canceller comes to work, and to its commit; what its snapshot is.  *)
LEMMA Arrivals ==
    ASSUME TypeInv, [Next]_vars, NEW q \in Requests
    PROVE  /\ pc[q] \notin Working /\ pc'[q] \in Working => Acquire(q)
           /\ pc[q] # "commit" /\ pc'[q] = "commit" => SkipPac(q) \/ Replied(q)
           /\ snapshot'[q] \in {snapshot[q], NewRow, invoice[target[q]]}
           /\ pc[q] \in Working /\ pc'[q] \in Working => snapshot'[q] = snapshot[q]
<1> DEFINE Arrives ==
       /\ pc[q] \notin Working /\ pc'[q] \in Working => Acquire(q)
       /\ pc[q] # "commit" /\ pc'[q] = "commit" => SkipPac(q) \/ Replied(q)
       /\ snapshot'[q] \in {snapshot[q], NewRow, invoice[target[q]]}
       /\ pc[q] \in Working /\ pc'[q] \in Working => snapshot'[q] = snapshot[q]
<1> USE DEF TypeInv, TypeOK
<1>1. ASSUME NEW r \in Requests, NEW label \in Ended, End(r, label) PROVE Arrives
  BY <1>1 DEF End, Goto, Working, Ended
<1>2. ASSUME NEW r \in Requests, NEW label \in Labels \ {"commit"}, Advance(r, label),
             pc[r] \in Working \/ label \notin Working
      PROVE  Arrives
  BY <1>2 DEF Advance, Goto
<1>3. ASSUME NEW r \in Requests, NEW label \in {"lock"} \cup Resolving,
             Accept(r, label)
      PROVE  Arrives
  BY <1>3 DEF Accept, Begin, Goto, Working, Resolving
<1>4. CASE UNCHANGED <<pc, snapshot>>
  BY <1>4
<1>5. ASSUME NEW r \in Requests, Start(r) PROVE Arrives
  BY <1>5, <1>1, <1>3 DEF Start, Deny, Refuse, AcceptNew, AcceptRetry,
                          AcceptReconcile, Ended, Resolving
<1>6. ASSUME NEW r \in Requests, Resolve(r) PROVE Arrives
  <2>1. CASE QueryInconclusive(r) \/ Clear(r) \/ FinalizeStamp(r) \/ FinalizeCancel(r)
    BY <1>1, <2>1 DEF QueryInconclusive, Clear, FinalizeStamp, FinalizeCancel, Ended
  <2>2. CASE QueryAnswer(r)
    BY <1>2, <2>2 DEF QueryAnswer, Labels, Resolving, Working
  <2> QED
    BY <1>6, <2>1, <2>2 DEF Resolve
<1>7. ASSUME NEW r \in Requests, Abort(r) PROVE Arrives
  BY <1>1, <1>7 DEF Abort, Ended
<1>8. ASSUME NEW r \in Lockers, CommitFails(r) PROVE Arrives
  BY <1>1, <1>2, <1>8 DEF CommitFails, Ended, Labels, Working, Requests
<1>9. ASSUME NEW r \in Lockers, Operate(r) PROVE Arrives
  <2>0. r \in Requests
    BY DEF Requests
  <2>1. CASE Acquire(r)
    BY <2>0, <2>1 DEF Acquire, Advance, Goto, Working
  <2>2. CASE LockRefused(r) \/ CommitStamp(r) \/ CommitCancel(r) \/ Mark(r) \/ Release(r)
    BY <1>1, <2>0, <2>2 DEF LockRefused, CommitStamp, CommitCancel, Mark, Release,
                            Ended
  <2>3. CASE Validate(r) \/ Send(r) \/ NotConfigured(r) \/ RepliedError(r) \/ Timeout(r)
    BY <1>2, <2>0, <2>3 DEF Validate, Send, NotConfigured, RepliedError, Timeout,
                            Labels, Working
  <2>4. CASE SkipPac(r) \/ Replied(r)
    BY <2>0, <2>4 DEF SkipPac, Replied, Advance, Goto, Working
  <2> QED
    BY <1>9, <2>1, <2>2, <2>3, <2>4 DEF Operate
<1> QED
  BY <1>4, <1>5, <1>6, <1>7, <1>8, <1>9 DEF Next, Idle, PacDecides, vars

(* While a request works, its row changes only in its own last step.        *)
LEMMA RowOfWorker ==
    ASSUME TypeInv, LockInv, [Next]_vars, NEW q \in Requests,
           pc[q] \in Working, pc'[q] \in Working
    PROVE  invoice'[target[q]] = invoice[target[q]]
<1> USE DEF TypeInv, TypeOK
<1>1. /\ target[q] \in Invoices /\ invoice[target[q]] \in Row
      /\ invoice[target[q]].op = q /\ invoice[target[q]].action # "NONE"
  BY RequestsAssumption DEF LockInv, Holds, Coherent, Requests
<1>2. ASSUME NEW r \in Requests, NEW row, Write(r, row),
             pc[r] \in Working \cup Resolving, NEW label \in Ended, Goto(r, label)
      PROVE  invoice'[target[q]] = invoice[target[q]]
  <2>1. r # q
    BY <1>2 DEF Goto, Working, Ended
  <2>2. target[r] # target[q]
    BY <1>2, <2>1, Alone
  <2> QED
    BY <1>1, <1>2, <2>2 DEF Write
<1>3. ASSUME NEW r \in Requests, Start(r) \/ Abort(r) PROVE UNCHANGED invoice
  BY <1>3 DEF Start, Begin, Deny, Refuse, Accept, AcceptNew, AcceptRetry,
              AcceptReconcile, Abort
<1>4. ASSUME NEW r \in Requests, Resolve(r)
      PROVE  invoice'[target[q]] = invoice[target[q]]
  BY <1>2, <1>4 DEF Resolve, QueryInconclusive, QueryAnswer, Clear, FinalizeStamp,
                    FinalizeCancel, End, Resolving, Ended
<1>5. ASSUME NEW r \in Lockers, CommitFails(r) \/ PacDecides(r) PROVE UNCHANGED invoice
  BY <1>5 DEF CommitFails, PacDecides
<1>6. ASSUME NEW r \in Lockers, Operate(r)
      PROVE  invoice'[target[q]] = invoice[target[q]]
  <2>0. r \in Requests
    BY DEF Requests
  <2>1. CASE Acquire(r)
    <3>1. target[r] # target[q]
      BY <1>1, <2>1 DEF Acquire, Lockable
    <3> QED
      BY <1>1, <2>1, <3>1 DEF Acquire, Write
  <2>2. CASE CommitStamp(r) \/ CommitCancel(r) \/ Mark(r) \/ Release(r)
    <3>1. /\ pc[r] \in Working \cup Resolving
          /\ (\E row : Write(r, row)) \/ UNCHANGED invoice
          /\ Goto(r, "done") /\ "done" \in Ended
      BY <2>2 DEF CommitStamp, CommitCancel, Mark, Release, End, Working, Ended
    <3> QED
      BY <1>2, <2>0, <3>1
  <2>3. CASE \/ LockRefused(r) \/ Validate(r) \/ SkipPac(r) \/ Send(r)
             \/ NotConfigured(r) \/ Replied(r) \/ RepliedError(r) \/ Timeout(r)
    BY <2>3 DEF LockRefused, Validate, SkipPac, Send, NotConfigured, Replied,
                RepliedError, Timeout
  <2> QED
    BY <1>6, <2>1, <2>2, <2>3 DEF Operate
<1> QED
  BY <1>3, <1>4, <1>5, <1>6 DEF Next, Idle, vars

(* A canceller that locked the status it read goes on knowing the status of *)
(* its row, and commits the cancellation of a stamped one only when the PAC *)
(* has applied it.                                                          *)
Informed(r) ==
    /\ pc[r] \in Working => snapshot[r].status = invoice[target[r]].status
    /\ pc[r] = "commit" /\ snapshot[r].status = "STAMPED" => pac[r] = "applied"

CancelInv ==
    /\ BackInv
    /\ LockInv
    /\ \A r \in CancelRequests : Informed(r)
    /\ \A r \in Requests :
          snapshot[r].status = "STAMPED" => snapshot[r].ref # NoRequest
    /\ CancelReachesPac

LocksWhatItRead ==
    \A r \in CancelRequests :
        Acquire(r) => invoice[target[r]].status = snapshot[r].status

LEMMA InformedStep ==
    ASSUME CancelInv, [Next]_vars, LocksWhatItRead \/ UNCHANGED vars,
           NEW r \in CancelRequests
    PROVE  Informed(r)'
<1>0. /\ TypeInv /\ r \in Requests /\ r \in Lockers /\ r \notin StampRequests
      /\ target[r] \in Invoices /\ invoice[target[r]] \in Row
  BY RequestsAssumption DEF CancelInv, BackInv, TypeInv, TypeOK, Requests, Lockers
<1>1. target' = target
  BY <1>0, RowSteps
<1>2. ASSUME pc'[r] \in Working
      PROVE  /\ snapshot'[r] = snapshot[r]
             /\ snapshot[r].status = invoice'[target[r]].status
  <2>1. CASE pc[r] \in Working
    BY <1>0, <1>2, <2>1, RowOfWorker, Arrivals DEF CancelInv, Informed
  <2>2. CASE pc[r] \notin Working
    <3>1. Acquire(r)
      BY <1>0, <1>2, <2>2, Arrivals
    <3>2. invoice[target[r]].status = snapshot[r].status
      BY <1>2, <2>2, <3>1 DEF LocksWhatItRead, vars
    <3>3. invoice'[target[r]] = Locked(invoice[target[r]], r)
      BY <1>0, <3>1 DEF Acquire, Write, TypeInv, TypeOK
    <3>4. invoice'[target[r]].status = invoice[target[r]].status
      BY <1>0, <3>3, LockedRow
    <3> QED
      BY <3>1, <3>2, <3>4 DEF Acquire, Advance
  <2> QED
    BY <2>1, <2>2
<1>3. ASSUME pc'[r] = "commit", snapshot'[r].status = "STAMPED"
      PROVE  pac'[r] = "applied"
  <2>0. snapshot'[r] = snapshot[r]
    BY <1>2, <1>3 DEF Working
  <2>1. CASE pc[r] = "commit"
    BY <1>0, <1>3, <2>0, <2>1, Moves DEF CancelInv, Informed
  <2>2. CASE SkipPac(r)
    BY <1>0, <1>3, <2>0, <2>2 DEF SkipPac, CallsPac, CancelInv
  <2>3. CASE Replied(r)
    BY <2>3 DEF Replied
  <2> QED
    BY <1>0, <1>3, <2>1, <2>2, <2>3, Arrivals
<1> QED
  BY <1>1, <1>2, <1>3 DEF Informed

LEMMA ReachesStep ==
    ASSUME CancelInv, [Next]_vars
    PROVE  CancelReachesPac'
<1> SUFFICES ASSUME NEW i \in Invoices,
                    invoice'[i].status = "CANCELLED", invoice'[i].ref # NoRequest
             PROVE  \E r \in CancelRequests : target'[r] = i /\ pac'[r] = "applied"
  BY DEF CancelReachesPac
<1>0. TypeInv /\ LockInv /\ PcPac /\ StatusInv /\ SnapInv /\ invoice[i] \in Row
  BY DEF CancelInv, BackInv, TypeInv, TypeOK
<1>1. RowStep(i) /\ target' = target
  BY <1>0, RowSteps
<1>2. ASSUME NEW r \in CancelRequests, target[r] = i, pac[r] = "applied"
      PROVE  target'[r] = i /\ pac'[r] = "applied"
  BY <1>0, <1>1, <1>2, Moves DEF PcPac, Unsent, Lockers
<1>3. CASE invoice'[i].status = invoice[i].status /\ invoice'[i].ref = invoice[i].ref
  BY <1>2, <1>3 DEF CancelInv, CancelReachesPac
<1>4. ASSUME NEW o \in StampRequests, invoice'[i] = Stamped(invoice[i], o)
      PROVE  FALSE
  BY <1>0, <1>4, StampedRow
<1>5. ASSUME NEW source \in {"LOCAL", "PAC"}, CancelSource(i, source),
             invoice'[i] = Cancelled(invoice[i], source)
      PROVE  \E r \in CancelRequests : target[r] = i /\ pac[r] = "applied"
  <2>1. invoice[i].status = "STAMPED"
    <3>1. invoice[i].ref # NoRequest
      BY <1>0, <1>5, CancelledRow
    <3>2. invoice[i].status \in {"DRAFT", "STAMPED"}
      BY <1>0, <1>5, SourceHolds
    <3> QED
      BY <1>0, <3>1, <3>2 DEF StatusInv
  <2>2. ASSUME NEW r \in CancelRequests, pc[r] = "commit", target[r] = i
        PROVE  pac[r] = "applied"
    BY <2>1, <2>2 DEF CancelInv, Informed, Working
  <2>3. ASSUME NEW r \in Requests, pc[r] = "finalize", target[r] = i,
               snapshot[r].action = "CANCEL"
        PROVE  \E o \in CancelRequests : target[o] = i /\ pac[o] = "applied"
    <3>1. /\ snapshot[r].op # NoRequest /\ target[snapshot[r].op] = i
          /\ pac[snapshot[r].op] = "applied"
      BY <1>0, <2>3 DEF SnapInv, SnapOK, Resolving
    <3>2. snapshot[r].op \in CancelRequests
      BY <1>0, <2>3, <3>1 DEF TypeInv, TypeOK, Coherent, Row, ActionOf, Lockers
    <3> QED
      BY <3>1, <3>2
  <2> QED
    BY <1>5, <2>2, <2>3 DEF CancelSource
<1> QED
  BY <1>0, <1>1, <1>2, <1>3, <1>4, <1>5, UnlockedRow, LockedRow, ConfirmedRow
  DEF RowStep

(* If every cancel locked a row whose status is still the one it read, no   *)
(* stamped invoice would be cancelled without its cancellation at the PAC:  *)
(* the stale read of cancelInvoice is the only way CancelReachesPac fails,  *)
(* whatever crashes, times out or is answered ambiguously.                  *)
THEOREM FreshCancelsReachPac ==
    ASSUME Faults \subseteq {"abort", "ambiguous"}
    PROVE  Spec /\ CancelsLockWhatTheyRead => []CancelReachesPac
<1>0. "overlap" \notin Faults /\ "misreport" \notin Faults
  OBVIOUS
<1>1. Init => CancelInv
  <2> SUFFICES ASSUME Init PROVE CancelInv
    OBVIOUS
  <2>1. BackInv
    BY TypeInit, PcPacInit, StatusInit, SnapInit, NewRowFacts
    DEF Init, BackInv, RowBackedByPac
  <2>2. /\ \A i \in Invoices : invoice[i].status = "DRAFT"
        /\ \A r \in Requests : pc[r] = "read" /\ snapshot[r].status = "DRAFT"
    BY NewRowFacts DEF Init
  <2> QED
    BY <2>1, <2>2
    DEF CancelInv, LockInv, Informed, CancelReachesPac, Working, Resolving, Requests,
        Lockers
<1>2. CancelInv /\ [Next]_vars /\ [LocksWhatItRead]_vars => CancelInv'
  <2> SUFFICES ASSUME CancelInv, [Next]_vars, LocksWhatItRead \/ UNCHANGED vars
               PROVE  CancelInv'
    OBVIOUS
  <2>1. BackInv' /\ LockInv'
    BY <1>0, TypeStep, PcPacStep, StatusStep, SnapStep, BackStep, LockStep
    DEF CancelInv, BackInv
  <2>2. ASSUME NEW r \in Requests, snapshot'[r].status = "STAMPED"
        PROVE  snapshot'[r].ref # NoRequest
    <3>1. snapshot'[r] \in {snapshot[r], NewRow, invoice[target[r]]}
      BY Arrivals DEF CancelInv, BackInv
    <3>2. target[r] \in Invoices
      BY DEF CancelInv, BackInv, TypeInv, TypeOK
    <3> QED
      BY <2>2, <3>1, <3>2, NewRowFacts DEF CancelInv, BackInv, RowBackedByPac
  <2> QED
    BY <2>1, <2>2, InformedStep, ReachesStep DEF CancelInv
<1>3. CancelInv => CancelReachesPac
  BY DEF CancelInv
<1> QED
  BY <1>1, <1>2, <1>3, PTL DEF Spec, CancelsLockWhatTheyRead, LocksWhatItRead

=============================================================================
