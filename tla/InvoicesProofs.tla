---------------------------- MODULE InvoicesProofs ----------------------------
(***************************************************************************)
(* Theorems about Invoices, for any set of invoices and requests.          *)
(***************************************************************************)
EXTENDS InvoicesRefinement, TLAPS

-----------------------------------------------------------------------------
(* What the updates do to a row: their types, and the columns the           *)
(* invariants speak of.                                                     *)

LEMMA NewRowFacts ==
    /\ NewRow \in Row
    /\ NewRow.status = "DRAFT" /\ NewRow.action = "NONE"
    /\ NewRow.op = NoRequest /\ NewRow.confirm = FALSE
    /\ NewRow.ref = NoRequest /\ NewRow.cancelRef = "NONE"
BY DEF NewRow, Row, Statuses, Actions

LEMMA LockedFacts ==
    ASSUME NEW row \in Row, NEW r \in Lockers
    PROVE  /\ Locked(row, r) \in Row
           /\ Locked(row, r).action = ActionOf(r)
           /\ Locked(row, r).op = r
           /\ Locked(row, r).confirm = FALSE
           /\ Locked(row, r).status = row.status
           /\ Locked(row, r).ref = row.ref
           /\ Locked(row, r).cancelRef = row.cancelRef
BY DEF Locked, Row, Statuses, Actions, ActionOf

LEMMA UnlockedFacts ==
    ASSUME NEW row \in Row
    PROVE  /\ Unlocked(row) \in Row
           /\ Unlocked(row).action = "NONE"
           /\ Unlocked(row).op = NoRequest
           /\ Unlocked(row).confirm = FALSE
           /\ Unlocked(row).status = row.status
           /\ Unlocked(row).ref = row.ref
           /\ Unlocked(row).cancelRef = row.cancelRef
BY DEF Unlocked, Row, Statuses, Actions

LEMMA StampedFacts ==
    ASSUME NEW row \in Row, NEW o \in StampRequests
    PROVE  /\ Stamped(row, o) \in Row
           /\ Stamped(row, o).action = "NONE"
           /\ Stamped(row, o).op = NoRequest
           /\ Stamped(row, o).confirm = FALSE
           /\ Stamped(row, o).status = "STAMPED"
           /\ Stamped(row, o).ref = o
           /\ Stamped(row, o).cancelRef = row.cancelRef
BY DEF Stamped, Unlocked, Row, Statuses, Actions, Lockers

LEMMA CancelledFacts ==
    ASSUME NEW row \in Row, NEW source \in {"LOCAL", "PAC"}
    PROVE  /\ Cancelled(row, source) \in Row
           /\ Cancelled(row, source).action = "NONE"
           /\ Cancelled(row, source).op = NoRequest
           /\ Cancelled(row, source).confirm = FALSE
           /\ Cancelled(row, source).status = "CANCELLED"
           /\ Cancelled(row, source).ref = row.ref
           /\ Cancelled(row, source).cancelRef = source
BY DEF Cancelled, Unlocked, Row, Statuses, Actions

LEMMA ConfirmedFacts ==
    ASSUME NEW row \in Row
    PROVE  /\ [row EXCEPT !.confirm = TRUE] \in Row
           /\ [row EXCEPT !.confirm = TRUE].confirm = TRUE
           /\ [row EXCEPT !.confirm = TRUE].action = row.action
           /\ [row EXCEPT !.confirm = TRUE].op = row.op
           /\ [row EXCEPT !.confirm = TRUE].status = row.status
           /\ [row EXCEPT !.confirm = TRUE].ref = row.ref
           /\ [row EXCEPT !.confirm = TRUE].cancelRef = row.cancelRef
BY DEF Row

-----------------------------------------------------------------------------
(* The type invariant.  TypeOK alone is not inductive: FinalizeStamp writes *)
(* the operation of its snapshot into pacReference, so the columns of the   *)
(* lock must agree with each other in every row and every snapshot.         *)

Coherent(row) ==
    /\ row.op = NoRequest <=> row.action = "NONE"
    /\ row.op # NoRequest => row.action = ActionOf(row.op)
    /\ row.confirm => row.op # NoRequest

TypeInv ==
    /\ TypeOK
    /\ \A i \in Invoices : Coherent(invoice[i])
    /\ \A r \in Requests : Coherent(snapshot[r])

LEMMA CoherentRows ==
    ASSUME NEW row \in Row
    PROVE  /\ Coherent(NewRow)
           /\ Coherent(Unlocked(row))
           /\ \A r \in Lockers : Coherent(Locked(row, r))
           /\ \A o \in StampRequests : Coherent(Stamped(row, o))
           /\ \A source \in {"LOCAL", "PAC"} : Coherent(Cancelled(row, source))
<1> USE RequestsAssumption DEF Coherent
<1>1. Coherent(NewRow)
  BY NewRowFacts
<1>2. Coherent(Unlocked(row))
  BY UnlockedFacts
<1>3. ASSUME NEW r \in Lockers PROVE Coherent(Locked(row, r))
  <2>1. ActionOf(r) # "NONE" /\ r # NoRequest
    BY DEF ActionOf, Requests
  <2>2. /\ Locked(row, r).op = r
        /\ Locked(row, r).action = ActionOf(r)
        /\ Locked(row, r).confirm = FALSE
    BY LockedFacts
  <2> QED
    BY <2>1, <2>2
<1>4. ASSUME NEW o \in StampRequests PROVE Coherent(Stamped(row, o))
  BY StampedFacts
<1>5. ASSUME NEW source \in {"LOCAL", "PAC"} PROVE Coherent(Cancelled(row, source))
  BY CancelledFacts
<1> QED
  BY <1>1, <1>2, <1>3, <1>4, <1>5

(* An action that puts a coherent row in place of target[r]'s, moves r to   *)
(* another label and keeps or resets its snapshot preserves TypeInv.        *)
LEMMA WriteStep ==
    ASSUME TypeInv,
           NEW r \in Requests, NEW row \in Row, Coherent(row),
           NEW label \in Labels,
           Write(r, row), Goto(r, label),
           \/ UNCHANGED snapshot
           \/ snapshot' = [snapshot EXCEPT ![r] = NewRow],
           UNCHANGED <<pac, target>>
    PROVE  TypeInv'
<1> USE DEF TypeInv, TypeOK
<1>1. invoice' \in [Invoices -> Row] /\ \A i \in Invoices : Coherent(invoice'[i])
  BY DEF Write
<1>2. pc' \in [Requests -> Labels]
  BY DEF Goto
<1>3. snapshot' \in [Requests -> Row] /\ \A q \in Requests : Coherent(snapshot'[q])
  BY NewRowFacts, CoherentRows
<1> QED
  BY <1>1, <1>2, <1>3 DEF Coherent

(* The same for an action that only moves r and its snapshot.               *)
LEMMA MoveStep ==
    ASSUME TypeInv,
           NEW r \in Requests, NEW label \in Labels, Goto(r, label),
           \/ UNCHANGED snapshot
           \/ snapshot' = [snapshot EXCEPT ![r] = NewRow]
           \/ snapshot' = [snapshot EXCEPT ![r] = invoice[target[r]]],
           UNCHANGED <<invoice, pac, target>>
    PROVE  TypeInv'
<1> USE DEF TypeInv, TypeOK
<1>1. pc' \in [Requests -> Labels]
  BY DEF Goto
<1>2. snapshot' \in [Requests -> Row] /\ \A q \in Requests : Coherent(snapshot'[q])
  BY NewRowFacts, CoherentRows
<1> QED
  BY <1>1, <1>2 DEF Coherent

LEMMA TypeInit == Init => TypeInv
<1> SUFFICES ASSUME Init PROVE TypeInv
  OBVIOUS
<1>1. TypeOK
  BY NewRowFacts DEF Init, TypeOK, PacOutcomes, Labels
<1>2. /\ \A i \in Invoices : Coherent(invoice[i])
      /\ \A r \in Requests : Coherent(snapshot[r])
  BY NewRowFacts, CoherentRows DEF Init
<1> QED
  BY <1>1, <1>2 DEF TypeInv

LEMMA TypeStart ==
    ASSUME TypeInv, NEW r \in Requests, Start(r)
    PROVE  TypeInv'
<1> USE DEF Begin, End, Accept, Labels, Resolving, Ended
<1>1. CASE Deny(r)
  <2>1. Goto(r, "done") /\ snapshot' = [snapshot EXCEPT ![r] = NewRow]
    BY <1>1 DEF Deny
  <2> QED
    BY <1>1, <2>1, MoveStep DEF Deny
<1>2. CASE Refuse(r)
  <2>1. Goto(r, "done") /\ snapshot' = [snapshot EXCEPT ![r] = NewRow]
    BY <1>2 DEF Refuse
  <2> QED
    BY <1>2, <2>1, MoveStep DEF Refuse
<1>3. CASE AcceptNew(r) \/ AcceptRetry(r) \/ AcceptReconcile(r)
  <2>1. PICK label \in {"lock", "query", "clear", "finalize"} : Accept(r, label)
    BY <1>3 DEF AcceptNew, AcceptRetry, AcceptReconcile
  <2> QED
    BY <2>1, MoveStep
<1> QED
  BY <1>1, <1>2, <1>3 DEF Start

LEMMA TypeResolve ==
    ASSUME TypeInv, NEW r \in Requests, Resolve(r)
    PROVE  TypeInv'
<1> USE DEF End, Advance, Labels, Resolving, Ended
<1> DEFINE row == invoice[target[r]]
<1>0. row \in Row /\ snapshot[r] \in Row /\ Coherent(snapshot[r])
  BY DEF TypeInv, TypeOK
<1>1. CASE QueryInconclusive(r)
  BY <1>1, MoveStep DEF QueryInconclusive
<1>2. CASE QueryAnswer(r)
  BY <1>2, MoveStep DEF QueryAnswer
<1>3. CASE Clear(r)
  BY <1>0, <1>3, WriteStep, UnlockedFacts, CoherentRows DEF Clear
<1>4. CASE FinalizeStamp(r)
  <2>1. snapshot[r].op \in StampRequests
    BY <1>0, <1>4 DEF FinalizeStamp, Coherent, Row, ActionOf
  <2> QED
    BY <1>0, <1>4, <2>1, WriteStep, StampedFacts, CoherentRows DEF FinalizeStamp
<1>5. CASE FinalizeCancel(r)
  BY <1>0, <1>5, WriteStep, CancelledFacts, CoherentRows DEF FinalizeCancel
<1> QED
  BY <1>1, <1>2, <1>3, <1>4, <1>5 DEF Resolve

LEMMA TypeOperate ==
    ASSUME TypeInv, NEW r \in Lockers, Operate(r)
    PROVE  TypeInv'
<1> USE DEF End, Advance, Labels, Working, Ended, Requests
<1> DEFINE row == invoice[target[r]]
<1>0. row \in Row /\ Coherent(row)
  BY DEF TypeInv, TypeOK
<1>1. CASE Acquire(r)
  BY <1>0, <1>1, WriteStep, LockedFacts, CoherentRows DEF Acquire
<1>2. CASE LockRefused(r) \/ SkipPac(r) \/ NotConfigured(r)
  BY <1>2, MoveStep DEF LockRefused, SkipPac, NotConfigured
<1>3. CASE Replied(r) \/ RepliedError(r) \/ Timeout(r)
  BY <1>3, MoveStep DEF Replied, RepliedError, Timeout
<1>4. CASE Validate(r)
  BY <1>4, MoveStep DEF Validate
<1>5. CASE Send(r)
  BY <1>5 DEF Send, Goto, TypeInv, TypeOK, PacOutcomes, Coherent
<1>6. CASE CommitStamp(r)
  BY <1>0, <1>6, WriteStep, StampedFacts, CoherentRows DEF CommitStamp
<1>7. CASE CommitCancel(r)
  <2>1. PICK source \in {"LOCAL", "PAC"} : Write(r, Cancelled(row, source))
    BY <1>7 DEF CommitCancel
  <2> QED
    BY <1>0, <1>7, <2>1, WriteStep, CancelledFacts, CoherentRows DEF CommitCancel
<1>8. CASE Mark(r)
  <2>1. CASE row.action = ActionOf(r) /\ row.op = r
    <3>1. Coherent([row EXCEPT !.confirm = TRUE])
      BY <1>0, <2>1, ConfirmedFacts, RequestsAssumption DEF Coherent
    <3> QED
      BY <1>0, <1>8, <2>1, <3>1, WriteStep, ConfirmedFacts DEF Mark
  <2>2. CASE ~(row.action = ActionOf(r) /\ row.op = r)
    BY <1>8, <2>2, MoveStep DEF Mark
  <2> QED
    BY <2>1, <2>2
<1>9. CASE Release(r)
  <2>1. CASE row.action = ActionOf(r)
    BY <1>0, <1>9, <2>1, WriteStep, UnlockedFacts, CoherentRows DEF Release
  <2>2. CASE row.action # ActionOf(r)
    BY <1>9, <2>2, MoveStep DEF Release
  <2> QED
    BY <2>1, <2>2
<1> QED
  BY <1>1, <1>2, <1>3, <1>4, <1>5, <1>6, <1>7, <1>8, <1>9 DEF Operate

LEMMA TypeStep == TypeInv /\ [Next]_vars => TypeInv'
<1> SUFFICES ASSUME TypeInv, [Next]_vars PROVE TypeInv'
  OBVIOUS
<1> USE DEF End, Advance, Labels, Working, Ended
<1>1. ASSUME NEW r \in Requests, Start(r) \/ Resolve(r) PROVE TypeInv'
  BY <1>1, TypeStart, TypeResolve
<1>2. ASSUME NEW r \in Requests, Abort(r) PROVE TypeInv'
  BY <1>2, MoveStep DEF Abort
<1>3. ASSUME NEW r \in Lockers, Operate(r) PROVE TypeInv'
  BY <1>3, TypeOperate
<1>4. ASSUME NEW r \in Lockers, CommitFails(r) PROVE TypeInv'
  <2>1. r \in Requests
    BY DEF Requests
  <2> QED
    BY <1>4, <2>1, MoveStep DEF CommitFails
<1>5. ASSUME NEW r \in Lockers, PacDecides(r) PROVE TypeInv'
  BY <1>5 DEF PacDecides, TypeInv, TypeOK, PacOutcomes, Coherent
<1>6. CASE UNCHANGED vars
  BY <1>6 DEF vars, TypeInv, TypeOK, Coherent
<1> QED
  BY <1>1, <1>2, <1>3, <1>4, <1>5, <1>6 DEF Next, Idle

(* Every reachable state of Spec is well typed, for any number of invoices  *)
(* and requests and under every fault of the environment.                   *)
THEOREM TypeCorrect == Spec => []TypeOK
<1>1. Init => TypeInv
  BY TypeInit
<1>2. TypeInv /\ [Next]_vars => TypeInv'
  BY TypeStep
<1>3. TypeInv => TypeOK
  BY DEF TypeInv
<1> QED
  BY <1>1, <1>2, <1>3, PTL DEF Spec

-----------------------------------------------------------------------------
(* Mutual exclusion, when unconfirmed operations are resolved one at a      *)
(* time.  A request at work holds the lock of its row, unconfirmed; a       *)
(* request that resolves an operation still finds it in the row, confirmed  *)
(* for resolution, and is alone in doing so.                                *)

Holds(r) ==
    r \in Lockers /\ invoice[target[r]].op = r /\ ~invoice[target[r]].confirm

Resolves(r) ==
    /\ invoice[target[r]].confirm
    /\ invoice[target[r]].op = snapshot[r].op
    /\ invoice[target[r]].action = snapshot[r].action

LockInv ==
    /\ \A r \in Requests : pc[r] \in Working => Holds(r)
    /\ \A r \in Requests : pc[r] \in Resolving => Resolves(r)
    /\ \A r, q \in Requests :
          target[r] = target[q] /\ pc[r] \in Resolving /\ pc[q] \in Resolving
              => r = q

LEMMA LabelFacts ==
    /\ Working \cap Resolving = {}
    /\ (Working \cup Resolving) \cap (Ended \cup {"read", "lock"}) = {}
BY DEF Working, Resolving, Ended

(* Nobody else works on or resolves the row of a request that does.         *)
LEMMA Alone ==
    ASSUME LockInv, NEW r \in Requests, pc[r] \in Working \cup Resolving,
           NEW q \in Requests, q # r, target[q] = target[r]
    PROVE  pc[q] \notin Working \cup Resolving
<1>1. CASE pc[r] \in Working
  BY <1>1 DEF LockInv, Holds, Resolves
<1>2. CASE pc[r] \in Resolving
  BY <1>2 DEF LockInv, Holds, Resolves
<1> QED
  BY <1>1, <1>2

(* The last step of a request at work may write anything into its row.      *)
LEMMA LastStep ==
    ASSUME TypeInv, LockInv, NEW r \in Requests,
           pc[r] \in Working \cup Resolving,
           (\E row : Write(r, row)) \/ UNCHANGED invoice,
           NEW label \in Ended, End(r, label), UNCHANGED target
    PROVE  LockInv'
<1>1. ASSUME NEW q \in Requests, pc'[q] \in Working \cup Resolving
      PROVE  /\ q # r /\ pc'[q] = pc[q] /\ snapshot'[q] = snapshot[q]
             /\ target[q] # target[r]
             /\ invoice'[target[q]] = invoice[target[q]]
  <2>1. q # r /\ pc'[q] = pc[q] /\ snapshot'[q] = snapshot[q]
    BY <1>1, LabelFacts DEF End, Goto, TypeInv, TypeOK
  <2>2. target[q] # target[r]
    BY <1>1, <2>1, Alone
  <2>3. invoice'[target[q]] = invoice[target[q]]
    BY <2>2 DEF Write, TypeInv, TypeOK
  <2> QED
    BY <2>1, <2>2, <2>3
<1> QED
  BY <1>1 DEF LockInv, Holds, Resolves

(* A step that keeps the row and moves a request between labels of the same *)
(* kind, or between labels that hold nothing.                               *)
LEMMA QuietStep ==
    ASSUME TypeInv, LockInv, NEW r \in Requests, NEW label \in Labels,
           Goto(r, label), UNCHANGED <<invoice, target>>,
           \A q \in Requests \ {r} : snapshot'[q] = snapshot[q],
           \/ label \in Working /\ pc[r] \in Working
           \/ label \in Resolving /\ pc[r] \in Resolving
                /\ snapshot'[r] = snapshot[r]
           \/ label \notin Working \cup Resolving
    PROVE  LockInv'
<1>1. \A q \in Requests : pc'[q] = IF q = r THEN label ELSE pc[q]
  BY DEF Goto, TypeInv, TypeOK
<1>2. ASSUME NEW q \in Requests, pc'[q] \in Working PROVE Holds(q)'
  BY <1>1, <1>2, LabelFacts DEF LockInv, Holds
<1>3. ASSUME NEW q \in Requests, pc'[q] \in Resolving
      PROVE  pc[q] \in Resolving /\ Resolves(q)'
  BY <1>1, <1>3, LabelFacts DEF LockInv, Resolves
<1> QED
  BY <1>2, <1>3 DEF LockInv

LEMMA LockStart ==
    ASSUME "overlap" \notin Faults, TypeInv, LockInv,
           NEW r \in Requests, Start(r)
    PROVE  LockInv'
<1> USE DEF Begin, End, TypeInv, TypeOK
<1>1. CASE Deny(r) \/ Refuse(r)
  BY <1>1, QuietStep, LabelFacts DEF Deny, Refuse, Labels, Ended
<1>2. CASE AcceptNew(r)
  BY <1>2, QuietStep, LabelFacts DEF AcceptNew, Accept, Labels
<1>3. CASE AcceptRetry(r) \/ AcceptReconcile(r)
  <2>1. PICK label \in Resolving : Accept(r, label)
    BY <1>3 DEF AcceptRetry, AcceptReconcile, Resolving
  <2>2. Unconfirmed(invoice[target[r]])
    BY <1>3, <2>1, RequestsAssumption
    DEF AcceptRetry, AcceptReconcile, OwnKindUnconfirmed, Accept, Refusable,
        Requests, Lockers
  <2>3. \A q \in Requests : target[q] = target[r] => pc[q] \notin Resolving
    BY <1>3 DEF AcceptRetry, AcceptReconcile, MayResolve
  <2>4. \A q \in Requests : pc'[q] = IF q = r THEN label ELSE pc[q]
    BY <2>1 DEF Accept, Goto
  <2>5. /\ \A q \in Requests \ {r} : snapshot'[q] = snapshot[q]
        /\ snapshot'[r] = invoice[target[r]]
        /\ UNCHANGED <<invoice, target>>
    BY <2>1 DEF Accept
  <2>6. ASSUME NEW q \in Requests, pc'[q] \in Working PROVE Holds(q)'
    BY <2>1, <2>4, <2>5, <2>6, LabelFacts DEF LockInv, Holds
  <2>7. ASSUME NEW q \in Requests, pc'[q] \in Resolving PROVE Resolves(q)'
    BY <2>2, <2>4, <2>5, <2>7 DEF LockInv, Resolves, Unconfirmed
  <2>8. ASSUME NEW q \in Requests, NEW p \in Requests, target'[q] = target'[p],
               pc'[q] \in Resolving, pc'[p] \in Resolving
        PROVE  q = p
    BY <2>3, <2>4, <2>5, <2>8 DEF LockInv
  <2> QED
    BY <2>6, <2>7, <2>8 DEF LockInv
<1> QED
  BY <1>1, <1>2, <1>3 DEF Start

LEMMA LockResolve ==
    ASSUME TypeInv, LockInv, NEW r \in Requests, Resolve(r)
    PROVE  LockInv'
<1>1. CASE QueryInconclusive(r) \/ Clear(r) \/ FinalizeStamp(r) \/ FinalizeCancel(r)
  <2>1. /\ pc[r] \in Resolving
        /\ (\E row : Write(r, row)) \/ UNCHANGED invoice
        /\ End(r, "done") /\ "done" \in Ended /\ UNCHANGED target
    BY <1>1
    DEF QueryInconclusive, Clear, FinalizeStamp, FinalizeCancel, Resolving, Ended
  <2> QED
    BY <2>1, LastStep
<1>2. CASE QueryAnswer(r)
  BY <1>2, QuietStep DEF QueryAnswer, Advance, Resolving, Labels
<1> QED
  BY <1>1, <1>2 DEF Resolve

LEMMA LockOperate ==
    ASSUME TypeInv, LockInv, NEW r \in Lockers, Operate(r)
    PROVE  LockInv'
<1>0. r \in Requests
  BY DEF Requests
<1>1. CASE Acquire(r)
  <2> DEFINE i == target[r]
  <2>1. i \in Invoices /\ invoice[i] \in Row /\ Coherent(invoice[i])
    BY <1>0 DEF TypeInv, TypeOK
  <2>2. invoice[i].op = NoRequest /\ ~invoice[i].confirm
    BY <1>1, <2>1, RequestsAssumption DEF Acquire, Lockable, Coherent, Row
  <2>3. \A q \in Requests : target[q] = i => pc[q] \notin Working \cup Resolving
    BY <2>2, RequestsAssumption DEF LockInv, Holds, Resolves, Requests
  <2>4. \A q \in Requests : q # r => pc'[q] = pc[q]
    BY <1>0, <1>1 DEF Acquire, Advance, Goto, TypeInv, TypeOK
  <2>5. pc'[r] \in Working
    BY <1>0, <1>1 DEF Acquire, Advance, Goto, TypeInv, TypeOK, Working
  <2>6. /\ UNCHANGED <<target, snapshot>>
        /\ invoice' = [invoice EXCEPT ![i] = Locked(invoice[i], r)]
    BY <1>1 DEF Acquire, Advance, Write
  <2>7. invoice'[i].op = r /\ ~invoice'[i].confirm
    BY <2>1, <2>6, LockedFacts DEF TypeInv, TypeOK
  <2>8. ASSUME NEW q \in Requests, q # r, pc'[q] \in Working \cup Resolving
        PROVE  pc'[q] = pc[q] /\ invoice'[target[q]] = invoice[target[q]]
    BY <2>3, <2>4, <2>6, <2>8 DEF TypeInv, TypeOK
  <2>9. ASSUME NEW q \in Requests, pc'[q] \in Working PROVE Holds(q)'
    BY <2>6, <2>7, <2>8, <2>9 DEF LockInv, Holds
  <2>10. ASSUME NEW q \in Requests, pc'[q] \in Resolving
         PROVE  pc[q] \in Resolving /\ Resolves(q)'
    BY <2>5, <2>6, <2>8, <2>10, LabelFacts DEF LockInv, Resolves
  <2> QED
    BY <2>6, <2>9, <2>10 DEF LockInv
<1>2. CASE LockRefused(r)
  BY <1>0, <1>2, QuietStep, LabelFacts
  DEF LockRefused, End, Labels, Ended, TypeInv, TypeOK
<1>3. CASE \/ Validate(r) \/ SkipPac(r) \/ Send(r) \/ NotConfigured(r)
           \/ Replied(r) \/ RepliedError(r) \/ Timeout(r)
  <2>1. PICK label \in Working :
            pc[r] \in Working /\ Advance(r, label) /\ UNCHANGED <<invoice, target>>
    BY <1>3 DEF Validate, SkipPac, Send, NotConfigured, Replied, RepliedError,
                Timeout, Working
  <2> QED
    BY <1>0, <2>1, QuietStep DEF Advance, Labels
<1>4. CASE CommitStamp(r) \/ CommitCancel(r) \/ Mark(r) \/ Release(r)
  <2>1. /\ pc[r] \in Working
        /\ (\E row : Write(r, row)) \/ UNCHANGED invoice
        /\ End(r, "done") /\ "done" \in Ended /\ UNCHANGED target
    BY <1>4 DEF CommitStamp, CommitCancel, Mark, Release, Working, Ended
  <2> QED
    BY <1>0, <2>1, LastStep
<1> QED
  BY <1>1, <1>2, <1>3, <1>4 DEF Operate

LEMMA LockStep ==
    ASSUME "overlap" \notin Faults
    PROVE  TypeInv /\ LockInv /\ [Next]_vars => LockInv'
<1> SUFFICES ASSUME TypeInv, LockInv, [Next]_vars PROVE LockInv'
  OBVIOUS
<1>1. ASSUME NEW r \in Requests, Start(r) \/ Resolve(r) PROVE LockInv'
  BY <1>1, LockStart, LockResolve
<1>2. ASSUME NEW r \in Requests, Abort(r) PROVE LockInv'
  BY <1>2, QuietStep, LabelFacts DEF Abort, End, Labels, Ended, TypeInv, TypeOK
<1>3. ASSUME NEW r \in Lockers, Operate(r) PROVE LockInv'
  BY <1>3, LockOperate
<1>4. ASSUME NEW r \in Lockers, CommitFails(r) PROVE LockInv'
  <2>0. r \in Requests
    BY DEF Requests
  <2>1. CASE PacCompleted(r)
    BY <1>4, <2>0, <2>1, QuietStep, LabelFacts
    DEF CommitFails, End, Labels, Ended, TypeInv, TypeOK
  <2>2. CASE ~PacCompleted(r)
    BY <1>4, <2>0, <2>2, QuietStep DEF CommitFails, Advance, Labels, Working
  <2> QED
    BY <2>1, <2>2
<1>5. CASE UNCHANGED <<invoice, pc, target, snapshot>>
  BY <1>5 DEF LockInv, Holds, Resolves
<1> QED
  BY <1>1, <1>2, <1>3, <1>4, <1>5 DEF Next, Idle, PacDecides, vars

(* While unconfirmed operations are resolved one at a time, a request that  *)
(* has the processing lock is alone on its invoice until its handler ends,  *)
(* whatever crashes, times out or is answered ambiguously.                  *)
THEOREM MutualExclusion ==
    ASSUME "overlap" \notin Faults
    PROVE  Spec => []LockExclusive
<1>1. Init => TypeInv /\ LockInv
  BY TypeInit, LabelFacts DEF Init, LockInv
<1>2. TypeInv /\ LockInv /\ [Next]_vars => (TypeInv /\ LockInv)'
  BY TypeStep, LockStep
<1>3. LockInv => LockExclusive
  <2> SUFFICES ASSUME LockInv, NEW r \in Requests, pc[r] \in Working
               PROVE  /\ invoice[target[r]].op = r
                      /\ \A q \in Requests \ {r} : target[q] = target[r] =>
                            pc[q] \notin Working \cup Resolving
    BY DEF LockExclusive
  <2> QED
    BY Alone DEF LockInv, Holds
<1> QED
  BY <1>1, <1>2, <1>3, PTL DEF Spec

=============================================================================
