----------------------- MODULE InvoicesRefinementProofs -----------------------
(***************************************************************************)
(* Invoices implements InvoiceLifecycle, for any invoices and requests,    *)
(* under crashes and timeouts, when unconfirmed operations are resolved    *)
(* one at a time and the PAC's answers can be relied on.                   *)
(***************************************************************************)
EXTENDS InvoicesPacProofs

-----------------------------------------------------------------------------
(* An operation on its way to the PAC holds the lock, and a cancellation is *)
(* sent only for an invoice that has been stamped.                          *)

SentHolds == \A r \in Lockers : pac[r] = "sent" => invoice[target[r]].op = r

StampedSeen ==
    /\ \A r \in Requests :
          snapshot[r].status = "STAMPED" => invoice[target[r]].status # "DRAFT"
    /\ \A r \in CancelRequests :
          pac[r] # "none" => invoice[target[r]].status # "DRAFT"

LifecycleInv == EffectInv /\ RowBackedByPac /\ SentHolds /\ StampedSeen

(* Where the outcome of an operation is recorded, the PAC has decided it.   *)
LEMMA SourcePac ==
    ASSUME EffectInv, NEW i \in Invoices
    PROVE  /\ \A o \in StampRequests : StampSource(i, o) =>
                 pac[o] = "applied" /\ target[o] = i
           /\ \A source \in {"LOCAL", "PAC"} :
                 CancelSource(i, source) => pac[invoice[i].op] # "sent"
<1> USE DEF EffectInv
<1>1. ASSUME NEW o \in StampRequests, StampSource(i, o)
      PROVE  pac[o] = "applied" /\ target[o] = i
  <2>1. o # NoRequest /\ o \in Lockers /\ o \notin CancelRequests
    BY RequestsAssumption DEF Requests, Lockers
  <2> QED
    BY <1>1, <2>1 DEF StampSource, SnapInv, SnapOK, PcPac
<1>2. ASSUME NEW source \in {"LOCAL", "PAC"}, CancelSource(i, source)
      PROVE  pac[invoice[i].op] # "sent"
  <2>1. CASE \E r \in CancelRequests : pc[r] = "commit" /\ target[r] = i
    BY <2>1 DEF LockInv, Holds, Working, PcPac, Lockers, Requests
  <2>2. CASE \E r \in Requests : pc[r] = "finalize" /\ target[r] = i
    BY <2>2 DEF LockInv, Resolves, Resolving, SnapInv, SnapOK
  <2> QED
    BY <1>2, <2>1, <2>2 DEF CancelSource
<1> QED
  BY <1>1, <1>2

LEMMA SentStep ==
    ASSUME "ambiguous" \notin Faults, LifecycleInv, [Next]_vars
    PROVE  SentHolds'
<1> USE DEF LifecycleInv, EffectInv
<1> SUFFICES ASSUME NEW r \in Lockers, pac'[r] = "sent"
             PROVE  invoice'[target'[r]].op = r
  BY DEF SentHolds
<1> DEFINE i == target[r]
<1>1. i \in Invoices
  BY DEF TypeInv, TypeOK, Requests
<1>2. RowStep(i) /\ target' = target
  BY <1>1, RowSteps
<1>3. CASE ~Live(r)
  BY <1>2, <1>3, NewlyLive DEF Live, Holds
<1>4. CASE Live(r)
  <2>1. pac[r] = "sent"
    BY <1>4, Moves DEF Live, PcPac, Unsent
  <2>2. invoice[i].op = r
    BY <2>1 DEF SentHolds
  <2>3. ~UnlockSource(i)
    BY <1>1, <1>4, <2>2, UnlockIsSafe
  <2>4. ASSUME NEW q \in Lockers PROVE ~Lockable(invoice[i], q)
    <3>1. Coherent(invoice[i])
      BY <1>1 DEF TypeInv
    <3> QED
      BY <2>2, <3>1, RequestsAssumption DEF Lockable, Coherent, Requests
  <2>5. ASSUME NEW o \in StampRequests PROVE ~StampSource(i, o)
    BY <1>1, <2>1, <2>2, <2>5, SourceHolds, SourcePac
  <2>6. ASSUME NEW source \in {"LOCAL", "PAC"} PROVE ~CancelSource(i, source)
    BY <1>1, <2>1, <2>2, <2>6, SourcePac
  <2>7. CASE invoice'[i] = invoice[i]
    BY <1>2, <2>2, <2>7
  <2>8. CASE invoice'[i] = [invoice[i] EXCEPT !.confirm = TRUE]
    BY <1>1, <1>2, <2>2, <2>8, ConfirmedRow
  <2> QED
    BY <1>2, <2>3, <2>4, <2>5, <2>6, <2>7, <2>8 DEF RowStep
<1> QED
  BY <1>3, <1>4

(* A status other than DRAFT is not DRAFT again.                            *)
LEMMA NeverDraftAgain ==
    ASSUME EffectInv, [Next]_vars, NEW i \in Invoices,
           invoice[i].status # "DRAFT"
    PROVE  invoice'[i].status # "DRAFT"
<1>1. RowStep(i)
  BY RowSteps DEF EffectInv
<1> QED
  BY <1>1, UnlockedRow, LockedRow, StampedRow, CancelledRow, ConfirmedRow
  DEF RowStep, EffectInv

(* What a step may do to the snapshots, to the PAC and to the table.        *)
Remembers(q) ==
    \/ snapshot'[q] = snapshot[q]
    \/ snapshot'[q] = NewRow
    \/ snapshot'[q] = invoice[target[q]]

Quiet == \A o \in Lockers : pac'[o] = "applied" <=> pac[o] = "applied"

OneRow == \E i \in Invoices : invoice' = [invoice EXCEPT ![i] = invoice'[i]]

StepShape ==
    /\ \A q \in Requests : Remembers(q)
    /\ \A o \in CancelRequests : pac[o] = "none" /\ pac'[o] # "none" =>
          pc[o] = "call" /\ CallsPac(o)
    /\ \/ Quiet /\ (UNCHANGED invoice \/ OneRow)
       \/ /\ UNCHANGED invoice
          /\ \E r \in Lockers : /\ pac[r] = "sent"
                                /\ pac' = [pac EXCEPT ![r] = "applied"]

LEMMA StepShapes ==
    ASSUME TypeInv, PcPac, [Next]_vars
    PROVE  StepShape
<1> USE DEF TypeInv, TypeOK
<1>0. /\ \A r \in Lockers : r \in Requests
      /\ \A r \in CancelRequests : r \in Lockers
  BY DEF Requests, Lockers
<1>1. ASSUME NEW r \in Requests, NEW row, Write(r, row) PROVE OneRow
  <2>1. target[r] \in Invoices /\ invoice'[target[r]] = row
    BY <1>1 DEF Write
  <2> QED
    BY <1>1, <2>1 DEF Write, OneRow
<1>2. ASSUME NEW r \in Requests, NEW label,
             End(r, label) \/ Advance(r, label) \/ Accept(r, label)
      PROVE  \A q \in Requests : Remembers(q)
  BY <1>2 DEF End, Advance, Accept, Remembers
<1>3. ASSUME UNCHANGED pac, UNCHANGED invoice \/ OneRow,
             \A q \in Requests : Remembers(q)
      PROVE  StepShape
  BY <1>3 DEF StepShape, Quiet
<1>4. ASSUME NEW r \in Requests, Start(r) \/ Abort(r) PROVE StepShape
  BY <1>2, <1>3, <1>4 DEF Start, Begin, Deny, Refuse, AcceptNew, AcceptRetry,
                          AcceptReconcile, Accept, Abort
<1>5. ASSUME NEW r \in Requests, Resolve(r) PROVE StepShape
  <2>1. CASE QueryInconclusive(r) \/ QueryAnswer(r)
    BY <1>2, <1>3, <2>1 DEF QueryInconclusive, QueryAnswer
  <2>2. CASE Clear(r) \/ FinalizeStamp(r) \/ FinalizeCancel(r)
    BY <1>1, <1>2, <1>3, <2>2 DEF Clear, FinalizeStamp, FinalizeCancel
  <2> QED
    BY <1>5, <2>1, <2>2 DEF Resolve
<1>6. ASSUME NEW r \in Lockers, Operate(r) \/ CommitFails(r) PROVE StepShape
  <2>1. CASE LockRefused(r) \/ Validate(r) \/ SkipPac(r) \/ NotConfigured(r)
    BY <1>0, <1>2, <1>3, <2>1 DEF LockRefused, Validate, SkipPac, NotConfigured
  <2>2. CASE Replied(r) \/ RepliedError(r) \/ Timeout(r) \/ CommitFails(r)
    BY <1>0, <1>2, <1>3, <2>2 DEF Replied, RepliedError, Timeout, CommitFails
  <2>3. CASE Acquire(r) \/ CommitStamp(r) \/ CommitCancel(r)
    BY <1>0, <1>1, <1>2, <1>3, <2>3 DEF Acquire, CommitStamp, CommitCancel
  <2>4. CASE Mark(r) \/ Release(r)
    BY <1>0, <1>1, <1>2, <1>3, <2>4 DEF Mark, Release
  <2>5. CASE Send(r)
    <3>1. /\ \A q \in Requests : Remembers(q)
          /\ UNCHANGED invoice /\ pc[r] = "call" /\ CallsPac(r)
          /\ pac' = [pac EXCEPT ![r] = "sent"]
      BY <1>0, <1>2, <2>5 DEF Send
    <3>2. pac[r] = "none"
      BY <3>1 DEF PcPac, Unsent
    <3> QED
      BY <1>0, <3>1, <3>2 DEF StepShape, Quiet
  <2> QED
    BY <1>6, <2>1, <2>2, <2>3, <2>4, <2>5 DEF Operate
<1>7. ASSUME NEW r \in Lockers, PacDecides(r) PROVE StepShape
  <2>1. PICK outcome \in {"applied", "rejected", "lost"} :
            pac' = [pac EXCEPT ![r] = outcome]
    BY <1>7 DEF PacDecides
  <2>2. pac[r] = "sent" /\ UNCHANGED <<invoice, snapshot>>
    BY <1>7 DEF PacDecides
  <2>3. CASE outcome = "applied"
    BY <1>0, <2>1, <2>2, <2>3 DEF StepShape, Remembers
  <2>4. CASE outcome # "applied"
    BY <1>0, <2>1, <2>2, <2>4 DEF StepShape, Remembers, Quiet
  <2> QED
    BY <2>3, <2>4
<1>8. CASE UNCHANGED vars
  BY <1>3, <1>8 DEF vars, Remembers
<1> QED
  BY <1>4, <1>5, <1>6, <1>7, <1>8 DEF Next, Idle

LEMMA StampedSeenStep ==
    ASSUME LifecycleInv, [Next]_vars
    PROVE  StampedSeen'
<1> USE DEF LifecycleInv, EffectInv
<1>1. StepShape
  BY StepShapes
<1>2. ASSUME NEW r \in Requests
      PROVE  /\ target[r] \in Invoices /\ target' = target
             /\ invoice[target[r]].status # "DRAFT" =>
                   invoice'[target[r]].status # "DRAFT"
  <2>1. target[r] \in Invoices
    BY DEF TypeInv, TypeOK
  <2> QED
    BY <2>1, RowSteps, NeverDraftAgain
<1>3. ASSUME NEW r \in Requests, snapshot'[r].status = "STAMPED"
      PROVE  invoice'[target'[r]].status # "DRAFT"
  BY <1>1, <1>2, <1>3, NewRowFacts DEF StepShape, Remembers, StampedSeen
<1>4. ASSUME NEW r \in CancelRequests, pac'[r] # "none"
      PROVE  invoice'[target'[r]].status # "DRAFT"
  <2>1. r \in Requests /\ r \notin StampRequests
    BY RequestsAssumption DEF Requests, Lockers
  <2>2. invoice[target[r]].status # "DRAFT"
    BY <1>1, <1>4, <2>1 DEF StepShape, CallsPac, StampedSeen
  <2> QED
    BY <1>2, <2>1, <2>2
<1> QED
  BY <1>3, <1>4 DEF StampedSeen

LEMMA LifecycleInvariant ==
    ASSUME Faults \subseteq {"abort"}
    PROVE  Spec => []LifecycleInv
<1>0. {"overlap", "ambiguous", "misreport"} \cap Faults = {}
  OBVIOUS
<1>1. Init => SentHolds /\ StampedSeen /\ RowBackedByPac
  BY NewRowFacts DEF Init, SentHolds, StampedSeen, RowBackedByPac, Lockers
<1>2. EffectInv /\ EffectInv' /\ SentHolds /\ StampedSeen /\ RowBackedByPac
          /\ [Next]_vars => (SentHolds /\ StampedSeen /\ RowBackedByPac)'
  BY <1>0, SentStep, StampedSeenStep, BackStep DEF LifecycleInv, BackInv, EffectInv
<1>3. Spec => []EffectInv
  BY EffectInvariant
<1> QED
  BY <1>1, <1>2, <1>3, PTL DEF Spec, LifecycleInv

-----------------------------------------------------------------------------
(* The steps of the handlers and of the PAC, seen through the mapping.      *)

(* The PAC applies an operation.                                            *)
LEMMA PacAppliesStep ==
    ASSUME LifecycleInv, LifecycleInv', UNCHANGED <<invoice, target>>,
           NEW r \in Lockers, pac[r] = "sent",
           pac' = [pac EXCEPT ![r] = "applied"]
    PROVE  \E i \in Invoices :
              Lifecycle!PacStamp(i, r) \/ Lifecycle!PacCancel(i, r)
<1> DEFINE i == target[r]
<1> USE DEF LifecycleInv, EffectInv
<1>1. i \in Invoices /\ invoice[i].op = r /\ r # NoRequest
  BY RequestsAssumption DEF TypeInv, TypeOK, SentHolds, Requests
<1>2. \A q \in Lockers : pac'[q] = IF q = r THEN "applied" ELSE pac[q]
  BY DEF TypeInv, TypeOK
<1>3. UNCHANGED StatusShown
  BY DEF StatusShown
<1>4. CASE r \in StampRequests
  <2>1. invoice[i].status = "DRAFT" /\ invoice[i].ref = NoRequest
    BY <1>1, <1>4 DEF StatusInv, LockableStatuses
  <2>2. r \notin CancelRequests
    BY <1>4, RequestsAssumption
  <2>3. AppliedTo(i, StampRequests) = {}
    <3> SUFFICES ASSUME NEW q \in StampRequests, target[q] = i, pac[q] = "applied"
                 PROVE  FALSE
      BY DEF AppliedTo
    <3>1. q \in Lockers /\ q \notin CancelRequests /\ q # NoRequest
      BY RequestsAssumption DEF Lockers, Requests
    <3>2. Tracked(q)
      BY <3>1 DEF TrackInv, Live
    <3> QED
      BY <1>1, <2>1, <3>1, <3>2 DEF Tracked
  <2>4. AppliedTo(i, StampRequests)' = {r}
    BY <1>2, <1>4, <2>3 DEF AppliedTo, Lockers
  <2>5. \A j \in Invoices \ {i} :
            AppliedTo(j, StampRequests)' = AppliedTo(j, StampRequests)
    BY <1>2 DEF AppliedTo, Lockers
  <2>6. StampsAtPac' = [StampsAtPac EXCEPT ![i] = {r}]
    BY <1>1, <2>4, <2>5 DEF StampsAtPac
  <2>7. UNCHANGED CancelsAtPac
    <3>1. \A j \in Invoices :
              AppliedTo(j, CancelRequests)' = AppliedTo(j, CancelRequests)
      BY <1>2, <2>2 DEF AppliedTo, Lockers
    <3> QED
      BY <3>1 DEF CancelsAtPac
  <2>8. Lifecycle!PacStamp(i, r)
    BY <1>1, <1>3, <2>1, <2>3, <2>6, <2>7
    DEF Lifecycle!PacStamp, StatusShown, StampsAtPac
  <2> QED
    BY <1>1, <2>8
<1>5. CASE r \in CancelRequests
  <2>1. invoice[i].status = "STAMPED"
    BY <1>1, <1>5, RequestsAssumption DEF StatusInv, LockableStatuses, StampedSeen
  <2>2. r \notin StampRequests
    BY <1>5, RequestsAssumption
  <2>3. AppliedTo(i, CancelRequests) = {}
    <3> SUFFICES ASSUME NEW q \in CancelRequests, target[q] = i, pac[q] = "applied"
                 PROVE  FALSE
      BY DEF AppliedTo
    <3> QED
      BY <1>5 DEF TrackInv, Live
  <2>4. AppliedTo(i, CancelRequests)' = {r}
    BY <1>2, <1>5, <2>3 DEF AppliedTo, Lockers
  <2>5. \A j \in Invoices \ {i} :
            AppliedTo(j, CancelRequests)' = AppliedTo(j, CancelRequests)
    BY <1>2 DEF AppliedTo, Lockers
  <2>6. CancelsAtPac' = [CancelsAtPac EXCEPT ![i] = {r}]
    BY <1>1, <2>4, <2>5 DEF CancelsAtPac
  <2>7. UNCHANGED StampsAtPac
    <3>1. \A j \in Invoices :
              AppliedTo(j, StampRequests)' = AppliedTo(j, StampRequests)
      BY <1>2, <2>2 DEF AppliedTo, Lockers
    <3> QED
      BY <3>1 DEF StampsAtPac
  <2>8. Lifecycle!PacCancel(i, r)
    BY <1>1, <1>3, <2>1, <2>3, <2>6, <2>7
    DEF Lifecycle!PacCancel, StatusShown, CancelsAtPac
  <2> QED
    BY <1>1, <2>8
<1> QED
  BY <1>4, <1>5 DEF Lockers

(* A handler writes a row, or writes nothing.                               *)
LEMMA HandlerStep ==
    ASSUME LifecycleInv, [Next]_vars, Quiet, UNCHANGED invoice \/ OneRow
    PROVE  \/ \E i \in Invoices : Lifecycle!RecordStamp(i) \/ Lifecycle!RecordCancel(i)
           \/ UNCHANGED <<StatusShown, StampsAtPac, CancelsAtPac>>
<1> USE DEF LifecycleInv, EffectInv
<1>0. ASSUME NEW i \in Invoices PROVE RowStep(i) /\ target' = target
  BY RowSteps
<1>1. UNCHANGED <<StampsAtPac, CancelsAtPac>>
  <2>1. \A j \in Invoices :
            /\ AppliedTo(j, StampRequests)' = AppliedTo(j, StampRequests)
            /\ AppliedTo(j, CancelRequests)' = AppliedTo(j, CancelRequests)
    BY <1>0 DEF AppliedTo, Lockers, Quiet
  <2> QED
    BY <2>1 DEF StampsAtPac, CancelsAtPac
<1>2. CASE UNCHANGED invoice
  BY <1>1, <1>2 DEF StatusShown
<1>3. CASE OneRow
  <2>1. PICK i \in Invoices : invoice' = [invoice EXCEPT ![i] = invoice'[i]]
    BY <1>3 DEF OneRow
  <2>2. StatusShown' = [StatusShown EXCEPT ![i] = invoice'[i].status]
    BY <2>1 DEF StatusShown, TypeInv, TypeOK
  <2>3. CASE invoice'[i].status = invoice[i].status
    BY <1>1, <2>2, <2>3 DEF StatusShown
  <2>4. ASSUME NEW o \in StampRequests, StampSource(i, o),
               invoice'[i] = Stamped(invoice[i], o)
        PROVE  Lifecycle!RecordStamp(i)
    <3>1. invoice[i].status = "DRAFT" /\ pac[o] = "applied" /\ target[o] = i
      BY <2>4, SourceHolds, SourcePac
    <3>2. invoice'[i].status = "STAMPED"
      BY <2>4, StampedRow
    <3>3. AppliedTo(i, StampRequests) # {}
      BY <3>1 DEF AppliedTo
    <3> QED
      BY <1>1, <2>2, <3>1, <3>2, <3>3
      DEF Lifecycle!RecordStamp, StatusShown, StampsAtPac
  <2>5. ASSUME NEW source \in {"LOCAL", "PAC"}, CancelSource(i, source),
               invoice'[i] = Cancelled(invoice[i], source)
        PROVE  Lifecycle!RecordCancel(i)
    <3>1. /\ invoice[i].op \in CancelRequests
          /\ invoice[i].status \in {"DRAFT", "STAMPED"}
      BY <2>5, SourceHolds
    <3>2. invoice'[i].status = "CANCELLED"
      BY <2>5, CancelledRow
    <3>3. invoice[i].status = "DRAFT" => AppliedTo(i, StampRequests) = {}
      <4> SUFFICES ASSUME invoice[i].status = "DRAFT", NEW q \in StampRequests,
                          target[q] = i, pac[q] = "applied"
                   PROVE  FALSE
        BY DEF AppliedTo
      <4>1. q \in Lockers /\ q \notin CancelRequests /\ q # NoRequest
        BY RequestsAssumption DEF Lockers, Requests
      <4>2. Tracked(q)
        BY <4>1 DEF TrackInv, Live
      <4> QED
        BY <3>1, <4>1, <4>2 DEF Tracked, StatusInv
    <3> QED
      BY <1>1, <2>2, <3>1, <3>2, <3>3
      DEF Lifecycle!RecordCancel, StatusShown, StampsAtPac
  <2> QED
    BY <1>0, <2>3, <2>4, <2>5, UnlockedRow, LockedRow, ConfirmedRow DEF RowStep
<1> QED
  BY <1>2, <1>3

(* The processing lock, the retries and the reconciliation implement the    *)
(* life cycle of an invoice, whatever crashes or times out: the PAC stamps  *)
(* only drafts, once; STAMPED is shown only for what the PAC stamped; it    *)
(* cancels only stamped invoices, once; and a draft the PAC has stamped is  *)
(* not cancelled behind its back.                                           *)
THEOREM LifecycleImplemented ==
    ASSUME Faults \subseteq {"abort"}
    PROVE  Spec => ImplementsLifecycle
<1>1. Init => Lifecycle!Init
  <2> SUFFICES ASSUME Init PROVE Lifecycle!Init
    OBVIOUS
  <2>1. StatusShown = [i \in Invoices |-> "DRAFT"]
    BY NewRowFacts DEF Init, StatusShown
  <2>2. \A i \in Invoices : /\ AppliedTo(i, StampRequests) = {}
                            /\ AppliedTo(i, CancelRequests) = {}
    BY DEF Init, AppliedTo, Lockers
  <2> QED
    BY <2>1, <2>2 DEF Lifecycle!Init, StampsAtPac, CancelsAtPac
<1>2. LifecycleInv /\ LifecycleInv' /\ [Next]_vars
          => [Lifecycle!Next]_(Lifecycle!vars)
  <2> SUFFICES ASSUME LifecycleInv, LifecycleInv', [Next]_vars
               PROVE  Lifecycle!Next \/ UNCHANGED <<StatusShown, StampsAtPac, CancelsAtPac>>
    BY DEF Lifecycle!vars
  <2>1. StepShape
    BY StepShapes DEF LifecycleInv, EffectInv
  <2>2. CASE Quiet /\ (UNCHANGED invoice \/ OneRow)
    BY <2>2, HandlerStep DEF Lifecycle!Next
  <2>3. CASE /\ UNCHANGED invoice
             /\ \E r \in Lockers : /\ pac[r] = "sent"
                                   /\ pac' = [pac EXCEPT ![r] = "applied"]
    <3>1. PICK r \in Lockers : /\ pac[r] = "sent"
                               /\ pac' = [pac EXCEPT ![r] = "applied"]
      BY <2>3
    <3>2. target[r] \in Invoices
      BY DEF LifecycleInv, EffectInv, TypeInv, TypeOK, Requests
    <3>3. target' = target
      BY <3>2, RowSteps DEF LifecycleInv, EffectInv
    <3> QED
      BY <2>3, <3>1, <3>3, PacAppliesStep DEF Lifecycle!Next
  <2> QED
    BY <2>1, <2>2, <2>3 DEF StepShape
<1>3. Spec => []LifecycleInv
  BY LifecycleInvariant
<1> QED
  BY <1>1, <1>2, <1>3, PTL DEF Spec, ImplementsLifecycle, Lifecycle!Spec

=============================================================================
