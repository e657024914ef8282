---------------------------- MODULE PaymentsProofs ----------------------------
(***************************************************************************)
(* Theorems about Payments, for any number of requests, users, keys and    *)
(* bodies, under every fault.                                              *)
(***************************************************************************)
EXTENDS PaymentsRefinement, TLAPS

-----------------------------------------------------------------------------
(* Every variable keeps its type, whatever fails.                           *)
THEOREM PaymentsTypeCorrect == Spec => []PaymentsTypeOK
<1>1. Init => PaymentsTypeOK
  BY DEF Init, PaymentsTypeOK, Payload, Labels, Answer, Kinds
<1>2. PaymentsTypeOK /\ [Next]_vars => PaymentsTypeOK'
  <2> SUFFICES ASSUME PaymentsTypeOK, [Next]_vars PROVE PaymentsTypeOK'
    OBVIOUS
  <2> USE DEF PaymentsTypeOK
  <2>1. ASSUME NEW r \in Requests, NEW kind \in Kinds,
               NEW id \in Requests \cup {NoRow}, Reply(r, kind, id)
        PROVE  /\ pc' \in [Requests -> Labels]
               /\ answer' \in [Requests -> Answer]
    <3>1. [kind |-> kind, id |-> id] \in Answer
      BY DEF Answer
    <3> QED BY <2>1, <3>1 DEF Reply, Goto, Labels
  <2>2. ASSUME NEW r \in Requests, NEW kind \in {"denied", "replayed", "conflict"},
               NEW id \in Requests \cup {NoRow}, Audited(r, kind, id)
        PROVE  /\ pc' \in [Requests -> Labels]
               /\ answer' \in [Requests -> Answer]
               /\ audit' \subseteq (Kinds \X Requests)
    <3>1. /\ kind \in Kinds /\ "unavailable" \in Kinds
          /\ NoRow \in Requests \cup {NoRow}
      BY DEF Kinds
    <3>2. Reply(r, kind, id) \/ Reply(r, "unavailable", NoRow)
      BY <2>2 DEF Audited
    <3>3. audit' \subseteq audit \cup {<<kind, r>>}
      BY <2>2 DEF Audited
    <3> QED BY <2>1, <3>1, <3>2, <3>3
  <2>3. ASSUME NEW r \in Requests PROVE RowOf(r) \in PaymentRow
    BY DEF RowOf, PaymentRow, Payload
  <2>4. ASSUME NEW r \in Requests, NEW p \in payments, Found(r, p)
        PROVE  PaymentsTypeOK'
    BY <2>4 DEF Found, Goto, PaymentRow, Labels
  <2>5. ASSUME NEW r \in Requests, Deny(r) PROVE PaymentsTypeOK'
    BY <2>5, <2>2 DEF Deny
  <2>6. ASSUME NEW r \in Requests, Allow(r) PROVE PaymentsTypeOK'
    BY <2>6 DEF Allow, Goto, Labels
  <2>7. ASSUME NEW r \in Requests, Lookup(r) PROVE PaymentsTypeOK'
    <3>1. CASE \E p \in Matching(r) : Found(r, p)
      BY <3>1, <2>4 DEF Matching
    <3>2. CASE Matching(r) = {}
      BY <2>7, <3>2 DEF Lookup, Goto, Labels
    <3> QED BY <2>7, <3>1, <3>2 DEF Lookup
  <2>8. ASSUME NEW r \in Requests, LookupAgain(r) PROVE PaymentsTypeOK'
    <3>1. CASE Matching(r) # {}
      BY <2>8, <3>1, <2>4 DEF LookupAgain, Matching
    <3>2. CASE Matching(r) = {}
      BY <2>8, <3>2, <2>1 DEF LookupAgain, Kinds
    <3> QED BY <3>1, <3>2
  <2>9. ASSUME NEW r \in Requests, Create(r) PROVE PaymentsTypeOK'
    BY <2>9, <2>1, <2>3 DEF Create, Kinds
  <2>10. ASSUME NEW r \in Requests, CreateUnacknowledged(r) PROVE PaymentsTypeOK'
    BY <2>10, <2>1, <2>3 DEF CreateUnacknowledged, Kinds
  <2>11. ASSUME NEW r \in Requests, CreateRefused(r) PROVE PaymentsTypeOK'
    BY <2>11 DEF CreateRefused, Goto, Labels
  <2>12. ASSUME NEW r \in Requests, Resolve(r) PROVE PaymentsTypeOK'
    <3>1. PICK p \in payments :
             Audited(r, "replayed", p.id) \/ Audited(r, "conflict", p.id)
      BY <2>12 DEF Resolve
    <3>2. p.id \in Requests \cup {NoRow}
      BY DEF PaymentRow
    <3> QED BY <2>12, <2>2, <3>1, <3>2 DEF Resolve
  <2>13. ASSUME NEW r \in Requests, DatabaseFails(r) PROVE PaymentsTypeOK'
    BY <2>13, <2>1 DEF DatabaseFails, Kinds
  <2>14. ASSUME NEW r \in Requests, Crash(r) PROVE PaymentsTypeOK'
    BY <2>14 DEF Crash, Goto, Labels
  <2>15. CASE UNCHANGED vars
    BY <2>15 DEF vars
  <2> QED BY <2>5, <2>6, <2>7, <2>8, <2>9, <2>10, <2>11, <2>12, <2>13, <2>14,
             <2>15 DEF Next, Handle, Idle
<1> QED BY <1>1, <1>2, PTL DEF Spec

-----------------------------------------------------------------------------
(* The table and the trail only grow, a row at a time, and only where no    *)
(* row has the key.                                                         *)
Inserts(r) ==
    /\ pc[r] = "create"
    /\ Matching(r) = {}
    /\ payments' = payments \cup {RowOf(r)}
    /\ <<"created", r>> \in audit'

LEMMA Growth ==
    ASSUME [Next]_vars
    PROVE  /\ payload' = payload
           /\ audit \subseteq audit'
           /\ payments' = payments \/ \E r \in Requests : Inserts(r)
<1>1. ASSUME NEW r \in Requests, Handle(r)
      PROVE  /\ payload' = payload
             /\ audit \subseteq audit'
             /\ payments' = payments \/ Inserts(r)
  BY <1>1 DEF Handle, Deny, Allow, Lookup, LookupAgain, Create, Found, Audited,
              CreateUnacknowledged, CreateRefused, Resolve, DatabaseFails, Inserts
<1>2. ASSUME NEW r \in Requests, Crash(r)
      PROVE  UNCHANGED <<payload, audit, payments>>
  BY <1>2 DEF Crash
<1>3. CASE UNCHANGED vars
  BY <1>3 DEF vars
<1> QED BY <1>1, <1>2, <1>3 DEF Next, Idle

(* A user's idempotency key names at most one payment: the insert that the  *)
(* unique index accepts finds no row with the key, and nothing else adds a  *)
(* row.                                                                     *)
THEOREM KeysAreIdempotent == Spec => []OnePaymentPerKey
<1>1. Init => OnePaymentPerKey
  BY DEF Init, OnePaymentPerKey
<1>2. OnePaymentPerKey /\ [Next]_vars => OnePaymentPerKey'
  <2> SUFFICES ASSUME OnePaymentPerKey, [Next]_vars PROVE OnePaymentPerKey'
    OBVIOUS
  <2>1. CASE payments' = payments
    BY <2>1 DEF OnePaymentPerKey
  <2>2. ASSUME NEW r \in Requests, Inserts(r) PROVE OnePaymentPerKey'
    <3>1. \A p \in payments :
             ~(p.key # NoKey /\ p.key = RowOf(r).key /\ p.user = RowOf(r).user)
      BY <2>2 DEF Inserts, Matching, RowOf
    <3> QED BY <2>2, <3>1 DEF Inserts, OnePaymentPerKey
  <2> QED BY <2>1, <2>2, Growth
<1> QED BY <1>1, <1>2, PTL DEF Spec

-----------------------------------------------------------------------------
(* What a handler holds while it works is still so when it uses it: rows    *)
(* are never changed or removed.                                            *)
Mine(p, r) == p.user = payload[r].user /\ p.key = payload[r].key

(* The answer a to request r, as AnswersAreTrue has it.                     *)
TrueAnswer(r, a) ==
    a.kind \in {"created", "replayed", "conflict"} =>
        \E p \in payments :
            /\ p.id = a.id
            /\ Mine(p, r)
            /\ (p.fingerprint = payload[r].body) <=> (a.kind # "conflict")

(* A handler that resolves a replay holds a row of its own key, one that    *)
(* lost the race will find one, and the answers are true.                   *)
Truthful(r) ==
    /\ pc[r] = "resolve" => \E p \in payments : p.id = found[r] /\ Mine(p, r)
    /\ pc[r] = "lookupAgain" => Matching(r) # {}
    /\ TrueAnswer(r, answer[r])
    /\ answer[r].kind # "constraint"

(* A row is what its request sent, so its id names one row.                 *)
RowsAreSent == \A p \in payments : p.id \in Requests /\ p = RowOf(p.id)

Believed == RowsAreSent /\ \A r \in Requests : Truthful(r)

(* A step that leaves r's own state alone, or only moves r on, keeps what   *)
(* is true of r: the table only grows.                                      *)
LEMMA StaysTruthful ==
    ASSUME [Next]_vars, NEW r \in Requests, Truthful(r),
           answer'[r] = answer[r],
           pc'[r] = "resolve" => pc[r] = "resolve" /\ found'[r] = found[r],
           pc'[r] = "lookupAgain" => pc[r] = "lookupAgain"
    PROVE  Truthful(r)'
<1>1. payload' = payload /\ payments \subseteq payments'
  BY Growth DEF Inserts
<1> QED BY <1>1 DEF Truthful, TrueAnswer, Mine, Matching

LEMMA RowsStaySent ==
    ASSUME RowsAreSent, [Next]_vars
    PROVE  RowsAreSent'
<1>1. payload' = payload
  BY Growth
<1>2. ASSUME NEW r \in Requests
      PROVE  RowOf(r).id \in Requests /\ RowOf(r) = RowOf(RowOf(r).id)
  BY DEF RowOf
<1>3. ASSUME NEW p \in payments' PROVE p.id \in Requests /\ p = RowOf(p.id)
  <2>1. p \in payments \/ \E r \in Requests : p = RowOf(r)
    BY Growth DEF Inserts
  <2> QED BY <1>2, <2>1 DEF RowsAreSent
<1> QED BY <1>1, <1>3 DEF RowsAreSent, RowOf

(* An answer that says nothing about a row.                                 *)
LEMMA SilentAnswer ==
    ASSUME PaymentsTypeOK, NEW r \in Requests, NEW kind \in {"denied", "unavailable"},
           Reply(r, kind, NoRow)
    PROVE  Truthful(r)'
BY DEF PaymentsTypeOK, Reply, Goto, Truthful, TrueAnswer

LEMMA TrueReply ==
    ASSUME PaymentsTypeOK, [Next]_vars, NEW r \in Requests,
           NEW kind \in {"created", "replayed", "conflict"},
           NEW p \in payments', Mine(p, r),
           (p.fingerprint = payload[r].body) <=> (kind # "conflict"),
           Reply(r, kind, p.id)
    PROVE  Truthful(r)'
<1>1. payload' = payload
  BY Growth
<1>2. /\ answer'[r].kind = kind /\ answer'[r].id = p.id
      /\ pc'[r] = "done"
  BY DEF PaymentsTypeOK, Reply, Goto
<1> QED BY <1>1, <1>2 DEF Truthful, TrueAnswer, Mine

LEMMA OwnStepTruthful ==
    ASSUME PaymentsTypeOK, [Next]_vars, RowsAreSent, NEW r \in Requests,
           Truthful(r), Handle(r) \/ Crash(r)
    PROVE  Truthful(r)'
<1> USE DEF PaymentsTypeOK
<1>1. ASSUME NEW p \in Matching(r), Found(r, p) PROVE Truthful(r)'
  <2>1. p \in payments /\ Mine(p, r)
    BY DEF Matching, Mine
  <2>2. /\ pc'[r] = "resolve" /\ found'[r] = p.id
        /\ answer' = answer /\ payload' = payload /\ payments' = payments
    BY <1>1 DEF Found, Goto
  <2> QED BY <2>1, <2>2 DEF Truthful, TrueAnswer, Mine
<1>2. CASE Deny(r)
  <2>1. Reply(r, "denied", NoRow) \/ Reply(r, "unavailable", NoRow)
    BY <1>2 DEF Deny, Audited
  <2> QED BY <2>1, SilentAnswer
<1>3. CASE Allow(r)
  BY <1>3, StaysTruthful DEF Allow, Goto
<1>4. CASE Lookup(r)
  <2>1. CASE Matching(r) = {}
    <3>1. answer' = answer /\ pc'[r] = "create"
      BY <1>4, <2>1 DEF Lookup, Goto
    <3> QED BY <3>1, StaysTruthful
  <2>2. CASE Matching(r) # {}
    BY <1>4, <1>1, <2>2 DEF Lookup
  <2> QED BY <2>1, <2>2
<1>5. CASE LookupAgain(r)
  <2>1. Matching(r) # {}
    BY <1>5 DEF LookupAgain, Truthful
  <2> QED BY <1>5, <1>1, <2>1 DEF LookupAgain
<1>6. CASE Create(r)
  <2>1. /\ RowOf(r) \in payments'
        /\ RowOf(r).id = r /\ Mine(RowOf(r), r)
        /\ RowOf(r).fingerprint = payload[r].body
    BY <1>6 DEF Create, RowOf, Mine
  <2>2. Reply(r, "created", RowOf(r).id)
    BY <1>6, <2>1 DEF Create
  <2> QED BY <2>1, <2>2, TrueReply
<1>7. CASE CreateUnacknowledged(r)
  BY <1>7, SilentAnswer DEF CreateUnacknowledged
<1>8. CASE CreateRefused(r)
  <2>1. /\ answer' = answer /\ payload' = payload /\ payments' = payments
        /\ pc'[r] = "lookupAgain" /\ Matching(r) # {}
    BY <1>8 DEF CreateRefused, Goto
  <2> QED BY <2>1 DEF Truthful, TrueAnswer, Mine, Matching
<1>9. CASE Resolve(r)
  <2>1. PICK p \in payments :
           /\ p.id = found[r]
           /\ IF p.fingerprint = payload[r].body
              THEN Audited(r, "replayed", p.id)
              ELSE Audited(r, "conflict", p.id)
    BY <1>9 DEF Resolve
  <2>2. Mine(p, r)
    BY <1>9, <2>1 DEF Resolve, Truthful, RowsAreSent
  <2>3. p \in payments'
    BY <1>9 DEF Resolve
  <2>4. ASSUME NEW kind \in {"replayed", "conflict"}, Audited(r, kind, p.id),
               (p.fingerprint = payload[r].body) <=> (kind # "conflict")
        PROVE  Truthful(r)'
    <3>1. Reply(r, kind, p.id) \/ Reply(r, "unavailable", NoRow)
      BY <2>4 DEF Audited
    <3> QED BY <2>2, <2>3, <2>4, <3>1, TrueReply, SilentAnswer
  <2> QED BY <2>1, <2>4
<1>10. CASE DatabaseFails(r)
  BY <1>10, SilentAnswer DEF DatabaseFails
<1>11. CASE Crash(r)
  BY <1>11, StaysTruthful DEF Crash, Goto
<1> QED BY <1>2, <1>3, <1>4, <1>5, <1>6, <1>7, <1>8, <1>9, <1>10, <1>11 DEF Handle

LEMMA OthersUndisturbed ==
    ASSUME PaymentsTypeOK, NEW r \in Requests, Handle(r) \/ Crash(r),
           NEW q \in Requests, q # r
    PROVE  pc'[q] = pc[q] /\ found'[q] = found[q] /\ answer'[q] = answer[q]
BY DEF PaymentsTypeOK, Handle, Deny, Allow, Lookup, LookupAgain, Create, Found,
       Audited, CreateUnacknowledged, CreateRefused, Resolve, DatabaseFails, Crash,
       Reply, Goto

THEOREM BelievedHolds == Spec => []Believed
<1>1. Init => Believed
  BY DEF Init, Believed, RowsAreSent, Truthful, TrueAnswer
<1>2. PaymentsTypeOK /\ Believed /\ [Next]_vars => Believed'
  <2> SUFFICES ASSUME PaymentsTypeOK, Believed, [Next]_vars PROVE Believed'
    OBVIOUS
  <2>1. RowsAreSent'
    BY RowsStaySent DEF Believed
  <2>2. ASSUME NEW q \in Requests PROVE Truthful(q)'
    <3>1. CASE \E r \in Requests : Handle(r) \/ Crash(r)
      <4>1. PICK r \in Requests : Handle(r) \/ Crash(r)
        BY <3>1
      <4>2. CASE q = r
        BY <4>1, <4>2, OwnStepTruthful DEF Believed
      <4>3. CASE q # r
        BY <4>1, <4>3, OthersUndisturbed, StaysTruthful DEF Believed
      <4> QED BY <4>2, <4>3
    <3>2. CASE UNCHANGED vars
      BY <3>2, StaysTruthful DEF vars, Believed
    <3> QED BY <3>1, <3>2 DEF Next, Idle
  <2> QED BY <2>1, <2>2 DEF Believed
<1> QED BY <1>1, <1>2, PaymentsTypeCorrect, PTL DEF Spec

(* The client is told the truth: what is answered as created or replayed is *)
(* a stored payment of exactly this body, and a conflict is a real one.     *)
THEOREM AnswersHold == Spec => []AnswersAreTrue
<1>1. Believed => AnswersAreTrue
  BY DEF Believed, Truthful, TrueAnswer, Mine, AnswersAreTrue
<1> QED BY <1>1, BelievedHolds, PTL

(* The unique violation never reaches the client.                           *)
THEOREM RaceNeverShows == Spec => []RaceIsInvisible
<1>1. Believed => RaceIsInvisible
  BY DEF Believed, Truthful, RaceIsInvisible
<1> QED BY <1>1, BelievedHolds, PTL

-----------------------------------------------------------------------------
(* No payment and no fail-closed answer without its audit event: the trail  *)
(* only grows, the insert shares its transaction with the event, and an     *)
(* event that could not be written turns the answer into a failure.         *)
THEOREM TrailHolds == Spec => []TrailIsComplete
<1>1. Init => TrailIsComplete
  BY PaymentsAssumption DEF Init, TrailIsComplete
<1>2. PaymentsTypeOK /\ TrailIsComplete /\ [Next]_vars => TrailIsComplete'
  <2> SUFFICES ASSUME PaymentsTypeOK, TrailIsComplete, [Next]_vars
               PROVE  TrailIsComplete'
    OBVIOUS
  <2>1. ASSUME NEW p \in payments' PROVE <<"created", p.id>> \in audit'
    <3>1. ASSUME NEW r \in Requests PROVE RowOf(r).id = r
      BY DEF RowOf
    <3>2. p \in payments \/ \E r \in Requests : Inserts(r) /\ p = RowOf(r)
      BY Growth DEF Inserts
    <3> QED BY <3>1, <3>2, Growth DEF TrailIsComplete, Inserts
  <2>2. ASSUME NEW q \in Requests, answer'[q].kind \in FailClosed
        PROVE  <<answer'[q].kind, q>> \in audit'
    <3>1. CASE answer'[q] = answer[q]
      BY <2>2, <3>1, Growth DEF TrailIsComplete
    <3>2. ASSUME NEW kind \in Kinds, NEW id, Reply(q, kind, id)
          PROVE  answer'[q].kind = kind
      BY <3>2 DEF Reply, PaymentsTypeOK
    <3>3. ASSUME NEW kind \in {"denied", "replayed", "conflict"}, NEW id,
                 Audited(q, kind, id)
          PROVE  <<answer'[q].kind, q>> \in audit'
      <4>1. CASE Reply(q, kind, id) /\ audit' = audit \cup {<<kind, q>>}
        BY <3>2, <4>1 DEF Kinds
      <4>2. CASE Reply(q, "unavailable", NoRow)
        BY <2>2, <3>2, <4>2, PaymentsAssumption DEF Kinds
      <4>3. CASE Reply(q, kind, id) /\ kind \notin FailClosed
        BY <2>2, <3>2, <4>3 DEF Kinds
      <4> QED BY <3>3, <4>1, <4>2, <4>3 DEF Audited
    <3>4. CASE Handle(q)
      <4>1. CASE Deny(q)
        BY <4>1, <3>3 DEF Deny
      <4>2. CASE Resolve(q)
        BY <4>2, <3>3 DEF Resolve
      <4>3. CASE \E kind \in {"created", "constraint", "unavailable"} :
                     \E id \in {q, NoRow} : Reply(q, kind, id)
        BY <2>2, <4>3, <3>2, PaymentsAssumption DEF Kinds
      <4>4. CASE answer' = answer
        BY <3>1, <4>4
      <4> QED BY <3>4, <4>1, <4>2, <4>3, <4>4
          DEF Handle, Allow, Lookup, LookupAgain, Found, Create,
              CreateUnacknowledged, CreateRefused, DatabaseFails
    <3>5. CASE Crash(q) \/ UNCHANGED vars
      BY <3>1, <3>5 DEF Crash, vars
    <3>6. ASSUME NEW r \in Requests, Handle(r) \/ Crash(r), q # r
          PROVE  answer'[q] = answer[q]
      BY <3>6, OthersUndisturbed
    <3> QED BY <3>1, <3>4, <3>5, <3>6 DEF Next, Idle
  <2> QED BY <2>1, <2>2 DEF TrailIsComplete
<1> QED BY <1>1, <1>2, PaymentsTypeCorrect, PTL DEF Spec

-----------------------------------------------------------------------------
(* The handlers implement the ledger: each is served in the step that       *)
(* answers it.                                                              *)

(* A handler at work has not answered yet; past the role check it works for *)
(* a user who may pay; and it resolves a replay only for a request with a   *)
(* key.                                                                     *)
Unserved(r) ==
    /\ pc[r] # "done" => answer[r].kind = "none"
    /\ pc[r] \notin {"start", "done"} => Ledger!Allowed(r)
    /\ pc[r] = "resolve" => payload[r].key # NoKey

Serving == \A r \in Requests : Unserved(r)

LEMMA OwnStepUnserved ==
    ASSUME PaymentsTypeOK, NEW r \in Requests, Unserved(r),
           Handle(r) \/ Crash(r)
    PROVE  Unserved(r)'
<1> USE DEF PaymentsTypeOK, Unserved, Ledger!Allowed
<1>1. ASSUME NEW kind, NEW id, Reply(r, kind, id) PROVE pc'[r] = "done"
  BY <1>1 DEF Reply, Goto
<1>2. ASSUME NEW kind, NEW id, Audited(r, kind, id) PROVE pc'[r] = "done"
  BY <1>1, <1>2 DEF Audited
<1>3. ASSUME NEW p \in Matching(r), Found(r, p), pc[r] \notin {"start", "done"}
      PROVE  Unserved(r)'
  BY <1>3 DEF Found, Goto, Matching
<1>4. CASE Deny(r) \/ Resolve(r)
  BY <1>2, <1>4 DEF Deny, Resolve
<1>5. CASE Allow(r)
  BY <1>5 DEF Allow, Goto
<1>6. CASE Lookup(r)
  BY <1>3, <1>6 DEF Lookup, Goto
<1>7. CASE LookupAgain(r)
  BY <1>1, <1>3, <1>7 DEF LookupAgain
<1>8. CASE Create(r) \/ CreateUnacknowledged(r) \/ DatabaseFails(r)
  BY <1>1, <1>8 DEF Create, CreateUnacknowledged, DatabaseFails
<1>9. CASE CreateRefused(r) \/ Crash(r)
  BY <1>9 DEF CreateRefused, Crash, Goto
<1> QED
  BY <1>4, <1>5, <1>6, <1>7, <1>8, <1>9 DEF Handle

THEOREM ServingHolds == Spec => []Serving
<1>1. Init => Serving
  <2> SUFFICES ASSUME Init, NEW r \in Requests PROVE Unserved(r)
    BY DEF Serving
  <2>1. pc[r] = "start" /\ answer[r].kind = "none"
    BY DEF Init
  <2> QED
    BY <2>1 DEF Unserved
<1>2. PaymentsTypeOK /\ Serving /\ [Next]_vars => Serving'
  <2> SUFFICES ASSUME PaymentsTypeOK, Serving, [Next]_vars,
                      NEW q \in Requests
               PROVE  Unserved(q)'
    BY DEF Serving
  <2>1. Unserved(q) /\ payload' = payload
    BY Growth DEF Serving
  <2>2. ASSUME NEW r \in Requests, Handle(r) \/ Crash(r), q # r
        PROVE  Unserved(q)'
    BY <2>1, <2>2, OthersUndisturbed DEF Unserved, Ledger!Allowed
  <2>3. CASE UNCHANGED vars
    BY <2>1, <2>3 DEF vars, Unserved, Ledger!Allowed
  <2> QED
    BY <2>1, <2>2, <2>3, OwnStepUnserved DEF Next, Idle
<1> QED
  BY <1>1, <1>2, PaymentsTypeCorrect, PTL DEF Spec

LEMMA SameWords ==
    ASSUME NEW r \in Requests
    PROVE  /\ Ledger!Entry(r) = RowOf(r)
           /\ Ledger!Holders(r) = Matching(r)
BY DEF Ledger!Entry, RowOf, Ledger!Holders, Matching

LEMMA ReplyTells ==
    ASSUME NEW r \in Requests, Unserved(r), pc[r] # "done", NEW kind, NEW id,
           Reply(r, kind, id)
    PROVE  Ledger!Tell(r, kind, id)
BY DEF Unserved, Reply, Ledger!Tell

(* An answer whose event may fail to be written: what the ledger tells, or  *)
(* a failure without an entry.                                              *)
LEMMA AuditedTells ==
    ASSUME NEW r \in Requests, Unserved(r), pc[r] # "done", NEW kind, NEW id,
           Audited(r, kind, id), UNCHANGED <<payload, payments>>
    PROVE  Ledger!Tell(r, kind, id) \/ Ledger!Fail(r)
<1>1. CASE Reply(r, kind, id)
  BY <1>1, ReplyTells
<1>2. CASE Reply(r, "unavailable", NoRow) /\ "database" \in Faults
  BY <1>2, ReplyTells DEF Ledger!Fail
<1> QED
  BY <1>1, <1>2 DEF Audited

LEMMA ServesOrHides ==
    ASSUME NEW r \in Requests, Unserved(r), Truthful(r), RowsAreSent,
           OnePaymentPerKey, Handle(r) \/ Crash(r)
    PROVE  Ledger!Next \/ UNCHANGED <<payload, payments, answer>>
<1>1. CASE Deny(r)
  BY <1>1, AuditedTells DEF Deny, Ledger!Refuse, Ledger!Next, Ledger!Allowed
<1>2. CASE Allow(r) \/ CreateRefused(r) \/ Crash(r)
  BY <1>2 DEF Allow, CreateRefused, Crash
<1>3. CASE Lookup(r)
  BY <1>3 DEF Lookup, Found
<1>4. CASE LookupAgain(r)
  BY <1>4 DEF LookupAgain, Truthful, Found
<1>5. CASE Create(r)
  <2>1. Ledger!Tell(r, "created", r) /\ Ledger!Allowed(r)
    BY <1>5, ReplyTells DEF Create, Unserved
  <2> QED
    BY <1>5, <2>1, SameWords DEF Create, Ledger!Pay, Ledger!Next
<1>6. CASE CreateUnacknowledged(r)
  <2>1. Ledger!Tell(r, "unavailable", NoRow) /\ Ledger!Allowed(r)
    BY <1>6, ReplyTells DEF CreateUnacknowledged, Unserved
  <2> QED
    BY <1>6, <2>1, SameWords DEF CreateUnacknowledged, Ledger!Fail, Ledger!Next
<1>7. CASE Resolve(r)
  <2>1. PICK p \in payments :
           /\ p.id = found[r]
           /\ Audited(r, IF p.fingerprint = payload[r].body THEN "replayed"
                                                             ELSE "conflict", p.id)
    BY <1>7 DEF Resolve
  <2>2. p \in Ledger!Holders(r)
    BY <1>7, <2>1 DEF Resolve, Truthful, RowsAreSent, Mine, Unserved, Ledger!Holders
  <2>3. \/ Ledger!Tell(r, IF p.fingerprint = payload[r].body THEN "replayed"
                                                            ELSE "conflict", p.id)
        \/ Ledger!Fail(r)
    BY <1>7, <2>1, AuditedTells DEF Resolve
  <2> QED
    BY <1>7, <2>2, <2>3 DEF Resolve, Unserved, Ledger!Repeat, Ledger!Next
<1>8. CASE DatabaseFails(r)
  BY <1>8, ReplyTells DEF DatabaseFails, Ledger!Fail, Ledger!Next
<1> QED
  BY <1>1, <1>2, <1>3, <1>4, <1>5, <1>6, <1>7, <1>8 DEF Handle

(* For any number of racing, retried, failing and crashing requests the     *)
(* endpoint is the ledger: every step serves one request whole, with the    *)
(* entry and the answer it should have, or shows nothing.                   *)
THEOREM LedgerImplemented == Spec => ImplementsLedger
<1>1. Init => Ledger!Init
  BY DEF Init, Ledger!Init
<1>2. Believed /\ Serving /\ OnePaymentPerKey /\ [Next]_vars
          => [Ledger!Next]_(Ledger!vars)
  <2> SUFFICES ASSUME Believed, Serving, OnePaymentPerKey, [Next]_vars
               PROVE  Ledger!Next \/ UNCHANGED <<payload, payments, answer>>
    BY DEF Ledger!vars
  <2> QED
    BY ServesOrHides DEF Believed, Serving, Next, Idle, vars
<1> QED
  BY <1>1, <1>2, BelievedHolds, ServingHolds, KeysAreIdempotent, PTL
  DEF Spec, ImplementsLedger, Ledger!Spec

-----------------------------------------------------------------------------
(* Without faults no request is left without a true answer: one that has    *)
(* ended was created, replayed, refused for a conflict, or denied.          *)
EveryoneIsServed ==
    \A r \in Requests : pc[r] = "done" =>
        answer[r].kind \in {"created", "replayed", "conflict", "denied"}

THEOREM FaultlessIsServed ==
    ASSUME Faults = {}
    PROVE  Spec => []EveryoneIsServed
<1>1. Init => EveryoneIsServed
  BY DEF Init, EveryoneIsServed
<1>2. PaymentsTypeOK /\ Believed /\ EveryoneIsServed /\ [Next]_vars => EveryoneIsServed'
  <2> SUFFICES ASSUME PaymentsTypeOK, Believed, EveryoneIsServed, [Next]_vars,
                      NEW q \in Requests, pc'[q] = "done"
               PROVE  answer'[q].kind \in {"created", "replayed", "conflict", "denied"}
    BY DEF EveryoneIsServed
  <2>1. CASE pc'[q] = pc[q] /\ answer'[q] = answer[q]
    BY <2>1 DEF EveryoneIsServed
  <2>2. CASE Handle(q)
    <3>1. ASSUME NEW kind \in {"created", "replayed", "conflict", "denied"}, NEW id,
                 Reply(q, kind, id)
          PROVE  answer'[q].kind \in {"created", "replayed", "conflict", "denied"}
      BY <3>1 DEF Reply, PaymentsTypeOK
    <3>2. ASSUME NEW kind \in {"created", "replayed", "conflict", "denied"}, NEW id,
                 Audited(q, kind, id)
          PROVE  answer'[q].kind \in {"created", "replayed", "conflict", "denied"}
      BY <3>1, <3>2 DEF Audited
    <3>3. Truthful(q) /\ "done" = pc'[q]
      BY DEF Believed
    <3> QED
      BY <2>2, <3>1, <3>2, <3>3
      DEF PaymentsTypeOK, Handle, Deny, Allow, Lookup, LookupAgain, Found, Create,
          CreateUnacknowledged, CreateRefused, Resolve, DatabaseFails, Goto, Truthful
  <2>3. ASSUME NEW r \in Requests, Handle(r) \/ Crash(r), q # r
        PROVE  pc'[q] = pc[q] /\ answer'[q] = answer[q]
    BY <2>3, OthersUndisturbed
  <2>4. ASSUME NEW r \in Requests PROVE ~Crash(r)
    BY DEF Crash
  <2> QED
    BY <2>1, <2>2, <2>3, <2>4 DEF Next, Idle, vars
<1> QED
  BY <1>1, <1>2, PaymentsTypeCorrect, BelievedHolds, PTL DEF Spec

=============================================================================
