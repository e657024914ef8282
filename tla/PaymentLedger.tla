----------------------------- MODULE PaymentLedger -----------------------------
(***************************************************************************)
(* What POST /payments promises, without lookups, races or an audit trail: *)
(* every request takes effect and is answered in one step, at most once,   *)
(* as if requests came one after the other.  Payments.tla implements it    *)
(* (PaymentsRefinement.tla).                                               *)
(***************************************************************************)

CONSTANTS
    Creators,     \* the users who may create payments
    NoKey,
    NoRow,
    Requests,
    Unreliable    \* whether a request may fail, or its answer be lost

VARIABLES
    payload,      \* the user, the key and the body of each request
    payments,     \* the ledger
    answer        \* what the client was told

vars == <<payload, payments, answer>>

Entry(r) == [id |-> r, user |-> payload[r].user, key |-> payload[r].key,
             fingerprint |-> payload[r].body]

(* The entry that holds this user's key already.                            *)
Holders(r) ==
    {p \in payments : /\ payload[r].key # NoKey
                      /\ p.key = payload[r].key
                      /\ p.user = payload[r].user}

Allowed(r) == payload[r].user \in Creators

Tell(r, kind, id) ==
    /\ answer[r].kind = "none"
    /\ answer' = [answer EXCEPT ![r] = [kind |-> kind, id |-> id]]

Init ==
    /\ payments = {}
    /\ answer = [r \in Requests |-> [kind |-> "none", id |-> NoRow]]

-----------------------------------------------------------------------------
Refuse(r) ==
    /\ ~Allowed(r)
    /\ Tell(r, "denied", NoRow)
    /\ UNCHANGED <<payload, payments>>

(* The first request with a key pays, and so does any request without one.  *)
Pay(r) ==
    /\ Allowed(r)
    /\ Holders(r) = {}
    /\ payments' = payments \cup {Entry(r)}
    /\ Tell(r, "created", r)
    /\ UNCHANGED payload

(* Every later one is shown the entry, or told that its body differs.       *)
Repeat(r) ==
    /\ Allowed(r)
    /\ \E p \in Holders(r) :
          Tell(r, IF p.fingerprint = payload[r].body THEN "replayed" ELSE "conflict",
               p.id)
    /\ UNCHANGED <<payload, payments>>

(* A failure leaves the client in doubt: the entry was made, by right, or   *)
(* it was not.                                                              *)
Fail(r) ==
    /\ Unreliable
    /\ \/ UNCHANGED payments
       \/ Allowed(r) /\ Holders(r) = {} /\ payments' = payments \cup {Entry(r)}
    /\ Tell(r, "unavailable", NoRow)
    /\ UNCHANGED payload

Next == \E r \in Requests : Refuse(r) \/ Pay(r) \/ Repeat(r) \/ Fail(r)

Spec == Init /\ [][Next]_vars

=============================================================================
