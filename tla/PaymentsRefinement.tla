-------------------------- MODULE PaymentsRefinement --------------------------
(***************************************************************************)
(* The refinement mapping from Payments to PaymentLedger: the table, the   *)
(* payloads and the answers are the ledger's own; control points, lookups  *)
(* and the audit trail are not shown.                                      *)
(***************************************************************************)
EXTENDS Payments

Ledger == INSTANCE PaymentLedger WITH Unreliable <- Faults # {}

(* However the lookups, inserts and replays of several requests interleave, *)
(* createPayment behaves as if each request had been served in one step: a  *)
(* request is answered once and for good, only a permitted user's request   *)
(* enters a payment, at most one, and only for a free key; a taken key is   *)
(* answered from the table; and without faults no request fails.            *)
ImplementsLedger == Ledger!Spec

=============================================================================
