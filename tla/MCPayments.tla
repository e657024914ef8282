----------------------------- MODULE MCPayments -----------------------------
(***************************************************************************)
(* An instance of Payments for TLC: a user who may create payments and one *)
(* who may not, and the audit policy of app.config.ts: of the answers      *)
(* recorded outside a transaction only the denials fail closed.            *)
(***************************************************************************)
EXTENDS PaymentsRefinement, TLC

CONSTANTS olga, aldo

MCUsers      == {olga, aldo}
MCCreators   == {olga}
MCFailClosed == {"denied"}

Symmetry == Permutations(Requests) \cup Permutations(Bodies)

=============================================================================
