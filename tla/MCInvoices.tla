----------------------------- MODULE MCInvoices -----------------------------
(***************************************************************************)
(* Instances of Invoices for TLC: one operator and one finance user, the   *)
(* invoices owned by the operator.                                         *)
(***************************************************************************)
EXTENDS InvoicesRefinement, TLC

CONSTANTS oscar, fiona

MCUsers   == {oscar, fiona}
MCRolesOf == oscar :> {"OPERATOR"} @@ fiona :> {"FINANCE"}
MCOwner   == [i \in Invoices |-> oscar]

NoFaults      == {}
AbortFault    == {"abort"}
OverlapFault  == {"overlap"}
OverlappingFaults == {"abort", "ambiguous", "overlap"}

Symmetry ==
    Permutations(StampRequests) \cup Permutations(CancelRequests)
        \cup Permutations(ReconcileRequests)

=============================================================================
