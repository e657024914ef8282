---------------------------- MODULE MCCustomers ----------------------------
(***************************************************************************)
(* Instances of Customers for TLC: an operator, who sees and manages what  *)
(* is hers, a finance user, who sees and manages everything, and an        *)
(* auditor, who only reads.  The requests and the tax ids are              *)
(* interchangeable.                                                        *)
(***************************************************************************)
EXTENDS Customers, TLC

CONSTANTS operator, finance, auditor

AllUsers == {operator, finance, auditor}

SomeRoles ==
    [u \in Users |->
        CASE u = operator -> {"OPERATOR"}
          [] u = finance -> {"FINANCE"}
          [] u = auditor -> {"AUDITOR"}]

Symmetry == Permutations(Requests) \cup Permutations(TaxIds)

=============================================================================
