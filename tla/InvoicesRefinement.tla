-------------------------- MODULE InvoicesRefinement --------------------------
(***************************************************************************)
(* The refinement mapping from Invoices to InvoiceLifecycle: the status    *)
(* column, and the operations the PAC has applied to each invoice.         *)
(***************************************************************************)
EXTENDS Invoices

AppliedTo(i, requests) == {r \in requests : target[r] = i /\ pac[r] = "applied"}

StatusShown   == [i \in Invoices |-> invoice[i].status]
StampsAtPac   == [i \in Invoices |-> AppliedTo(i, StampRequests)]
CancelsAtPac  == [i \in Invoices |-> AppliedTo(i, CancelRequests)]

Lifecycle == INSTANCE InvoiceLifecycle
    WITH Operations <- Lockers,
         status     <- StatusShown,
         stampedBy  <- StampsAtPac,
         voidedBy   <- CancelsAtPac

(* The handlers, the lock and the retries keep the promise of the           *)
(* lifecycle: every step of them is one of its steps or changes nothing it  *)
(* shows.                                                                   *)
ImplementsLifecycle == Lifecycle!Spec

=============================================================================
