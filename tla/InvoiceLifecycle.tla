--------------------------- MODULE InvoiceLifecycle ---------------------------
(***************************************************************************)
(* What the invoice component promises, without locks, handlers or         *)
(* retries: the status the API shows and the fiscal document at the PAC    *)
(* move together.  Invoices.tla implements it (InvoicesRefinement.tla).    *)
(***************************************************************************)

CONSTANTS Invoices, Operations

VARIABLES
    status,      \* the status the API shows
    stampedBy,   \* the operations that stamped the invoice at the PAC
    voidedBy     \* the operations that cancelled it at the PAC

vars == <<status, stampedBy, voidedBy>>

Init ==
    /\ status = [i \in Invoices |-> "DRAFT"]
    /\ stampedBy = [i \in Invoices |-> {}]
    /\ voidedBy = [i \in Invoices |-> {}]

(* The PAC issues the document of a draft, once.                            *)
PacStamp(i, o) ==
    /\ status[i] = "DRAFT"
    /\ stampedBy[i] = {}
    /\ stampedBy' = [stampedBy EXCEPT ![i] = {o}]
    /\ UNCHANGED <<status, voidedBy>>

(* The API shows STAMPED only for a document the PAC has issued.            *)
RecordStamp(i) ==
    /\ status[i] = "DRAFT"
    /\ stampedBy[i] # {}
    /\ status' = [status EXCEPT ![i] = "STAMPED"]
    /\ UNCHANGED <<stampedBy, voidedBy>>

(* The PAC voids the document of an invoice shown as STAMPED, once.         *)
PacCancel(i, o) ==
    /\ status[i] = "STAMPED"
    /\ voidedBy[i] = {}
    /\ voidedBy' = [voidedBy EXCEPT ![i] = {o}]
    /\ UNCHANGED <<status, stampedBy>>

(* A draft is cancelled only while the PAC has issued nothing for it.  A    *)
(* stamped invoice should only be cancelled once the PAC has voided it;     *)
(* the code does not ensure that (CancelReachesPac in Invoices), so the     *)
(* promise is stated without it.                                            *)
RecordCancel(i) ==
    /\ \/ status[i] = "DRAFT" /\ stampedBy[i] = {}
       \/ status[i] = "STAMPED"
    /\ status' = [status EXCEPT ![i] = "CANCELLED"]
    /\ UNCHANGED <<stampedBy, voidedBy>>

Next ==
    \E i \in Invoices :
        \/ \E o \in Operations : PacStamp(i, o) \/ PacCancel(i, o)
        \/ RecordStamp(i)
        \/ RecordCancel(i)

Spec == Init /\ [][Next]_vars

=============================================================================
