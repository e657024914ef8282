SPECIFICATION Spec
CONSTANTS
    oscar = oscar
    fiona = fiona
    NoRequest = NoRequest
    Invoices = {i1}
    StampRequests = {s1, s2}
    CancelRequests = {c1}
    ReconcileRequests = {q1}
    Users <- MCUsers
    RolesOf <- MCRolesOf
    Owner <- MCOwner
    Faults <- OverlappingFaults
INVARIANTS
    TypeOK
    RowBackedByPac
    ConfirmationIsOver
    AbandonedOnlyByAbort
PROPERTIES
    LockSettles
