SPECIFICATION Spec
CONSTANTS
    oscar = oscar
    fiona = fiona
    NoRequest = NoRequest
    Invoices = {i1}
    StampRequests = {s1, s2, s3}
    CancelRequests = {c1}
    ReconcileRequests = {q1, q2}
    Users <- MCUsers
    RolesOf <- MCRolesOf
    Owner <- MCOwner
    Faults <- OverlapFault
SYMMETRY Symmetry
INVARIANTS
    NoDoubleEffect
