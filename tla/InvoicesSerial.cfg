SPECIFICATION Spec
CONSTANTS
    oscar = oscar
    fiona = fiona
    NoRequest = NoRequest
    Invoices = {i1}
    StampRequests = {s1, s2, s3}
    CancelRequests = {c1, c2}
    ReconcileRequests = {q1}
    Users <- MCUsers
    RolesOf <- MCRolesOf
    Owner <- MCOwner
    Faults <- AbortFault
SYMMETRY Symmetry
INVARIANTS
    LockExclusive
    NoDoubleEffect
    PacEffectTracked
PROPERTIES
    StatusMovesForward
    ImplementsLifecycle
