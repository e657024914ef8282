SPECIFICATION Spec
CONSTANTS
    Absent = Absent
    Nobody = Nobody
    Requests = {r1, r2, r3}
    Faults <- FaultKinds
SYMMETRY Symmetry
INVARIANTS
    SessionsTypeOK
    FactorWasProven
    GoneIsAccounted
    LiveIsIndexed
    RevokedAllThatWereDue
PROPERTIES
    GoneForGood
