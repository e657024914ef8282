SPECIFICATION Spec
CONSTANTS
    Requests = {r1, r2, r3}
    Sessions = {s1, s2}
    Seeded = {k1, k2}
    Old = Old
    CodesPerBatch = 2
    Absent = Absent
    Nobody = Nobody
    Offered <- Operations
    Faults <- FaultKinds
SYMMETRY Symmetry
INVARIANTS
    MfaTypeOK
    ChallengeOnce
PROPERTIES
    FactorsAgree
    CodesServeOnce
    RollbackRestores
