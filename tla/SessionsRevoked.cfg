SPECIFICATION Spec
CONSTANTS
    Absent = Absent
    Nobody = Nobody
    Requests = {r1, r2, r3}
    Faults <- NoFaults
SYMMETRY Symmetry
INVARIANTS
    RevokedIsGone
