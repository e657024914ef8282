SPECIFICATION Spec
CONSTANTS
    operator = operator
    finance = finance
    auditor = auditor
    Users <- AllUsers
    RolesOf <- SomeRoles
    Everyone = Everyone
    Absent = Absent
    Nobody = Nobody
    Requests = {r1, r2, r3}
    Seeded = {c1}
    TaxIds = {t1, t2}
    Faults <- FaultKinds
SYMMETRY Symmetry
INVARIANTS
    CustomersTypeOK
    StaleIsExplained
    AnswersPermitted
PROPERTIES
    OwnerIsForGood
