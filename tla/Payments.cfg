SPECIFICATION Spec
CONSTANTS
    olga = olga
    aldo = aldo
    NoKey = NoKey
    NoRow = NoRow
    Requests = {r1, r2, r3}
    Users <- MCUsers
    Creators <- MCCreators
    Keys = {k1}
    Bodies = {b1, b2}
    FailClosed <- MCFailClosed
    Faults <- FaultKinds
SYMMETRY Symmetry
INVARIANTS
    PaymentsTypeOK
    OnePaymentPerKey
    AnswersAreTrue
    RaceIsInvisible
    TrailIsComplete
PROPERTIES
    ImplementsLedger
