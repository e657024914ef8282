SPECIFICATION FairSpec
CONSTANTS
    Requests = {r1, r2}
    Accounts = {alice}
    Addresses = {office}
    Nobody = Nobody
    Offered <- SmallOffers
    Limits <- SmallLimits
    Faults <- FaultKinds
INVARIANTS
    ThrottleTypeOK
    GuessesBounded
    CounterHasWindow
PROPERTIES
    LockoutIsEarned
    BlockLifts
