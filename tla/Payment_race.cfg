\* Three concurrent requests of one member for one violation.
CONSTANTS
    Requests = {r1, r2, r3}
    Members = {m1}
    Officers = {}
    ViolationIds = {v1}
    Plates = {p1}
    Codes = {c1}
    Amounts = {100}
    MaxVersion = 1
SPECIFICATION FairSpec
INVARIANTS
    TypeOK
    ChargedImpliesPaid
    AnswersAreTruthful
    PaidIsExplained
PROPERTIES
    ChargeWindowCloses
    LedgerFreezes
    EveryPaymentEnds
