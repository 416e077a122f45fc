\* Four requests for one code on a pool of two connections.
CONSTANTS
    Requests = {r1, r2, r3, r4}
    Codes = {c1}
    Amounts = {100, 250}
    Readers = {}
    MaxConns = 2
SYMMETRY RequestSymmetry
SPECIFICATION Spec
CHECK_DEADLOCK FALSE
INVARIANTS
    TypeOK
    OneHistoryPerCode
    AnswersAreTruthful
    WaitsEnd
PROPERTIES
    ImplementsHistory
