\* Three requests for one code, two connections, a fair database.
CONSTANTS
    Requests = {r1, r2, r3}
    Codes = {c1}
    Amounts = {100}
    Readers = {g1}
    MaxConns = 2
SPECIFICATION FairSpec
CHECK_DEADLOCK FALSE
INVARIANTS
    ReadersSeeOneHistory
PROPERTIES
    EveryRequestEnds
