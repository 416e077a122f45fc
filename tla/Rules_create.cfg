\* Two requests to create the same code.
CONSTANTS
    Requests = {r1, r2}
    Codes = {c1}
    Amounts = {100}
    Readers = {}
    MaxConns = 2
SPECIFICATION FairSpec
CHECK_DEADLOCK FALSE
PROPERTIES
    LateCreateConflicts
