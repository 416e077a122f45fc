\* Two concurrent requests for one violation may both charge it.
CONSTANTS
    Requests = {r1, r2}
    Members = {m1}
    Officers = {}
    ViolationIds = {v1}
    Plates = {p1}
    Codes = {c1}
    Amounts = {100}
    MaxVersion = 1
SPECIFICATION Spec
INVARIANT
    ChargedAtMostOnce
