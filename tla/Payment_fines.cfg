\* Requests for two violations while rules, reports and vehicles change.
CONSTANTS
    Requests = {r1, r2}
    Members = {m1, m2}
    Officers = {o1}
    ViolationIds = {v1, v2}
    Plates = {p1}
    Codes = {c1}
    Amounts = {100, 250}
    MaxVersion = 2
SYMMETRY FullSymmetry
SPECIFICATION Spec
INVARIANTS
    ChargedTheCitedFine
    PayersHeldTheVehicle
PROPERTIES
    ImplementsLedger
