\* Reports and lookups while rules are replaced and vehicles change hands.
\* Offsets of two bits: page 3 has a negative one, page 5 that of page 1.
CONSTANTS
    Requests = {r1, r2, f1}
    Alone = {f1}
    Members = {m1, m2}
    Officers = {o1}
    Codes = {"C"}
    Plates = {"P", "Q"}
    CodeTexts = {"C"}
    PlateTexts = {"p", "x"}
    Normal <- MCNormal
    Amounts = {a1, a2}
    MaxVersion = 2
    PageSize = 1
    Pages = {1, 2, 3, 5}
    Width = 2
    MaxVehicles = 1
SYMMETRY ReportsSymmetry
VIEW ReportsView
SPECIFICATION Spec
INVARIANTS
    TypeOK
    CitesTheRuleOfItsTime
    AnswersAreTruthful
    ReadsStayTrue
    MembersSeeTheirOwn
    ListingsAddUp
