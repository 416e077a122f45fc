\* A request to the violation service and a payment, in a process that may be
\* stopped or killed, and started again.
CONSTANTS
    Payers = {p1}
    Reporters = {r1}
    Members = {m1}
    Officers = {o1}
    Codes = {"C"}
    Plates = {"P"}
    CodeTexts = {"C"}
    PlateTexts = {"p"}
    Normal <- MCNormal
    Amounts = {100, 250}
    MaxVersion = 2
    PageSize = 1
    Pages = {1}
    Width = 16
    MaxVehicles = 1
SPECIFICATION FairSpec
INVARIANTS
    TypeOK
    ChargedAsShown
    OrderlyStopsLoseNothing
PROPERTIES
    ImplementsPayment
    ImplementsReports
    SignalsStop
