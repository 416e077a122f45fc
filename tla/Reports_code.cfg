\* An officer writes the code of an active rule in lower case.
CONSTANTS
    Requests = {r1}
    Alone = {}
    Members = {m1}
    Officers = {o1}
    Codes = {"C"}
    Plates = {"P"}
    CodeTexts = {"c"}
    PlateTexts = {"P"}
    Normal <- MCNormal
    Amounts = {100}
    MaxVersion = 1
    PageSize = 1
    Pages = {1}
    Width = 16
    MaxVehicles = 1
SPECIFICATION Spec
PROPERTIES
    RefusedCodeDoesNotExist
