\* Three requests beside a member with a vehicle and an officer.
CONSTANTS
    Requests = {r1, r2, r3}
    Emails = {"a", "b", "m", "o"}
    Plates = {"P"}
    EmailTexts = {"A", "b", " "}
    PlateTexts = {"p", " "}
    Normal <- MCNormal
    Passwords = {"secret", "long"}
    Short = {}
    TooLong = {"long"}
    Founders <- MCFounders
    Fleet <- MCFleet
SYMMETRY RequestSymmetry
SPECIFICATION Spec
CHECK_DEADLOCK FALSE
INVARIANTS
    TypeOK
    TokensSpeakForAccounts
    VehiclesBelongToMembers
    AnswersAreTruthful
    RegisteredMayLogIn
PROPERTIES
    FirstRegistrationStands
    RemovedByTheirOwners
    ImplementsRegistry
