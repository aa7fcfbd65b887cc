CONSTANTS
    Locales <- MCLocales
    Unset = Unset
    Assigned <- MCAssigned
    Documents <- MCDocuments
    MaxFields = 2
    Later <- MCLater
    Allowances = {2, 3, 5, 40}
    CallsPerUnit = 2
    MaxRegions = 3
SPECIFICATION Spec
INVARIANTS
    ChargeIsExact
    NothingHidden
    KnownNumbersAreTold
PROPERTIES
    ChargesTheAllowance
