SPECIFICATION Spec
CONSTANTS
    None = None
    Lengths <- TextLengths
    Persons <- SomePersons
    Infos <- AllInfos
    MaxAltered = 1
INVARIANTS
    GoodLoginIsTaken
    BothSidesAgree
    TakenIsUnaltered
CHECK_DEADLOCK FALSE
