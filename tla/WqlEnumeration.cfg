SPECIFICATION Spec
CONSTANTS
    None = None
    Special <- Reserved
    Cfg <- Configuration
    Namespaces <- AnyNamespace
    Contexts <- AnyContext
    Names <- FourNames
    Oddities <- AnyOddity
    MaxRetries = 1
    Caps <- SomeCaps
    MaxEmpty = 1
    MaxLosses = 2
INVARIANTS
    OkIsWholeAnswer
    ErrorsHaveAReason
CHECK_DEADLOCK FALSE
