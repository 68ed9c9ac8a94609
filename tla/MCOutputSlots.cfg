\* Four tasks contending for two outputs.
CONSTANTS
    Slots <- MCSlots
    Inputs <- MCInputs
    Calls <- MCCalls
    RangeOf <- MCRangeOf
    InputOf <- MCInputOf
SPECIFICATION MCSpec
INVARIANTS
    TypeOK
    MutualExclusion
    OutputIsExact
    CompleteAtEnd
PROPERTY OneInputAtATime
