CONSTANTS
    Capacity = 3
    Value = {v1, v2}
    NoValue = NoValue
    Torn = Torn
SPECIFICATION FairSpec
INVARIANT NoSlotRace
PROPERTIES ImplementsFifo FullClears
