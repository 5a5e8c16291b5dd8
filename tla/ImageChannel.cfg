CONSTANTS
    Reader = {r1, r2}
    Consumer = r1
    Publisher = scan
    Torn = Torn
    MaxVersion = 3
SPECIFICATION FairSpec
INVARIANTS TypeOK SlotHasOneUser FreshReads
PROPERTIES ConsumedOnce PublishReturns InputArrives
