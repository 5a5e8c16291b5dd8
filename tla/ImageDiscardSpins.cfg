CONSTANTS
    Reader = {r1}
    Consumer = r1
    Publisher = scan
    Torn = Torn
    MaxVersion = 2
SPECIFICATION FairTakeSpec

PROPERTY DiscardReturns
