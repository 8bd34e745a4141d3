SPECIFICATION FairSpec
CONSTANTS
    Evidence = {r1}
    Symbols = {r2, r3}
    Query = {r3}
    JobSlots = 1
    QuerySlots = 1
    Threads = 1
INVARIANTS
    SlotsAreConserved
PROPERTIES
    AnswersAreTheChilds
    WaitsEnd
