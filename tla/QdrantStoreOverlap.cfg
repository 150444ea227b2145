\* Two goroutines, two upserts each, the server goes down once.
CONSTANTS
    c1 = c1
    c2 = c2
    Callers <- TwoCallers
    Requests = 2
    MaxAttempts = 3
    MaxOutages = 1
SPECIFICATION FairSpec
PROPERTIES
    OnlyOverlapHurts
    StoresEndConnected
