\* Every size up to 5, every overlap up to one past it, every run up to 14 words.
CONSTANTS
    MaxWords = 14
    MaxSize = 5
    MaxOverlap = 6
SPECIFICATION CutSpec
INVARIANTS
    CutAsExpected
