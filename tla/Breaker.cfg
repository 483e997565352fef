\* Two overlapping runs, of the router or of another mode; the window is twice
\* the cooldown and twice the time an answer is good for, as in the code.
CONSTANTS
    r1 = r1  r2 = r2
    Runs <- TwoRuns
    WINDOW = 2
    THRESHOLD = 3
    COOLDOWN = 1
    TTL = 1
    MaxNow = 5
    MaxRecords <- RecordsOf
SYMMETRY RunSymmetry
SPECIFICATION Spec
INVARIANTS TypeOK MatchesHistory WindowMatchesHistory BackInService
