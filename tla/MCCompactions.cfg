CONSTANTS
    d1 = d1
    Deleters = {d1}
    Starts <- MCStarts
    Level1Gens = 2
    LevelGens = 2
    MaxTSMFileSize = 2
    MaxConcurrency = 2
SPECIFICATION Spec
INVARIANTS NoSharedFile NewestVisible
PROPERTIES DeletesReturn 
