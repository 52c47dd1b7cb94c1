CONSTANTS
    MaxBatch = 2
    MaxAsks = 2
SPECIFICATION FairSpec
INVARIANTS DoneIsComplete BlameIsRight RawIsGarbage StreamErrorFirst NothingHeld
PROPERTIES Released DeadlineHolds
