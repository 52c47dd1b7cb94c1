\* The same call on a server whose send may be cancelled after it took effect.
CONSTANTS
    MaxCancels = 2
    CancelAfterDelivery = TRUE
    ReceiveMayFail = FALSE
SPECIFICATION FairSpec
INVARIANTS TwiceOnlyByCancel
