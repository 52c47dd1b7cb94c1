\* One call of every kind, cancelled at most twice, on a server whose
\* cancelled sends have not taken effect.
CONSTANTS
    MaxCancels = 2
    CancelAfterDelivery = FALSE
    ReceiveMayFail = TRUE
SPECIFICATION FairSpec
INVARIANTS TruthfulEnd NothingLeft OneLate
PROPERTIES IsResponse StopsAfterDisconnect
