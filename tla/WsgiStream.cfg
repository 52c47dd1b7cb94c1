CONSTANTS
    MaxRequests = 2
SPECIFICATION FairSpec
INVARIANTS TruthfulEnd ErrorIsDrained
PROPERTIES IsResponse ErrorsAreTold
