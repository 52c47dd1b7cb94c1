CONSTANTS
    MaxBatch = 1
    MaxAsks = 0
SPECIFICATION Spec
INVARIANTS TimeoutIsConnectError
