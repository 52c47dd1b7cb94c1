CONSTANTS
    Calls = {a, b, c}
    Streams = {b, c}
    Tasks = {main, worker, framework}
    Traced = {framework}
    None = None
    main = main
    worker = worker
    framework = framework
    a = a
    b = b
    c = c
SYMMETRY Symmetry
SPECIFICATION SpanSpec
INVARIANTS Restored TraceJoined
