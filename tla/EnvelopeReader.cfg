CONSTANTS
    Streams <- MCStreams
    Readers <- MCReaders
SPECIFICATION Spec
INVARIANTS Aligned NothingHeldBack OneFateEach
PROPERTIES IsFrameStream
