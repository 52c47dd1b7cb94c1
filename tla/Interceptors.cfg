CONSTANTS NumLayers = 3
SPECIFICATION FairSpec
INVARIANTS Nested NothingSwallowed
PROPERTIES AllEnd
