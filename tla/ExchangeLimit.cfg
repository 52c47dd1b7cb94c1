CONSTANTS
    Absent = Absent
    Texts <- MCTexts
    Keywords <- MCKeywords
    Settings <- MCSettings
    Trailers <- MCTrailers
    Intermediate <- MCIntermediate
    Bodies <- MCBodies
    MaxRepeats = 1
SPECIFICATION Spec
INVARIANT ReadLimited
