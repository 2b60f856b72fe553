\* Thirteen lexemes: [a.b], [a] and [a] again on three lines.
CONSTANTS
    MaxPath = 2
    MaxLen = 13
SPECIFICATION Spec
INVARIANTS TreeSound NothingLost
PROPERTY StopsUnlessCutOff
CHECK_DEADLOCK FALSE
