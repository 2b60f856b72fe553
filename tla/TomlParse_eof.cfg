\* A text that ends inside a bracket.
CONSTANTS
    MaxPath = 1
    MaxLen = 5
SPECIFICATION Spec
PROPERTY Returns
CHECK_DEADLOCK FALSE
