CONSTANTS
    Chars = {1, 2}
    Labels <- MCLabels
    Bodies <- MCBodies
    Items = {7}
    MaxNotes = 1
    MaxDbErrors = 1

SPECIFICATION Spec

INVARIANT TypeOK
