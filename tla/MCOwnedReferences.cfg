SPECIFICATION Spec
CONSTANTS
    Objects <- MCObjects
    None = None
    MaxRounds = 3
INVARIANTS
    NeverDangling
    Balanced
