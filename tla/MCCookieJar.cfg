SPECIFICATION Spec
CONSTANTS
    MaxKey = 3
    None = None
INVARIANTS TypeOK Restored NoLiveCiphertext
CHECK_DEADLOCK FALSE
