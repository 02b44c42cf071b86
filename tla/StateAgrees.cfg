CONSTANTS
    MaxQueue = 1
SPECIFICATION Spec
INVARIANT AlwaysAgree
