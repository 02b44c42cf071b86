CONSTANTS
    MaxSize = 17
    MaxMultiPartSize = 21
    Block = 2
    IntBound = 32
    MaxWrites = 2
    Wires <- MCWires
SPECIFICATION Spec
INVARIANTS
    ServedAsSent
    ServedFits
    ResponseDelimited
    WholeRequestsAnswered
CHECK_DEADLOCK FALSE
