CONSTANTS
    Precision = 3
    Amounts = {100}
    Quantities = {30}
SPECIFICATION Spec
CHECK_DEADLOCK FALSE
INVARIANTS
    PartialFillRecorded
