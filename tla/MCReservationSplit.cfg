CONSTANTS
    Precision = 3
    Amounts <- MCAmounts
    Quantities <- MCQuantities
SPECIFICATION Spec
CHECK_DEADLOCK FALSE
INVARIANTS
    ConvertedWhenFilled
