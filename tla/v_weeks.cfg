CONSTANTS
    Zone <- Shanghai
    Walks <- FiveYears
SPECIFICATION Spec
INVARIANT SlotFits
CHECK_DEADLOCK FALSE
