CONSTANTS
    Zone <- Shanghai
    Walks <- CalendarWalks
SPECIFICATION Spec
INVARIANT WindowsTile
PROPERTY SlotsFollow
CHECK_DEADLOCK FALSE
