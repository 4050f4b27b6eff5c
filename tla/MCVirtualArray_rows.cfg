SPECIFICATION Spec
CONSTANTS
    MaxRows = 4
    Values <- AllValues
    Zero = "zero"
    Garbage = "garbage"
    Requests <- AllRequests
    MaxMinheights = {1, 2}
INVARIANTS
    NoVirtualBug
PROPERTIES
    IsRowStore
CHECK_DEADLOCK FALSE
