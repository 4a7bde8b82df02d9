\* A source whose write_to may fail at any point of the transfer.
CONSTANTS
    Ranges <- MCRanges

SPECIFICATION Spec

PROPERTY ReceiveReturns

\* Both transfers end, with Ok or an error.
CHECK_DEADLOCK FALSE
