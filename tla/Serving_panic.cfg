SPECIFICATION ServingSpec
CONSTANTS
    SvRequests = {1, 2}
INVARIANT PanicIsContained
CHECK_DEADLOCK FALSE
