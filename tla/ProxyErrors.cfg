\* Both far ends leave, with errors.
CONSTANTS
    Callers <- BothCallers
SPECIFICATION Spec
PROPERTIES ReturnsWhenPeersLeave
CHECK_DEADLOCK FALSE
