\* Both callers of Proxy.
CONSTANTS
    Callers <- BothCallers
SPECIFICATION Spec
INVARIANTS NilMeansClosed
PROPERTIES CleanCloseReturns
CHECK_DEADLOCK FALSE
