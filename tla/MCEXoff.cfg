SPECIFICATION Spec
INVARIANT ValidationIsOff
CHECK_DEADLOCK FALSE
