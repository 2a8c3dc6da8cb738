SPECIFICATION Spec
INVARIANTS Answered Interoperable OnlyValid
CHECK_DEADLOCK FALSE
