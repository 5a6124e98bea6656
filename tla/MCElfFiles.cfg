SPECIFICATION Spec
INVARIANTS Faithful Listed Edited
CHECK_DEADLOCK FALSE
