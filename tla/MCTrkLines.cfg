SPECIFICATION FairSpec
INVARIANTS Delivery
PROPERTIES Arrival
CHECK_DEADLOCK FALSE
