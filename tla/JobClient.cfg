SPECIFICATION ClientSpec
INVARIANTS RefusedForCause AcknowledgedStops HonestWait
PROPERTIES WaitSettles
CHECK_DEADLOCK FALSE
