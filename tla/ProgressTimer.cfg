SPECIFICATION Spec
CONSTANT Null = Null
INVARIANT TimerAsAsked
CHECK_DEADLOCK FALSE
