SPECIFICATION SpecStored
CONSTANT Null = Null
INVARIANT StoredInPlace
CHECK_DEADLOCK FALSE
