SPECIFICATION Spec
CONSTANT Null = 0
INVARIANT BrotherIsThere
CHECK_DEADLOCK FALSE
