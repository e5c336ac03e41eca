CONSTANT MaxAttempts = 2
SPECIFICATION ClientSpec
CHECK_DEADLOCK FALSE
INVARIANT WriterAdvances
