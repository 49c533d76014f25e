SPECIFICATION ClientSpec
CONSTANTS
  Ops <- BurstOps
  HighWatermark = 3
  PipeCapacity = 1
  MaxCalls = 6
INVARIANTS FlushCoversEmits
CHECK_DEADLOCK FALSE
