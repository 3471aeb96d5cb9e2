\* Two files, one of which may replace the other, a model of two reads, and one
\* write to each file at any moment; any pair of GPUs.
SPECIFICATION GpuSpec
CONSTANTS
  Files = {model, download}
  Devices <- MCDevices
  NumPages = 2
  MaxChanges = 1
INVARIANTS
  UnsafeModelNeverStarts
  RefusalsHaveAReason
CHECK_DEADLOCK FALSE
