\* A monotonic clock and a pause of 2^(IntBits-1) ms between flushes (with
\* a 32-bit int, 24.8 days): int narrowing of the difference wraps.
CONSTANTS
  p1 = p1  p2 = p2  b1 = b1  b2 = b2
  Procs <- MCProcs
  Bytes <- MCBytes
  Header = Header  Footer = Footer  NoFile = NoFile
  BufferSize = 2
  MaxSuffix = 1
  MaxDelay = 2
  IntBits = 3
  ClockMonotonic = TRUE
  MaxTime = 5
  MaxWrites = 2
SYMMETRY MCSymmetry
SPECIFICATION Spec
INVARIANT TimingDelaysValid
\* Every recording ends: all processes free or fail, time stops at MaxTime.
CHECK_DEADLOCK FALSE
