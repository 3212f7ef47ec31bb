\* Two processes, two names (name, name.1), a two-byte buffer, a monotonic
\* clock that never runs long enough to overflow int.
CONSTANTS
  p1 = p1  p2 = p2  b1 = b1  b2 = b2
  Procs <- MCProcs
  Bytes <- MCBytes
  Header = Header  Footer = Footer  NoFile = NoFile
  BufferSize = 2
  MaxSuffix = 1
  MaxDelay = 2
  IntBits = 8
  ClockMonotonic = TRUE
  MaxTime = 3
  MaxWrites = 5
SYMMETRY MCSymmetry
SPECIFICATION Spec
INVARIANT TypeOK DataIntegrity TimingAccounts
INVARIANT DistinctDataFiles
\* Every recording ends: all processes free or fail, time stops at MaxTime.
CHECK_DEADLOCK FALSE
