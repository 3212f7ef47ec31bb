\* Two processes record typescripts on one host, or one records after an
\* earlier session left /tmp/typescript-timing behind.
CONSTANTS
  p1 = p1  p2 = p2  b1 = b1  b2 = b2
  Procs <- MCProcs
  Bytes <- MCBytes
  Header = Header  Footer = Footer  NoFile = NoFile
  BufferSize = 2
  MaxSuffix = 1
  MaxDelay = 2
  IntBits = 8
  ClockMonotonic = TRUE
  MaxTime = 3
  MaxWrites = 5
SYMMETRY MCSymmetry
SPECIFICATION Spec
INVARIANT OrphanFree
\* Every recording ends: all processes free or fail, time stops at MaxTime.
CHECK_DEADLOCK FALSE
