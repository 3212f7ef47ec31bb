\* A client "size" instruction with a height so large that height * MinSize
\* overflows int (IntBits = 8 at the scale of bounds 4..10): the fitted
\* height wraps negative, and fitting it back divides the width down to 0:
\* width 100, height 20000000 becomes a 0x200 request in the real code.
CONSTANTS
  MinSize = 4
  MaxSize = 10
  UpdateInterval = 2
  Dims <- MCHugeDims
  InitialSizes <- MCInitialSizes
  Never = Never
  IntBits = 8
  MaxResizes = 1
SPECIFICATION Spec
INVARIANT RequestedInBounds
CONSTRAINT ChannelBound
