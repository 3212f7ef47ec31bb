\* A client "size" instruction is parsed with atoi: zero and negative
\* dimensions reach set_size.
CONSTANTS
  MinSize = 4
  MaxSize = 10
  UpdateInterval = 2
  Dims <- MCClientDims
  InitialSizes <- MCInitialSizes
  Never = Never
  IntBits = 8
  MaxResizes = 2
SPECIFICATION FairSpec
INVARIANT RequestedInBounds
CONSTRAINT ChannelBound
