\* Bounds 4..10 stand for 200..8192, and an 8-bit int keeps every product
\* of a dimension and a bound (at most 12 * 10) in range, as sane sizes are
\* in the real 32-bit int; sizes on both sides of each bound and inside,
\* one equal to the initial width; two requests, an interval of two ticks
\* so that a request can fall inside the rate limit.
CONSTANTS
  MinSize = 4
  MaxSize = 10
  UpdateInterval = 2
  Dims = {3, 6, 8, 12}
  InitialSizes <- MCInitialSizes
  Never = Never
  IntBits = 8
  MaxResizes = 2
SPECIFICATION FairSpec
INVARIANT RequestedInBounds
PROPERTY Converges
CONSTRAINT ChannelBound
