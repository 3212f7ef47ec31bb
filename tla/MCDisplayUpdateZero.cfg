\* The same instance, checking what goes on the channel: the layout sent
\* when the channel connects before the user has sent any size.
CONSTANTS
  MinSize = 4
  MaxSize = 10
  UpdateInterval = 2
  Dims = {3, 6, 8, 12}
  InitialSizes <- MCInitialSizes
  Never = Never
  IntBits = 8
  MaxResizes = 2
SPECIFICATION FairSpec
INVARIANT SentInBounds
CONSTRAINT ChannelBound
