CONSTANTS
  Actors = {a1, a2}
  Names = {alice, bob}
  SESSION_QUEUE_DEPTH = 2
  MaxSend = 1
  None = None
SPECIFICATION FairSpec
INVARIANT PerSenderOrder
PROPERTIES ImplementsRoom PublisherNeverBlocks NameIsFreed
