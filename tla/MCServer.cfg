CONSTANTS
  Conns = {c1, c2, c3}
  GoodbyeTimeout = 2
  DrainBudget = 4
SPECIFICATION FairSpec
INVARIANTS ShutdownBeatsAccept OrderlyDrain
PROPERTIES SignalEndsProcess BacklogServed
