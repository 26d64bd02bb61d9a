CONSTANTS
  Actors = {a1, a2}
  Names = {alice, bob}
  SESSION_QUEUE_DEPTH = 1
  MaxSend = 0
  None = None
SPECIFICATION Spec
INVARIANT DepartedMatchesJoined
