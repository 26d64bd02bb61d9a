CONSTANTS
  ping_interval = 3
  idle_timeout = 6
  Slack = 2
  Latency = 2
  MaxTime = 24
SPECIFICATION Spec
INVARIANTS ResponsiveStays SilenceBounded
