\* Two clients, two activity updates, each client with the reference of its first
\* message or one that a refused create leaks.
SPECIFICATION Spec
CONSTANTS
  p1 = p1
  p2 = p2
  Pids <- MCPids
  MaxSleep = 0
  MaxUpdate = 2
  UInt32Max = 2
  MaxHeld = 0
  MaxLeak = 1
\* The bounds end every behaviour.
CHECK_DEADLOCK FALSE
PROPERTIES ReportComplete EveryRequestIsReported
