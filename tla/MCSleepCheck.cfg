\* Two clients, two sleep checks: a reply may be one check late.
SPECIFICATION Spec
CONSTANTS
  p1 = p1
  p2 = p2
  Pids <- MCPids
  MaxSleep = 2
  MaxUpdate = 0
  UInt32Max = 1
  MaxHeld = 1
  MaxLeak = 0
\* The bounds end every behaviour.
CHECK_DEADLOCK FALSE
INVARIANTS TypeOK RetainBalanced AnsweredOnce DeadHoldNothing
PROPERTIES VerdictHonoursReplies EveryRoundEnds
