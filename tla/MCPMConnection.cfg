\* Two connections, three sleeps without a wrap of the generation count.
SPECIFICATION Spec
CONSTANTS
  MaxConn = 2
  MaxSleep = 3
  MaxGen = 3
  Dates = {1, 2}
\* The bounds end every behaviour.
CHECK_DEADLOCK FALSE
INVARIANTS AllowedOnce HandlersValid AnswerWouldCount
PROPERTIES AlarmHonoursRequests ImplementsBarrier
