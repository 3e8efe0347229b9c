\* Two assertions of one type whose deadlines can coincide, cross and be moved.  Left
\* out: a request that turns the level off and, by its deadline, on again, which can
\* leave the head of the list without a timer.
SPECIFICATION Spec
CONSTANTS
  a1 = a1
  a2 = a2
  p1 = p1
  p2 = p2
  NoPid = NoPid
  Ids = {a1, a2}
  Pids = {p1}
  Types = {"PreventIdle"}
  Durations = {1, 2}
  MaxTime = 3
  MaxRefs = 1
  MaxDisabled = 0
  Ops = {"suspend"}
INVARIANTS TimerArmed
PROPERTIES DeadlinesAreKept
