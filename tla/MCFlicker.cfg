\* The power source changes and changes back before powerd has evaluated it.
SPECIFICATION Spec
CONSTANTS
  a1 = a1
  a2 = a2
  p1 = p1
  p2 = p2
  NoPid = NoPid
  Ids = {a1, a2}
  Pids = {p1}
  Types = {"PreventSleep"}
  Durations = {0}
  MaxTime = 1
  MaxRefs = 1
  MaxDisabled = 0
  Ops = {"power", "flicker"}
INVARIANTS KernelToldRight
