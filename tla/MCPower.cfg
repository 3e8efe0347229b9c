\* Two assertions of two processes, three types that share two effects and can be
\* reconfigured; the power source changes, and processes are suspended.  Left
\* out: a suspended assertion is released, or set once its process is forgotten, the
\* limited-power property of an inactive one changes, and one request turns the level
\* off and, by its deadline, on again (these leave the count wrong); the source
\* changes back in between (MCFlicker).
SPECIFICATION Spec
CONSTANTS
  a1 = a1
  a2 = a2
  p1 = p1
  p2 = p2
  NoPid = NoPid
  Ids = {a1, a2}
  Pids = {p1, p2}
  Types = {"PreventSleep", "NetworkAccess", "PreventIdle"}
  Durations = {0}
  MaxTime = 1
  MaxRefs = 2
  MaxDisabled = 1
  Ops = {"power", "limited", "suspend", "onBehalf"}
SYMMETRY TwoAndTwo
INVARIANTS TypeOK KernelToldRight CountExact SuspendedStaySilent
