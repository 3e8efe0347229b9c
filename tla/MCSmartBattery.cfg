\* One caller, one exclusive client, short retries.
SPECIFICATION Spec
CONSTANTS
  Callers = {c1}
  Clients = {x1}
  Plain = {}
  Gate = gate
  Table <- SmallTable
  RetryAttempts = 1
  MaxFailures = 0
  Countdown = 0
  ReadRetryMax = 1
  Requests = {4}
INVARIANTS TypeOK NoForeignData NoGhostBattery PollIsWatched
