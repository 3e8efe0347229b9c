\* One application; at most two events at a time.
SPECIFICATION Spec
CONSTANTS
  Behaviors = {"wake", "poweron", "wakeorpoweron"}
  Apps = {"a"}
  Leeway <- SameLeeway
  Wanted <- SmallWanted
  Repeats <- SmallRepeats
  DayLength = 2
  Week = 3
  MaxEntries = 2
  MinSleep = 1
  Calendars = {3}
  MaxFailures = 1
  MaxTime = 4
INVARIANTS
  CountExact
  Durable
  EarliestIsArmed
  CancelledStaysQuiet
  RepeatIsNext
  NotSleptThrough
  AlarmIsEarliest
