\* A save of the preferences fails.
SPECIFICATION Spec
CONSTANTS
  Behaviors = {"wake", "poweron", "wakeorpoweron"}
  Apps = {"a"}
  Leeway <- SameLeeway
  Wanted <- SmallWanted
  Repeats <- SmallRepeats
  DayLength = 2
  Week = 3
  MaxEntries = 2
  MinSleep = 1
  Calendars = {1}
  MaxFailures = 1
  MaxTime = 3
INVARIANT
  CallerReschedules
