\* Two clients with timeouts around the default one.
SPECIFICATION Spec
CONSTANTS
  Clients = {x, y}
  Timeouts = {1, 3}
  MinTimeout = 1
  Default = 2
  Kinds = {"audio", "tickless"}
  Readings <- LowBattery
  CpuStates <- Limited
  Pressures = {"moderate"}
  MaxTime = 3
  MaxQueue = 1
  MaxChanges = 2
SYMMETRY Symmetry
INVARIANTS
  TypeOK
  TimeoutIsTold
  NotAbsentWhileActive
  PublishedIsCurrent
PROPERTY
  NotificationIsNotActivity
