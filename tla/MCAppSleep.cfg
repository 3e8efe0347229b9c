\* Three assertions of two types, and up to four blocks that wait while further
\* requests are handled; suspending, resuming, and changes without a reply.
SPECIFICATION Spec
CONSTANTS
  a1 = a1
  a2 = a2
  a3 = a3
  Ids = {a1, a2, a3}
  Types = {"PreventIdle", "PreventSleep"}
  UCharMax = 3
  MaxQueue = 4
SYMMETRY IdSymmetry
INVARIANTS TypeOK PendingHasBlock 
