CONSTANTS
  Gate = {CAMT_EXIT_01}
  Subscriber = {p1, p2}
  HoursPerDay = 2
  DaysPerWeek = 2
  UtcOffset = 1
  MaxHour = 3
  MaxEvents = 3
  MaxCopies = 1
  MaxFaults = 1
SPECIFICATION Spec
INVARIANTS
  GateTypeOK
  OneRowPerEvent
  GapExplained
  WeeklyAgrees
PROPERTIES
  EveryEventRecorded
CHECK_DEADLOCK FALSE
