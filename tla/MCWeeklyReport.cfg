CONSTANTS
  CAMT_01 = CAMT_01
  CAMT_02 = CAMT_02
  Account = {a1, a2}
  Lots <- BothLots
  Runner = {cron, trigger}
  MaxRuns = 3
  MaxChanges = 1
  MaxFaults = 1
  Free = Free
  Nobody = Nobody
SPECIFICATION Spec
INVARIANTS
  ReportTypeOK
  EveryApprovedMailed
PROPERTIES
  LedgerSpec
  EveryRunEnds
CHECK_DEADLOCK FALSE
