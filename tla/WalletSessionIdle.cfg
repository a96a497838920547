\* The idle logout with the times of IdleSession.test.tsx: 5 seconds, 2 of warning.
SPECIFICATION Spec
CONSTANTS
  Keys = {n1, n2}
  LedgerKey = "ledger key"
  Connects = {c1}
  Checks = {w1}
  Timeout = 5
  Warning = 2
  MaxIdle = 8
INVARIANT
  LoggedOutInTime
CHECK_DEADLOCK FALSE
