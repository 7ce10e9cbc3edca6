\* upgradedb.go:195 against the order of upgradePrecheck and cleanTxnQueue.
SPECIFICATION Spec
CONSTANTS
  B7States <- MCPendingCleanup
  MaxRuns = 1
INVARIANT NoCleanupLeft
