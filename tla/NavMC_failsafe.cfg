CONSTANTS
  Configs <- MCConfigs
  Requests <- MCRequests
  Estimates <- MCEstimates
SPECIFICATION NavSpec
INVARIANTS NavHasPosition SticksHavePilot LockdownIsLifted
