CONSTANTS
  Configs <- MCConfigs
  Requests <- MCRequests
  Estimates <- MCEstimates
SPECIFICATION NavSpec
PROPERTY ResetsAreSafe
