SPECIFICATION Spec
CONSTANTS
  l1 = l1
  l2 = l2
  Link = {l1, l2}
  Types = {"mission", "fence"}
  Plans <- MCPlans
  Counts = {0, 2, 3}
  MaxCount = 2
  MaxUploads = 2
  MaxUpdates = 2
  None = None
INVARIANTS MissionIsWhole FlagHasOwner 
  FenceIsWhole 

PROPERTY StoreSpec
CONSTRAINT UpToSlip
