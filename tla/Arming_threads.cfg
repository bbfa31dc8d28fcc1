CONSTANT Shells = {shell}
SPECIFICATION FairSpec
INVARIANTS ArmedAgrees DisarmIsGranted
PROPERTIES LegalSteps InitIsLeft
