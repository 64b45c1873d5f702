SPECIFICATION FairSpec
CONSTANTS
  N = 3
  p = p
  q = q
  r = r
  Ptid <- MCPtid
  Groupings <- MCGroupings
  ExecOptions <- MCExecOptions
INVARIANTS
  TypeOK
  SlotBound
  BarsHonest
PROPERTIES
  ImplementsBatch
  Returns
