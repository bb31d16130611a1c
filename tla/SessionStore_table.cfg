CONSTANTS
  k1 = k1  k2 = k2  i1 = i1  i2 = i2  r1 = r1
  Keys <- TwoKeys
  Instances <- TwoInstances
  RunIds <- OneRun
  None = None
  Removed = Removed
  Unset = Unset
  Backend = TRUE
  Faults = TRUE
SPECIFICATION Spec
INVARIANTS SavesRetried
PROPERTIES NoForeignLoss ImplementsDurableMap
SYMMETRY Symmetry
