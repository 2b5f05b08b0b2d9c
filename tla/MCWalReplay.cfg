CONSTANTS
  Ids = {o1, o2, o3}
  Accounts = {alice, bob}
  Prices = {0, 1}
  QuantityModulus = 8
  None = None
  Sizes = {1, 3}
  DisplaySizes = {1, 2}
  SequenceLimit = 4
  IcebergsHideSize = TRUE
SYMMETRY Symmetry
SPECIFICATION Spec
INVARIANT ReplayRebuildsTheBook
