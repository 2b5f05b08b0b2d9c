CONSTANTS
  Ids = {o1, o2, o3}
  Accounts = {alice, bob}
  Prices = {0, 1, 2}
  QuantityModulus = 8
  None = None
  Sizes = {1, 2}
  DisplaySizes = {}
  SequenceLimit = 4
  TrancheCoversEntry = TRUE
SPECIFICATION Spec
SYMMETRY Symmetry
INVARIANTS
  NeverCrossed
  IndexAgreesWithQueues
  NoEmptyLevel
  ThrowLeavesNoTrace
  AnswersAsTheReference
