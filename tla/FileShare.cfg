SPECIFICATION FairSpec
CONSTANTS
  Sizes <- TwoItems
  AcceptsAtOnce = FALSE
  Cases <- ThreeCases
INVARIANTS NoAssert SuccessIsShared PreviewsSurvive
PROPERTY TransferEnds
CHECK_DEADLOCK FALSE
