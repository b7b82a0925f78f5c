SPECIFICATION AdviceSpec
CONSTANTS
  Inputs <- MCInputs
  Apple = {3}
INVARIANT ActionByEvidence
INVARIANT NothingBigHidden
INVARIANT CandidatesComplete
