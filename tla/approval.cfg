SPECIFICATION Spec
CONSTANTS
  c1 = c1 c2 = c2 c3 = c3
  Calls = {c1, c2, c3}
  Setups <- Installations
  TTL = 0
SYMMETRY Interchangeable
INVARIANTS OneStepEach PassIsApproved DecisionsAreRecorded PromptWasAnswered
  RefusedWasUsed
