CONSTANTS
  None = None
  Broken = Broken
  Words = {"", "a", "b", "1", "true", "false"}
  Numbers = {"1"}
  Matching = {"a", "1", "true", "false"}
  Posts <- Sequences2
  API = FALSE
  Fields <- LabelFields
SPECIFICATION Spec
INVARIANTS
  ChoiceKept
CHECK_DEADLOCK FALSE
