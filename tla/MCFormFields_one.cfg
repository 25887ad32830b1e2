CONSTANTS
  None = None
  Broken = Broken
  Words = {"", "a", "b", "1", "true", "false"}
  Numbers = {"1"}
  Matching = {"a", "1", "true", "false"}
  Posts <- Sequences2
  API = TRUE
  Fields <- ValuedFields
SPECIFICATION Spec
INVARIANTS
  DocumentedOnly
  StoredAsEntered
  ChoiceKept
  SameIfSentAgain
CHECK_DEADLOCK FALSE
