SPECIFICATION Spec
CONSTANTS
  Tokens = {"(", ")", "not", "and", "or", "<", "exists", "x", "1"}
  MaxTokens = 6
  MAX_DEPTH = 4
  Error = Error  Unset = Unset
INVARIANT ParsesAsGrammar
CHECK_DEADLOCK FALSE
