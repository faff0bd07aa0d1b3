SPECIFICATION Spec
CONSTANTS
  Queries = {"p"}
  Empty = ""
  Answers <- MCAnswers
  PluginCommands = {"plug"}
  Actions <- MCActions
  NeedConfirmation = {"shutdown"}
  None = None
  Plans <- MCPlans
INVARIANT ConfirmedInContext
PROPERTIES NewestOnly NewestPublished
CHECK_DEADLOCK FALSE
