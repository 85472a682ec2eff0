SPECIFICATION CompletionSpec
CONSTANTS
  Accounts = {a1, a2}
  MaxWords = 3
  HoldBack = 1
INVARIANT StreamDelivers
CHECK_DEADLOCK FALSE
