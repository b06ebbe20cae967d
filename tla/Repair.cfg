SPECIFICATION Spec
CONSTANTS
  Codes = {"unknown_table", "missing_group_by", "validator_internal_error"}
  MaxAttempts = 3
  MaxRetries = 3
  MaxDelay = 3
INVARIANTS StatusHonest HistoryChains NoWastedCalls RetryDiscipline
PROPERTY Terminates
CHECK_DEADLOCK FALSE
