CONSTANTS
  Sessions = {"s1", "s2"}
  Configs <- MCConfigs
  FirstSession = "s1"
  FirstConfig <- MCFirst
  Replies = {"text", "both"}
  MaxRetries <- MCRetries
  PoolMax = 1
  MaxPrompts = 3
  MaxTrouble = 2
SPECIFICATION Spec
INVARIANTS AnsweredInOrder RequestsAreWhole PoolIsSound
PROPERTY PromptsAreAnswered
CHECK_DEADLOCK FALSE
