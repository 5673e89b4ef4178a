SPECIFICATION Spec
CONSTANTS
  Calls = {a, b}
  Conversations <- TheConversations
  SystemTexts = {"pii"}
  ModelArgs = {"unset", "claude"}
  ProviderArgs = {"unset", "groq"}
  Environments <- MCEnvironments
  Bodies = {"whole", "no_usage", "null_usage", "null_text", "null_count", "odd_count", "garbage_count", "null_node", "hollow", "not_json", "not_utf8"}
  Tokens = 7
  None = None
  Numeral = Numeral
  Garbage = Garbage
SYMMETRY Symmetry
INVARIANTS
  IInv
  RedactedTextLeaves
  ConversationArrives
  UsageIsAccounted
CHECK_DEADLOCK FALSE
