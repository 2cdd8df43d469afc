CONSTANTS
  Valid <- MCValid
  Invalid <- MCInvalid
  Topics <- AllTopics
  MaxCalls = 3
  Negotiated = {"completion", "tasks", "tools", "resources", "reverse"}
SPECIFICATION Spec
INVARIANTS NewestHandlerRuns CapabilitiesTell EntriesAgree ListComplete ReverseCallServed
CHECK_DEADLOCK FALSE
