SPECIFICATION WorkSpec
CONSTANTS
  m1 = m1
  m2 = m2
  m3 = m3
  Msgs = {m1, m2, m3}
  None = None
  Settings <- Deployments
  LastReply = 4
  Keys = {"k", "l"}
  Subagents = {"x", "y", "z"}
  ParentOf <- MCParentOf
  Inline = {"y"}
  Commands = {"c", "d"}
  NoCommand = "none"
  MaxSubagents = 2
  MaxSessions = 1
  MaxAgentStops = 1
  MaxKillFaults = 1
SYMMETRY Symmetry
INVARIANTS
  HistoryIInv
  HistoryWellFormed
  ProviderKnowsHistory
  PromptsClosed
  PromptDurable
  NothingOutlives
PROPERTIES
  JournalKept
CHECK_DEADLOCK FALSE
