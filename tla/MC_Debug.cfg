SPECIFICATION FairSpec
CONSTANTS
  tab = tab
  other = other
  agent = agent
  Page = {tab, other}
  Agent = {agent}
  Keep = 1
  Plan <- Plans
PROPERTIES OthersAreKept AgentEditsArrive TypingIsShared
CHECK_DEADLOCK FALSE
