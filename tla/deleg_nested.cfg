\* A response job and the sync loop, subagents of subagents, one permit.
SPECIFICATION FairSpec
CONSTANTS
  Jobs = {j1}
  Loop = loop
  Profiles = {"code", "mixed"}
  Chain <- MCChain
  Agents = {"scout", "coder"}
  AgentProfile <- MCAgentProfile
  MaxDepth = 2
  MaxRounds = 2
  MaxChildren = 1
  MaxChain = 2
  MaxCalls = 2
  MaxCommands = 2
INVARIANT
  PermitsConserved
PROPERTIES
  CallsWindDown
  PermitComes
  CommandsHandled
