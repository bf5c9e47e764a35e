CONSTANTS
  None = None
  Job = {j1, j2}
  Instance = {i1}
  Interval = {0, 1, 3}
  Floor = 2
  MaxAge = 3
  AgentNode = agent
  Node = {agent}
SPECIFICATION FairSpec
INVARIANT Spaced
PROPERTY SamplingResumes
