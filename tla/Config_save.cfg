CONSTANTS
  None = None
  Bad = Bad
  Operator = {o1}
  Instance = {i1}
  Url = {u1, u2}
  Key = {k1, k2}
  Provider = {p1}
  EnvText = {u1, k2, p1, Bad}
  Master = {m1}
  Setting <- Settings
SPECIFICATION Spec
SYMMETRY Symmetry
INVARIANT ConnectionPaired
INVARIANT SavedIsEffective
INVARIANT AgentChoiceHolds
