CONSTANTS
  None = None
  Bad = Bad
  Operator = {o1}
  Instance = {i1}
  Url = {u1}
  Key = {k1}
  Provider = {p1}
  EnvText = {}
  Master = {m1}
  Setting <- WizardOnly
SPECIFICATION Spec
INVARIANT SetupAllOrNothing
