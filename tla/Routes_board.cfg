CONSTANTS
  None = None
  Operator = {o1}
  Node = {n1}
  Subnet = {s1}
  Default = {v4, v6}
SPECIFICATION Spec
SYMMETRY Symmetry
PROPERTY OnlyCarried
PROPERTY UndisturbedIsExact
