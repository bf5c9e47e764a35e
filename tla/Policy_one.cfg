CONSTANTS
  None = None
  Doc = {d1, d2}
  Operator = {o1, o2}
  Instance = {i1}
  MaxRevisions = 2
SPECIFICATION Spec
SYMMETRY Symmetry
INVARIANT SavesRemembered
INVARIANT RollbackAnchor
PROPERTY ImplementsHistory
