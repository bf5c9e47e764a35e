CONSTANTS
  None = None
  Gone = gone
  Legacy = legacy
  Id = {p1, p2}
  Tab = {t1, t2}
  Client = {c1, c2}
  Master = {m1, m2}
  EnvOidc = {None, c1}
SPECIFICATION Spec
SYMMETRY Symmetry
INVARIANT RowCacheCurrent
INVARIANT KillSwitch
PROPERTY MovedBeforeCleared
