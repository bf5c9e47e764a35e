CONSTANTS
  None = None
  Gone = gone
  Legacy = legacy
  Id = {p1, p2}
  Tab = {t1}
  Client = {c1, c2}
  Master = {m1}
  EnvOidc = {None}
SPECIFICATION Spec
SYMMETRY Symmetry
PROPERTY LoginsAreOffered
