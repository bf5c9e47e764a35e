CONSTANTS
  None = None
  Account = {a1, a2, a3}
  Session = {s1, s2, s3}
  Subject = {u1, u2}
  Browser = {b1, b2}
  Instance = {i1}
SPECIFICATION Spec
SYMMETRY Symmetry
INVARIANT HasOwner
PROPERTY OwnershipIsGranted
PROPERTY RoleChangesByOwners
