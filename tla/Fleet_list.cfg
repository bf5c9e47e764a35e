CONSTANTS
  Tab = {t1}
  Node = {n1, n2}
  None = None
  MaxLives = 2
  MaxSelect = 2
SPECIFICATION FairSpec
INVARIANT NotesFollowNodes
INVARIANT SelectionIsShown
PROPERTY RequestsEnd
