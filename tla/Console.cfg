CONSTANTS
  MaxWire = 2
  MaxOut = 2
  Size = {s1, s2}
  Initial = initial
  Value = {v1, v2}
  Secret = {k1, k2}
  Blank = Blank
  Keep = Keep
  MaxKeys = 3
  Machines = 1
  AuthKeys = 1
  SOON = 1
  WARN = 2
  PAST = 1
  FUTURE = 3
  MAX_ITEMS = 2
  LastDay = 3
  PersonName = {n1, n2}
  Mail = {e1}
  Absent = Absent
  MaxAccounts = 3
  Pages = 2
  Devices = 1
  RECENTS_LIMIT = 2
  MaxVisits = 3
  Kind = {kind1, kind2}
  All = All
  PAGE_SIZE = 2
  BATCH = 2
  MaxEntries = 3
SPECIFICATION ConsoleSpec
INVARIANT NoSocketLeft
INVARIANT PtyFollowsTerminal
INVARIANT ExitComesLast
INVARIANT SetupIsReviewed
INVARIANT HealthIsOfSaved
INVARIANT ShownOnce
INVARIANT PagesAgree
INVARIANT RenewalsAreListed
INVARIANT SameAccountShown
INVARIANT RecentsAreLastVisits
INVARIANT TrailSkipsNothing
PROPERTY BridgeEnds
PROPERTY DeleteIsTyped
