\* Two accounts that sign in on one page, one after the other.
SPECIFICATION Spec
CONSTANTS
  None = None
  Accounts = {A, B}
  Rooms = {lounge}
  Lobby = lounge
  Views = {"overview", "notes"}
  MaxPosts = 0
  MaxCalls = 2
  MaxSearches = 1
  MaxRefreshes = 1
  MaxLookups = 1
  Tabs = {t1}
  Limit = 1
  Unreadable = Unreadable
  Pointers = {p1}
CHECK_DEADLOCK FALSE
INVARIANT OwnRecordsOnly
