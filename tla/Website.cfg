\* One account in two rooms, three searches, two tabs of the studio.
SPECIFICATION Spec
CONSTANTS
  None = None
  Accounts = {A}
  Rooms = {lounge, builders}
  Lobby = lounge
  Views = {"overview", "chat"}
  MaxPosts = 1
  MaxCalls = 1
  MaxSearches = 3
  MaxRefreshes = 2
  MaxLookups = 1
  Tabs = {t1, t2}
  Limit = 3
  Unreadable = Unreadable
  Pointers = {p1, p2}
CHECK_DEADLOCK FALSE
INVARIANTS
  ChatOfRoom
  
  LastSearchRules
  FreshOrOffline
  OwnAnswers
  GalleryOpens
  HeldOrOnHisWay
PROPERTIES
  NewsIsSeen
  FeedComesBack
  SearchEnds
  PanelIsFree
