SPECIFICATION IndexSpec
CONSTANTS
  Name <- const_Name
  Task = {1, 2, 3}
  serde = serde
  libc = libc
  Published <- const_Published
  Registry <- GitOnly
  Downloaded = {1}
  MaxVersion = 2
  MaxPublished = 1
  MaxRuns = 2
  px = px
  py = py
  fx = fx
  fy = fy
  stop = stop
  Proxy <- MCProxy
  File <- MCFile
  Sources <- MCSources
  MaxRetries = 2
  MaxDeaths = 2
  Length = 2
  SuggestionLists <- const_SuggestionLists
  o1 = o1
  o2 = o2
  s1 = s1
  Oid = {o1, o2}
  SubOid = {s1}
  SubOf <- MCSubOf
  NoOid = NoOid
  GitRequests <- MCGitRequests
  NetRetries = 1
  MaxMoves = 1
  MaxGitRuns = 3
  MaxGitFaults = 2
PROPERTY
  LockedVersionFound
CHECK_DEADLOCK FALSE
