SPECIFICATION MCSpec
CONSTANTS
  NumClients = 3
  Resolutions <- MCResolutions
  BlockPrivate = {TRUE, FALSE}
  MaxMoves = 1
  Tables0 <- MCTables0
  Values = {0, 1, 2}
  RowCap = 5
  MaxChanges = 1
  NumBoards = 2
  BoardNames = {"n1", "n2"}
  OwnTables = {"t1", "t2"}
  OtherTables = {"o1"}
  WidgetLists <- MCWidgetLists
  NumAskers = 3
  MaxTurns = 2
  TableOrder <- MCTableOrder
  DataColumn <- MCDataColumn
  RowIds = {1, 2}
  FileNames = {"f1", "f2"}
  Sums = {"s1", "s2"}
  Scenarios <- MCScenarios
  Users = {"ann", "bob"}
  Browsers = {"b1", "b2"}
  NumCreds = 3
  NumCallers = 2
  Window = 1
  PendingLife = 2
  MaxTime = 2
  MaxRequests = 5
INVARIANTS
  DialsWereChecked
  
  ResultsAreHonest
  BoardsAreKept
  RendersAreCurrent
  
  PackageIsFaithful
  LoginsAreSound
PROPERTY RevokedStaysRevoked
CHECK_DEADLOCK FALSE
