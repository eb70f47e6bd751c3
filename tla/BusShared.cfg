SPECIFICATION Spec
CONSTANTS
  alice = alice
  bob = bob
  logIn = logIn
  logInAgain = logInAgain
  bobsLogIn = bobsLogIn
  page = page
  page2 = page2
  hub = hub
  bobsPage = bobsPage
  None = None
  Users <- MCUsers
  LogIns <- SharedLogIns
  Requests <- SharedRequests
  UserOf <- SharedUsers
  LaneOf <- SharedLanes
  MaxKills = 0
  MaxRecycles = 0
INVARIANTS
  RepliesStayWithTheirUser
  NoReplyIsGivenTwice
