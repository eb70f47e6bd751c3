SPECIFICATION FairSpec
CONSTANTS
  alice = alice
  bob = bob
  logIn = logIn
  logInAgain = logInAgain
  bobsLogIn = bobsLogIn
  page = page
  page2 = page2
  hub = hub
  bobsPage = bobsPage
  None = None
  Users <- MCUsers
  LogIns <- SessionsLogIns
  Requests <- SessionsRequests
  UserOf <- SessionsUsers
  LaneOf <- SessionsLanes
  MaxKills = 0
  MaxRecycles = 0
PROPERTY
  ThreadEndsWithConnection
