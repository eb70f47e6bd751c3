SPECIFICATION Spec
CONSTANTS
  alice = alice
  bob = bob
  logIn = logIn
  logInAgain = logInAgain
  bobsLogIn = bobsLogIn
  page = page
  page2 = page2
  hub = hub
  bobsPage = bobsPage
  None = None
  Users <- MCUsers
  LogIns <- HubLogIns
  Requests <- HubRequests
  UserOf <- HubUsers
  LaneOf <- HubLanes
  MaxKills = 0
  MaxRecycles = 0
INVARIANT
  CallsGetTheirOwnReply
