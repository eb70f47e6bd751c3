SPECIFICATION FairSpec
CONSTANTS
  acme = acme
  globex = globex
  alice = alice
  NoThread = NoThread
  NoJob = NoJob
  Threads = {w1, w2}
  Names <- MCNames
  Accounts <- CompanyUser
  SearchRequests <- AskSearch
  InfoRequests <- AskInfo
  MaxAttempts = 2
  MaxCrashes = 1
  MaxOutages = 1
  MaxBrokenQueries = 1
INVARIANTS
  TypeOK
  MutualExclusion
  MutexReleasedByEveryHandler
  NoLocationWithoutCompany
PROPERTIES
  EveryMessageSettles
