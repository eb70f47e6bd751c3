SPECIFICATION Spec
CONSTANTS
  acme = acme
  globex = globex
  alice = alice
  NoThread = NoThread
  NoJob = NoJob
  Threads = {w1, w2}
  Names <- MCNames
  Accounts <- TwoCompanies
  SearchRequests <- AskNothing
  InfoRequests <- AskNothing
  MaxAttempts = 2
  MaxCrashes = 0
  MaxOutages = 0
  MaxBrokenQueries = 0
INVARIANT
  CreatedCompaniesAreListed
