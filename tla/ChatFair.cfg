SPECIFICATION FairSpec
CONSTANTS
  alice = alice
  bob = bob
  acme = acme
  hello = hello
  welcome = welcome
  offer = offer
  NoThread = NoThread
  NoJob = NoJob
  Threads = {w1, w2}
  Users <- MCUsers
  Texts <- MCTexts
  Messages <- DistinctSeconds
  HistoryRequests <- OneHistory
  ContactsRequests <- NoRequests
  MaxAttempts = 2
  MaxCrashes = 0
  MaxOutages = 1
  MaxBrokenQueries = 0
PROPERTIES
  EveryMessageIsSaved
  EveryRequestIsAnswered
