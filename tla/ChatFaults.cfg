SPECIFICATION Spec
CONSTANTS
  alice = alice
  bob = bob
  acme = acme
  hello = hello
  welcome = welcome
  offer = offer
  NoThread = NoThread
  NoJob = NoJob
  Threads = {w1, w2, w3}
  Users <- MCUsers
  Texts <- MCTexts
  Messages <- TwoMessages
  HistoryRequests <- OneHistory
  ContactsRequests <- OneContacts
  MaxAttempts = 2
  MaxCrashes = 1
  MaxOutages = 1
  MaxBrokenQueries = 1
SYMMETRY ThreadSymmetry
INVARIANTS
  TypeOK
  QueriesFindConnectionOpen
  SavedExactlyOnce
  MutualExclusion
  OneChatPerConversation
  OnlyThrownSavesLeaveAnything
PROPERTY
  ImplementsConversationStore
