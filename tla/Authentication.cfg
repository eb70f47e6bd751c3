SPECIFICATION FairSpec
CONSTANTS
  create = create
  logIn = logIn
  other = other
  alice = alice
  bob = bob
  secret = secret
  guess = guess
  mail = mail
  mail2 = mail2
  NoThread = NoThread
  Threads = {create, logIn, other}
  Users <- MCUsers
  Passwords <- MCPasswords
  Emails <- MCEmails
  Kind <- MCKind
  UserOf <- MCUserOf
  PasswordsOf <- MCPasswordsOf
  EmailsOf <- MCEmailsOf
  MaxAsks = 1
  MaxCrashes = 1
  MaxOutages = 1
  MaxBrokenQueries = 1
INVARIANTS
  TypeOK
  DatabaseIsHandedOn
  AccountsAreReal
  AccountsAreAnnouncedOnce
PROPERTIES
  NewAccountsAreAnnounced
  RequestsAreAnswered
