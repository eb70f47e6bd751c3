----------------------- MODULE AuthenticationService -----------------------
(***************************************************************************)
(* The Authentication process: a thread for each client connection, which  *)
(* creates an account or logs a client in against AuthenticationDatabase,  *)
(* starts an NServiceBus endpoint for the client and then sends his        *)
(* requests to the services through it.                                    *)
(*                                                                         *)
(* The replies of the services come to the queue Authentication-<user>,    *)
(* which the endpoints of all connections of that user read. What the      *)
(* frames of a connection look like is BusConnection's; here a connection  *)
(* is the thread that serves it.                                           *)
(***************************************************************************)
EXTENDS AbstractDatabase

CONSTANTS
  Users,
  Kind,              \* the first request of a connection: "create" or "logIn"
  UserOf,            \* the user name it carries
  PasswordsOf,       \* the passwords its user may give
  EmailsOf,          \* the e-mail addresses he may give for a new account
  Passwords, Emails,
  MaxAsks,           \* bound: requests to services
  MaxCrashes,        \* bound: ends of the process
  MaxOutages,        \* bound: openConnection calls that do not reach MySQL
  MaxBrokenQueries   \* bound: queries during which MySQL is lost

Connections == Threads

ASSUME RequestsAssumption ==
  /\ Kind \in [Connections -> {"create", "logIn"}]
  /\ UserOf \in [Connections -> Users]
  /\ PasswordsOf \in [Connections -> (SUBSET Passwords) \ {{}}]
  /\ EmailsOf \in [Connections -> (SUBSET Emails) \ {{}}]

ASSUME FaultsAssumption ==
  /\ MaxAsks \in Nat /\ MaxCrashes \in Nat /\ MaxOutages \in Nat /\ MaxBrokenQueries \in Nat

VARIABLES
  accounts,          \* table user: the connections that inserted a row
  pc,                \* per connection: where its thread is
  email,             \* per connection: the e-mail address in its request
  password,          \* per connection: the password in its request
  result,            \* per connection: dbResponse.result
  authenticated,     \* per connection: ClientConnection.authenticated
  told,              \* per connection: the answers its client got, to the first request
  running,           \* the process runs
  endpoints,         \* connections with a requestingEndpoint
  publishing,        \* connections whose event is being published
  announced,         \* connections whose event has been published
  asked,             \* connections whose request a service has not answered
  replies,           \* replies in the queues of the users, by the connection they are for
  faults             \* how often each kind of fault has happened, and requests

request    == <<email, password>>
threadVars == <<pc, request, result, authenticated, told>>
busVars    == <<endpoints, publishing, announced, asked, replies>>
vars       == <<dbVars, accounts, threadVars, running, busVars, faults>>

-----------------------------------------------------------------------------
Locked  == {"open", "query", "close", "release"}
Working == Locked \cup {"waitOne", "startEndpoint", "publish", "reply"}

TypeOK ==
  /\ DbTypeOK
  /\ accounts \subseteq Connections
  /\ pc \in [Connections -> Working \cup {"new", "listen", "await", "answer", "ended"}]
  /\ email \in [Connections -> Emails] /\ password \in [Connections -> Passwords]
  /\ result \in [Connections -> BOOLEAN] /\ authenticated \in [Connections -> BOOLEAN]
  /\ told \in [Connections -> SUBSET BOOLEAN]
  /\ running \in BOOLEAN
  /\ endpoints \subseteq Connections
  /\ publishing \subseteq Connections /\ announced \subseteq Connections
  /\ asked \subseteq Connections /\ replies \subseteq Connections
  /\ faults \in [asks : 0 .. MaxAsks, crashes : 0 .. MaxCrashes, outages : 0 .. MaxOutages,
                 broken : 0 .. MaxBrokenQueries]

Init ==
  /\ DbInit
  /\ accounts = {}
  /\ pc = [c \in Connections |-> "new"]
  /\ email \in {e \in [Connections -> Emails] : \A c \in Connections : e[c] \in EmailsOf[c]}
  /\ password \in {p \in [Connections -> Passwords] :
                     \A c \in Connections : p[c] \in PasswordsOf[c]}
  /\ result = [c \in Connections |-> FALSE]
  /\ authenticated = [c \in Connections |-> FALSE]
  /\ told = [c \in Connections |-> {}]
  /\ running = TRUE
  /\ endpoints = {} /\ publishing = {} /\ announced = {}
  /\ asked = {} /\ replies = {}
  /\ faults = [asks |-> 0, crashes |-> 0, outages |-> 0, broken |-> 0]

At(c, place)   == pc[c] = place
GoTo(c, place) == pc' = [pc EXCEPT ![c] = place]

Count(kind, bound) ==
  faults[kind] < bound /\ faults' = [faults EXCEPT ![kind] = @ + 1]

-----------------------------------------------------------------------------
(* Mutants *)

ClashesByNameOnly(c) == \E d \in accounts : UserOf[d] = UserOf[c]

ValidByNameOnly(c) == \E d \in accounts : UserOf[d] = UserOf[c]

RepliesBeforePublishing(c, outcome) ==
  /\ authenticated' = [authenticated EXCEPT ![c] = outcome]
  /\ GoTo(c, IF Kind[c] = "logIn" THEN "publish" ELSE "reply")

OneQueueForAll(e, c) == e \in endpoints

-----------------------------------------------------------------------------
(* The first request of a connection                                        *)

(* The server accepts the connection and its thread reads the request;       *)
(* insertNewUserAccount and isValidUserInfo begin with openConnection.       *)
Accept(c) ==
  /\ running /\ At(c, "new")
  /\ GoTo(c, "waitOne")
  /\ UNCHANGED <<dbVars, accounts, result, authenticated, told, request, running, busVars, faults>>

EnterMutex(c) ==
  /\ At(c, "waitOne")
  /\ WaitOne(c)
  /\ GoTo(c, "open")
  /\ UNCHANGED <<accounts, result, authenticated, told, request, running, busVars, faults>>

OpenConnection(c) ==
  /\ At(c, "open")
  /\ Open(c)
  /\ GoTo(c, "query")
  /\ UNCHANGED <<accounts, result, authenticated, told, request, running, busVars, faults>>

(* What the two handlers do with dbResponse.result: a created account and a  *)
(* valid log in get an endpoint, a log in is reported, valid or not.         *)
Decide(c, outcome) ==
  /\ authenticated' = [authenticated EXCEPT ![c] = outcome]
  /\ GoTo(c, IF outcome THEN "startEndpoint"
             ELSE IF Kind[c] = "logIn" THEN "publish" ELSE "reply")

OpenConnectionFails(c) ==
  /\ At(c, "open")
  /\ Count("outages", MaxOutages)
  /\ OpenFails(c)
  /\ Decide(c, FALSE)
  /\ UNCHANGED <<accounts, result, told, request, running, busVars>>

(* username and email are UNIQUE. *)
Clashes(c) == \E d \in accounts : UserOf[d] = UserOf[c] \/ email[d] = email[c]

Valid(c) == \E d \in accounts : UserOf[d] = UserOf[c] /\ password[d] = password[c]

Insert(c) ==
  /\ At(c, "query") /\ Kind[c] = "create"
  /\ connection = "Open"
  /\ accounts' = IF Clashes(c) THEN accounts ELSE accounts \cup {c}
  /\ result' = [result EXCEPT ![c] = ~ Clashes(c)]
  /\ GoTo(c, "close")
  /\ UNCHANGED <<dbVars, authenticated, told, request, running, busVars, faults>>

Select(c) ==
  /\ At(c, "query") /\ Kind[c] = "logIn"
  /\ connection = "Open"
  /\ result' = [result EXCEPT ![c] = Valid(c)]
  /\ GoTo(c, "close")
  /\ UNCHANGED <<dbVars, accounts, authenticated, told, request, running, busVars, faults>>

(* MySQL is lost during the query: both catch the exception. The INSERT may  *)
(* have been executed.                                                       *)
QueryFails(c) ==
  /\ At(c, "query")
  /\ Count("broken", MaxBrokenQueries)
  /\ QueryBreaks
  /\ \/ UNCHANGED accounts
     \/ Kind[c] = "create" /\ ~ Clashes(c) /\ accounts' = accounts \cup {c}
  /\ GoTo(c, "close")
  /\ UNCHANGED <<result, authenticated, told, request, running, busVars>>

(* The finally block. *)
CloseConnection(c) ==
  /\ At(c, "close")
  /\ Close
  /\ GoTo(c, "release")
  /\ UNCHANGED <<accounts, result, authenticated, told, request, running, busVars, faults>>

LeaveMutex(c) ==
  /\ At(c, "release")
  /\ ReleaseMutex(c)
  /\ Decide(c, result[c])
  /\ UNCHANGED <<accounts, result, told, request, running, busVars, faults>>

(* initializeRequestingEndpoint *)
StartEndpoint(c) ==
  /\ At(c, "startEndpoint")
  /\ endpoints' = endpoints \cup {c}
  /\ GoTo(c, "publish")
  /\ UNCHANGED <<dbVars, accounts, result, authenticated, told, request, running, publishing,
                 announced, asked, replies, faults>>

(* Publish is not awaited: the event is published some time later. *)
Publish(c) ==
  /\ At(c, "publish")
  /\ publishing' = publishing \cup {c}
  /\ GoTo(c, "reply")
  /\ UNCHANGED <<dbVars, accounts, result, authenticated, told, request, running, endpoints,
                 announced, asked, replies, faults>>

Published(c) ==
  /\ c \in publishing
  /\ publishing' = publishing \ {c}
  /\ announced' = announced \cup {c}
  /\ UNCHANGED <<dbVars, accounts, threadVars, running, endpoints, asked, replies, faults>>

(* listenToClient sends the response, and terminates the connection of a     *)
(* client that has not logged in.                                            *)
Reply(c) ==
  /\ At(c, "reply")
  /\ told' = [told EXCEPT ![c] = @ \cup {result[c]}]
  /\ GoTo(c, IF authenticated[c] THEN "listen" ELSE "ended")
  /\ UNCHANGED <<dbVars, accounts, result, authenticated, request, running, busVars, faults>>

-----------------------------------------------------------------------------
(* Requests to the services. A client that has logged in may ask once more    *)
(* after each answer; a client that has left is one that asks no more: its    *)
(* thread never ends (see BusConnection), nor does its endpoint.              *)

(* The thread sends the request through its endpoint and waits. *)
Ask(c) ==
  /\ At(c, "listen")
  /\ Count("asks", MaxAsks)
  /\ asked' = asked \cup {c}
  /\ GoTo(c, "await")
  /\ UNCHANGED <<dbVars, accounts, result, authenticated, told, request, running, endpoints,
                 publishing, announced, replies>>

(* The service replies to Authentication-<user>. *)
ServiceReplies(c) ==
  /\ c \in asked
  /\ asked' = asked \ {c}
  /\ replies' = replies \cup {c}
  /\ UNCHANGED <<dbVars, accounts, threadVars, running, endpoints, publishing, announced, faults>>

(* The endpoint e reads the queue the reply to c is in. *)
Reads(e, c) == e \in endpoints /\ UserOf[e] = UserOf[c]

(* It has a callback for its own requests; the reply to another connection   *)
(* fails there, is tried again and may end in the error queue.               *)
TakeReply(e, c) ==
  /\ c \in replies /\ Reads(e, c)
  /\ replies' = replies \ {c}
  /\ IF e = c /\ At(c, "await")
     THEN GoTo(c, "answer")
     ELSE UNCHANGED pc
  /\ UNCHANGED <<dbVars, accounts, result, authenticated, told, request, running, endpoints,
                 publishing, announced, asked, faults>>

AnswerClient(c) ==
  /\ At(c, "answer")
  /\ GoTo(c, "listen")
  /\ UNCHANGED <<dbVars, accounts, result, authenticated, told, request, running, busVars, faults>>

-----------------------------------------------------------------------------
(* The process ends: MySQL and the queues keep what they have, and what the  *)
(* process had begun to publish may be lost.                                 *)
Crash ==
  /\ running
  /\ Count("crashes", MaxCrashes)
  /\ running' = FALSE
  /\ mutex' = FreeMutex
  /\ connection' = "Closed"
  /\ pc' = [c \in Connections |-> IF At(c, "new") THEN "new" ELSE "ended"]
  /\ endpoints' = {}
  /\ publishing' = {}
  /\ UNCHANGED <<accounts, request, result, authenticated, told, announced, asked, replies>>

StartServer ==
  /\ ~ running
  /\ running' = TRUE
  /\ UNCHANGED <<dbVars, accounts, threadVars, busVars, faults>>

-----------------------------------------------------------------------------
Handling(c) ==
  \/ EnterMutex(c) \/ OpenConnection(c) \/ Insert(c) \/ Select(c) \/ CloseConnection(c)
  \/ LeaveMutex(c) \/ StartEndpoint(c) \/ Publish(c) \/ Reply(c) \/ AnswerClient(c)

TakingReply(c) == \E e \in Connections : TakeReply(e, c)

Finished == (\A c \in Connections : pc[c] \in {"listen", "await", "ended"}) /\ running

Next ==
  \/ \E c \in Connections :
       \/ Accept(c) \/ Handling(c) \/ OpenConnectionFails(c) \/ QueryFails(c)
       \/ Published(c) \/ Ask(c) \/ ServiceReplies(c) \/ TakingReply(c)
  \/ Crash \/ StartServer
  \/ Finished /\ UNCHANGED vars

Spec == Init /\ [][Next]_vars

(* Threads run, events are sent, services answer and queues are read. *)
FairSpec ==
  /\ Spec
  /\ \A c \in Connections :
       /\ WF_vars(Handling(c)) /\ WF_vars(Published(c))
       /\ WF_vars(ServiceReplies(c)) /\ WF_vars(TakingReply(c))

-----------------------------------------------------------------------------
(* Properties *)

(* A thread owns the mutex between its openConnection and its closeConnection *)
(* and at no other time: whatever fails in a query, the finally block gives   *)
(* it back, and the connection is not left open behind it.                    *)
DatabaseIsHandedOn ==
  /\ \A c \in Connections : Holds(c) <=> pc[c] \in Locked
  /\ mutex.owner = NoThread => connection = "Closed"

(* Nobody hears, by an answer or an AccountCreated event, of an account that  *)
(* is not stored; and no client is told that he is logged in, gets an         *)
(* endpoint or has the services work for him unless an account of that name   *)
(* and with the password he gave is stored: even when MySQL is lost in the    *)
(* middle, the process starts again and guesses and creations race.           *)
AccountsAreReal ==
  \A c \in Connections :
    /\ TRUE \in told[c] \/ authenticated[c] \/ c \in endpoints \cup asked \cup replies =>
         IF Kind[c] = "create" THEN c \in accounts
         ELSE \E d \in accounts : UserOf[d] = UserOf[c] /\ password[d] = password[c]
    /\ Kind[c] = "create" /\ c \in publishing \cup announced => c \in accounts

(* Two accounts share neither a name nor an e-mail address, and no two        *)
(* AccountCreated events do, however close the attempts and whatever is lost. *)
AccountsAreAnnouncedOnce ==
  \A c, d \in accounts \cup {e \in announced : Kind[e] = "create"} :
    UserOf[c] = UserOf[d] \/ email[c] = email[d] => c = d

(* The directory hears of an account whose user was told that it exists,      *)
(* unless the process ends before it has published the event.                 *)
NewAccountsAreAnnounced ==
  \A c \in Connections :
    (Kind[c] = "create" /\ TRUE \in told[c]) ~> (c \in announced \/ faults.crashes > 0)

(* Every attempt to create an account or to log in is answered, unless the    *)
(* process ends: no thread waits for the mutex for ever. So is every request  *)
(* of a user with one connection: only the endpoint of another connection of  *)
(* his could take the reply.                                                  *)
RequestsAreAnswered ==
  \A c \in Connections :
    /\ (pc[c] \in Working) ~> (told[c] # {} \/ faults.crashes > 0)
    /\ (\A d \in Connections \ {c} : UserOf[d] # UserOf[c])
         => (pc[c] = "await") ~> (pc[c] = "answer" \/ faults.crashes > 0)
=============================================================================
