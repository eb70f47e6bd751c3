# CallItLocal: models, checks and proofs

CallItLocal is a web site for local businesses. A web server (ASP.NET) talks
over TLS sockets to an Authentication service, which talks over NServiceBus
(MSMQ) to a set of services, each with its own MySQL database. This directory
holds TLA+ modules that model parts of that system from its source, the TLC
configurations that check them on small instances, and proofs of what holds for
every instance.

## The system

    browser --HTTP/SignalR--> web server --TLS socket--> Authentication --MSMQ--> Chat
            (ChatFunctions.js)  (controllers, ChatHub,     (Server, one thread         Company Directory
                                 ConnectionManager,         and one endpoint per       Echo
                                 ServiceBusConnection)      client connection)         Company Review -> HTTP -> Java

| Component | State | Operations | What is hard about it | What makes it correct |
|---|---|---|---|---|
| Database base class (`Messages/Database/AbstractDatabase.cs`) | one `MySqlConnection`, one .NET `Mutex`, per service | `openConnection`, `closeConnection`, `createDB`, `deleteDatabase` | a re-entrant mutex that some paths do not release; a connection every thread shares | one handler at a time uses the connection; the mutex comes back; the schema is complete |
| Endpoint of a service (`*/Program.cs`, NServiceBus) | the queue, open receives, the error queue | receive, commit, roll back and retry | handlers in parallel, retries out of order, redelivery after a crash | every message is handled, or in the error queue |
| Chat (`ChatService`) | tables `chats`, `messages` | `saveMessage`, `getChatHistory`, `getAllChatContactsForUser` | several statements per operation without a transaction; exceptions that skip `closeConnection` | messages stored once; one chat per pair of users; reads show the store |
| Company Directory (`CompanyDirectoryService`) | tables `company`, `location` | `insertNewCompany`, `searchByName`, `getCompanyInfo` | a second `closeConnection` without the mutex; two INSERTs in one command | each business account is listed; the tables agree |
| Echo (`EchoService`) | tables `echoforward`, `echoreverse` | `saveAsIsEcho`, `saveReverseEcho` | a failure to open is only logged | an echo that was answered was saved |
| Connection to the bus (`ServiceBusConnection`, `ClientConnection_General`) | a TLS stream of length-prefixed frames each way | `send`, `readUntilEOF`, `listenToClient` | two web requests of one user on one stream; ends of streams | each caller gets the reply to its request |
| Log in and accounts (`ClientConnection_Authentication`, `AuthenticationDatabase`) | table `user`, `authenticated` per connection | `attemptToAuthenticateUser`, `attemptNewAccountCreation` | events published after the INSERT without a transaction | one account per name; each business published |
| Sessions (`ConnectionManager`, `Globals`) | user -> connection | `addConnection`, `getConnectionObject` | an unsynchronised dictionary, a second device, stale sockets | a session's requests go out as its user |
| Chat hub (`ChatHub`, `ConnectionDictionary`) | user <-> SignalR connection | `hello`, `sendMessageTo`, `OnDisconnected` | two tabs, reconnects, lookups used after a call to the bus | a connected user gets his messages |
| Chat page (`ChatFunctions.js`) | selected chat, displayed text | `sendMessage`, `chatInstanceSelected`, `receiveMessage` | answers out of order | what is displayed belongs to the selected chat |
| SignalR client library (`jquery.signalR-2.2.2.js`) | connection state, transport, timers, buffer, invocation callbacks | `start`, `stop`, `reconnect`, `triggerReceived`, `invoke` | transports that fail early, late or at once; timers against events; ids that start at 0 again | `start` settles once; a stopped connection stays stopped; messages in order; results to their invocations |
| Company Review (`CompanyReviewServiceEP`, `CompanyReviewService_Java`) | table `reviews` | `saveCompanyReview`, `getCompanyReviews` | an INSERT behind a GET; connections lost on exceptions | a review is saved once and reported so |

Also in the repository: message and data types (plain records), the remaining
controllers, a weather web service (one HTTP call, no state), an earlier copy of
the solution under `Source/StudentCode`, and vendored packages. They are not
modelled (see "Not modelled"). `PROJECT.json` lists every component with its
status, and every hazard, modelled or not, at its line.

## Modules

| Module | What it is |
|---|---|
| `AbstractDatabase` | the mutex and the connection, and the steps of `openConnection` and `closeConnection` on them |
| `Endpoint` (extends `AbstractDatabase`) | queue, deliveries, threads of the pool; receive, commit, throw, crash |
| `ChatService` (extends `Endpoint`) | the Chat handlers and tables |
| `ConversationStore` | what Chat promises, without threads, mutex, tables and retries |
| `CompanyDirectory` (extends `Endpoint`) | the Company Directory handlers and tables |
| `BusConnection` | the web server's calls, their streams, and the threads of the Authentication process at the other end |
| `AuthenticationService` (extends `AbstractDatabase`) | accounts, log ins, the events about them, and the requests that go on to services through a user's queue |
| `HubConnection` | what SignalR promises a page of its connection |
| `SignalRConnection` | the SignalR client library, which implements `HubConnection` |
| `LiveChat` | chat pages, the chat hub and its dictionaries; its connections move as `HubConnection` says |
| `MCChatService`, `MCCompanyDirectory`, `MCBusConnection`, `MCAuthenticationService`, `MCSignalRConnection`, `MCLiveChat` | instances for TLC |
| `EndpointProofs`, `ChatServiceProofs`, `ChatServiceRefinement`, `CompanyDirectoryProofs`, `BusConnectionProofs`, `AuthenticationServiceProofs`, `SignalRConnectionProofs`, `LiveChatProofs` | theorems |

Two things tie the modules together. `ChatService`, `CompanyDirectory` and
`AuthenticationService` share one `AbstractDatabase`, the first two also one
`Endpoint`: a change there is checked against all of them. And `LiveChat` does
not contain `SignalRConnection` but the moves of `HubConnection`, which
`SignalRConnection` is proved to implement.

Mutants used by the checks are in each module under "Mutants"; no specification
uses them.

### AbstractDatabase

`mutex` is the state of the .NET `Mutex`: the thread that owns it, how often that
thread entered it, and whether it was abandoned. `connection` is the `State` of
the `MySqlConnection`. `openConnection` is two steps, because other threads can
run in between: `WaitOne` and `Open`. Its three catch blocks become `OpenFails`
(MySQL not reached: release, return false), the second half of `Open`
(`InvalidOperationException` "The connection is already open." becomes true,
and the mutex stays entered), and `WaitOneAbandoned` (`AbandonedMutexException`:
the mutex is granted, and the last catch block releases it). `closeConnection`
is `Close` and `ReleaseMutex`; `Close` needs no ownership, `ReleaseMutex` does,
and a thread without it gets an `ApplicationException`, which no catch block of
`closeConnection` handles.

`createDB` and `deleteDatabase` are left out: the services are modelled with
their one database object made and its schema there.

### Endpoint

Each service runs one NServiceBus endpoint over MSMQ. The handlers are
synchronous, so a message is handled by one thread of the pool from beginning
to end; `pc` says where it is and `job` what it handles. `status` follows a
message: unsent, queued, taken (its receive is open), done, error. `Receive`
takes any queued message: MSMQ keeps an order, but threads and retries do not.
`Throw` models NServiceBus' immediate and delayed retries together: the message
is queued again until `MaxAttempts` deliveries have failed, then it is in the
queue `error`. `Return` commits the receive and the replies at once, as
NServiceBus does with MSMQ. The MySQL connection string says `AUTO ENLIST=false`,
so MySQL is no part of that transaction: every statement commits by itself and
`Throw` and `Restart` undo none. `Restart` is a crash: open receives roll back,
and the counts of failed deliveries, which are kept in memory, start again.
`Retire` is the pool ending an idle thread, which matters only if the thread
still owns the mutex. The time-out of the receive transaction is not modelled.

NServiceBus, MSMQ, the thread pool and the `Mutex` are not under `src/`; they are
modelled from how the services use them.

### ChatService

`chats` is a sequence, the position being the AUTO_INCREMENT id; `messages` a
set of rows with primary key (id, timestamp). One step per statement:
`FindChat`, `CreateNewChatInstance`, `FindNewChat`, `InsertMessage` or
`InsertCollides` (the primary key is taken), and `Select` for the two reads. No
statement of `saveMessage` is in a try block: when one throws (`InsertCollides`,
`QueryFailed`) the handler leaves without `closeConnection`, so the mutex stays
entered and the connection open. The reads catch and close. `Commit` is the end
of the handler and carries the reply. `messages` of one text are one message
(`MessagesAssumption`): texts identify messages so that redelivery can be told
from a second message.

`createNewChatInstance` calls `openConnection` when it finds the connection
closed. The model has no step for it because `QueriesFindConnectionOpen`, which
is proved, says that it never does while the connection object is not replaced.

### CompanyDirectory

`company` and `location` are the sets of company names in the two tables.
`insertNewCompany` closes in its catch blocks, in `finally` and after it, twice
on every path: `CloseIt` and `Leave` are the first time, `CloseAgain` and
`ReleaseAgain` the second, made without the mutex. `CloseAgain` closes the shared
connection whoever is using it; `ReleaseAgain` throws, so the handler fails even
when both INSERTs were executed. The INSERTs are sent as one command but executed
one after the other, hence two steps. The reads catch everything, close in
`finally` and reply. There is no abandoned mutex and no second entry here:
`MutexReleasedByEveryHandler` (proved) says that no idle thread owns the mutex, so
neither `Retire` nor `EnterAbandonedMutex` could ever be taken. `insertNewLocation`
has no caller and is left out.

### ConversationStore

The abstract specification of Chat: a set of stored messages, at most one per
conversation and second, the conversations that have been opened, and answers
that show the store at one moment while the request was handled. `ChatService`
implements it (`ImplementsConversationStore`, checked and proved); the refinement mapping is the
`INSTANCE` at the end of the module. The abstract specification admits that a
message is rejected after all its attempts, even if it was stored.

### BusConnection

A call is a log in (`sendLogIn`, `sendNewAccountInfo`) or a request on the
connection `ConnectionManager` keeps for its user. `pc` says where a call is,
`using` which connection it uses, `got` whose reply it was given. Connections are
named by the log in that made them. `LaneOf` says which calls never overlap:
ASP.NET runs the requests of one session one at a time, but the chat hub is not
in a session, and a user may have several.

`send` is two writes, size and body; `readUntilEOF` is two loops of `Read`. Between
any two of them another call may use the same stream: `BeginRead` is refused while
another call is in `Read` (`NotSupportedException` of `SslStream`), a call that
reads between another's size and body takes the body for a size
(`ReadSizeOutOfStep`, after which no reader of that stream finds a reply any more),
and one whose `Read` comes first takes the other's reply, with which its cast may
fail (`ReadWrongType`). At the other end a frame inside another makes
`Deserialize` throw, and an exception in a `listenToClient` thread ends the
Authentication process with all its connections (`Die`); so does an `IOException`,
because only `SocketException` is caught (`ClientGone`).

A side of a stream that has ended is seen by the other as an end ("eof", `Read`
returns 0: `ReadNothing`, `ListenToNothing`) or as a reset ("reset", `Read` throws);
what is sent to a side that has gone is answered by a reset. `socket` is what
`Socket.Connected` tells: it stays true until an operation fails.
`getConnectionObject` is three steps when it finds a connection lost: look up,
close (`CloseLost`), remove the user's entry (`Forget`). A log in of another session may
come between them, and then its new connection is the one that is removed:
`LiveConnectionsAreKept` says that a live connection is lost in no other way.

Taken as atomic: the handshake together with the accept, one `Write`, the two
writes of a reply (one thread writes them), and each operation of the
`Dictionary`. Left out: `echoAsIs` (a connection for one call), log ins with an
empty name, and the services behind `Execute`, which are assumed to answer.

### AuthenticationService

A connection is the thread that serves it, with its first request: `create`
(`attemptNewAccountCreation`) or `logIn` (`attemptToAuthenticateUser`), and the e-mail
address and the password in it, which its user chooses (`EmailsOf`, `PasswordsOf`). `pc` goes
through `openConnection`, the one query, the `finally` block with
`closeConnection`, `initializeRequestingEndpoint`, the event and the response.
Unlike Chat, both operations catch what the query throws and close in `finally`,
whence `DatabaseIsHandedOn`. `accounts` is the table `user`, as the set of
connections that inserted a row; `Clashes` is its two UNIQUE columns, name and
e-mail, and `Valid` the row with the name and the password that `isValidUserInfo` selects.
Names, passwords and addresses are opaque values: `isValidUserInfo` joins them into the text of
its query (`AuthenticationDatabase.cs:92-94`), so `Valid` speaks only of input that is no SQL
text itself, and so do the properties that rest on it. `QueryFails` is a `MySqlException` during the query: the INSERT may have
been executed although `result` stays false. `Publish` is not awaited, so the
event is `announced` some time later, or never if the process ends (`Crash`).

After a log in, `Ask` is a request handed to a service and awaited without a time
limit. All endpoints of a user read one queue, `Authentication-<user>`
(`ClientConnection_General.cs:291`): `TakeReply(e, c)` lets any of them take a
reply, and only the endpoint that asked has the callback.
A lost reply makes its thread wait for ever; `RequestsAreAnswered` therefore
speaks of users with one connection.

The frames and streams are those of `BusConnection` and do not appear here.
Subscriptions to events, the anonymous `echo` and the console are left out.

### HubConnection and SignalRConnection

`HubConnection` has two variables: `connection.state` and the deferred object
that `start()` returned. A refused `start()` may leave the connection connecting
for ever (a protocol mismatch rejects the promise and does nothing else), but
such a connection never becomes connected.

`SignalRConnection` follows `jquery.signalR-2.2.2.js`. JavaScript runs one
callback at a time, so an action is one callback, with everything it calls.
`negotiate` is the request to `/negotiate`; `attempt` is the position of
`connection.transport` in the list that negotiation leaves; `unsupported` are the transports
that the browser, one of `Browsers`, does not have and that fail at once; `init` has the flags of
the `InitHandler`; `channel` stands for the socket, the event source, the frame
or the poll, whichever the transport has. `timers` is the set of timers set:
`connect` (transportConnectTimeout), `reconnect` (reconnectDelay), `attempt`
(reconnect timeout of an event source), `stop` (disconnect timeout), `beat`
(heartbeat), `poll` and `fire` (long polling's delay and its delayed
"reconnected"), and `FrameTimers`: a frame reconnects by a `setTimeout` of its own, which keeps
no handle. Several can be set at once, neither a new channel nor `stop()` clears them, and what
each does, whenever it fires, is to load the frame again if there is one, or to stop the
connection after a sleep (`FrameTimeout`). `handle` says whether `transportTimeoutHandle` is the timer
`connect`: the starts of transports that fail at once are nested, each writes the
handle when it returns, and so the handle may be of a transport that has already
failed, in which case nothing clears the real timer (`Candidates`, `ClearsConnect`).
`slept` says that `lastActiveAt` is longer ago than `reconnectWindow`, which
makes a reconnect stop the connection instead (`verifyLastActive`).

`stop()` is `StopLeaving`: it clears what the transport of the moment clears
(`StopClears`; nothing for a frame), the buffer and the invocations, and then a callback that was
running may set a heartbeat again. `callbacks` is the table
`invocationCallbacks`: ids are positions, and start again when
`clearInvocationCallbacks` empties it. `outcome` says what became of an
invocation: `threw` before the connection is there, `lost` when it was sent on a
closed socket between two attempts to reconnect, where nothing will settle its
promise until the connection is stopped. `wire` are the invocations on the
socket, `posts` those sent as requests to `/send`, which outlive their channel.

Left out: URLs, JSON, logging, cross-domain requests, the ping, event binding,
and parallel `start()` calls, which the page does not make. The page calls
`start()` when the document is ready, before or after the load event.

### LiveChat

A page has one connection, named like the page. `OpenPage` is
`ChatController.Index` and the ready handler; `ConnectionMoves` is a move of
`HubConnection`, whose `done()` calls `hello`. `userKey` and `connectionKey` are
the two dictionaries of `ConnectionDictionary`. Nothing guards them, so `Add` and
`RemoveByConnectionID` are two steps each. `Add` throws when the user is there,
and the exception is swallowed: a second tab is not registered.

`sendMessageTo` is three steps, because the call to the bus lies in between:
`LookUp` (sender and receiver), `SendChatMessage`, `CallReceiver` with the
connection looked up before. `SendMessage` shows the message in the page before
it is sent. `inbox` are the calls of `receiveMessage` on their way. `SelectChat`
sends a request, `Conversation` answers it with the stored history or the log in
page, and `ConversationArrives` shows the answer, whichever chat is selected by then.
`display` and the answers are sets: the order of messages is not in the model.
`Recycle` restarts the web application: the static dictionaries are empty
again, and the pages reconnect under their old ids without calling `hello`.

## Runs

| Run | Instance | What it shows |
|---|---|---|
| `chat_faults` | 3 threads, 2 messages of one second, 1 history and 1 contacts request, 2 attempts; 1 crash, 1 outage, 1 broken query | types; mutual exclusion; no query on a closed connection; one chat per pair of users; only a `saveMessage` that threw leaves the mutex or an open connection behind; each message stored at most once, and once acknowledged; Chat implements `ConversationStore` |
| `chat_fair` | 2 threads, 3 messages, none in the same second of one conversation, 1 history request, 2 attempts, 1 outage; fairness | every message is stored; every request is answered |
| `directory_faults` | 2 threads, a business and a user account, 1 search, 1 info request, 2 attempts; 1 crash, 1 outage, 1 broken query; fairness | types; mutual exclusion in spite of the stray closes; the mutex always comes back; no location without its company; every message settles (is handled or in the error queue) |
| `directory_unlisted` (violation) | 2 threads, 2 business accounts | a company that is never listed, because the other handler's second `closeConnection` closes the connection under its INSERT at each attempt |
| `bus_session` | 1 user with 2 sessions, a log in and 2 pages in one, a log in in the other; 1 kill of the Authentication process, 1 recycling of the web server; fairness | types; each call gets its own reply; frames arrive whole; a live connection is never closed under its user, and forgotten only by a look-up that had closed an earlier one; every call ends, except one whose stream has ended without a reset |
| `bus_shared` | 2 users; log in, page and hub of one, log in and page of the other | no reply goes to another user, none to two calls |
| `bus_interleaved` (violation) | 1 user; log in, page and hub | a call returns the reply to another |
| `bus_ended` (violation) | the sessions of `bus_session`, without kills and recycling; fairness | the thread of a closed connection never ends |
| `authentication` | 2 users, 3 connections: one creates an account, one logs in to it with its password or a wrong one, one creates another with the same or another e-mail; 1 request, 1 crash, 1 outage, 1 broken query; fairness | types; the mutex comes back and the connection with it; accounts, log ins and events are real, accounts and events unique; new accounts are announced; attempts and requests are answered |
| `signalr` | 4 transports in browsers without frames, without event sources, or without event sources and sockets; 2 messages, 2 invocations, 2 frame timers, 3 losses or sleeps; fairness | types; a stopped connection is quiet; the disconnect timeout runs exactly while reconnecting; messages in order; results to their invocations; the library implements `HubConnection`; `start` settles; reconnecting ends; invocations settle |
| `live_chat` | 3 pages of 2 users, a third user as contact, 1 message, 1 selection per page, 1 loss, 1 restart of the web application | types; the dictionaries agree; messages stay between their users; what a receiver is shown is kept |
| `live_chat_stale` (violation) | 1 page, 2 selections | the page shows one chat while another is selected |

The violations contradict comments in the code; the findings in `PROJECT.json`
quote them.

Why these bounds suffice. For the services: two threads are needed for a thread to meet what
another left behind (a mutex, an open or closed connection), three for one
waiting while a second retries what a third left. Two messages of one
conversation, one each way and of the same second, are needed for both the race
to create the chat and the collision; the third message is for rows of a second
conversation. Two attempts are one retry. `MaxCrashes`, `MaxOutages` and
`MaxBrokenQueries` bound the faults, one of each per run; the theorems below hold
without these bounds. For the bus: two calls at once are needed to meet on a
stream and a third to meet what they left there; two log ins, of two
sessions, for a connection that is replaced, and for one made while another session looks at
the one before it; one kill and one recycling for a connection lost at either end
and used again. For the Authentication service: two creations that clash and a
log in cover each pair of first requests, and a second connection of one user
is needed for a reply to be taken by the wrong endpoint; one password that is right and one that
is not are what `Valid` tells apart. For SignalR: three
faults are a loss, a second one while the first is being repaired, and a sleep;
unsupported transports before and between others make the starts nest, once and twice;
two frame timers are set at once by two errors of one frame; two messages
and two invocations can overtake each other. For the live chat: two tabs of one
user meet in the dictionaries, the third page is at the other end, and the
theorems cover any number of messages. Thread symmetry is used in `chat_faults`, which
has no liveness. The live chat and SignalR runs do not check deadlock: a page whose
connection has ended for good may stop.

Two comments of the code are not true of it in general, and the properties checked say what is
true instead. `AbstractDatabase.cs:203-204` wants the connection opened and closed for each query.
A `saveMessage` whose INSERT throws leaves it open and the mutex entered
(`ChatServiceDatabase.cs:88`: a second that is taken, or MySQL lost during the query), so
`OpenedAndClosedForEachQuery` is not a property of a run; it is violated as soon as two
messages of a conversation share a second. `chat_faults` checks that nothing else leaves anything behind
(`OnlyThrownSavesLeaveAnything`), and a theorem that the comment is true where no INSERT throws.
`ConnectionManager.cs:88` promises a user who logged in recently his connection. When
another session of his has looked up the lost connection before, it removes the new one
(`ConnectionManager.cs:100`); `bus_session` has that case, and `LiveConnectionsAreKept` that
it is the only one.

Fairness. `FairSpec` of a service assumes weak fairness of each thread's `Step`: the pool keeps
running a thread that can move, and MSMQ hands a waiting message to an idle
thread. Nothing is assumed of `Send`, of faults, of `Retire` or of crashes. A
thread that waits in `WaitOne` is enabled only while the mutex is free, and weak
fairness suffices in these runs because each handler holds the mutex for a
bounded number of steps and the number of messages and attempts is bounded.
For the bus, `FairSpec` assumes that both processes keep running their threads and
that services answer; nothing is assumed of users, kills and the garbage
collector. A call that waits for its reply when the
Authentication process ends without a reset reads nothing for ever: `EveryCallEnds`
names that case (`Starved`) and shows that there is no other.
For the Authentication service: threads run, events are sent, services answer and
queues are read; nothing is assumed of clients and faults.
For SignalR: timers that are set fire (the heartbeat after a sleep
excepted, on which no property depends), requests to `/negotiate` and `/start` end, and
invocations on an open channel are answered. Nothing is assumed of channels,
which may hang, fail or stay open as they like: it is the timers that make `start`
settle and reconnecting end.
`chat_fair` leaves out collisions and broken queries: after either, the mutex
stays with a thread for ever and the other threads' messages wait for ever.

Each property of a passing run has a mutant: a plausible slip in the code (a
mutex that does not check its owner, a failing open that keeps the mutex, a
retry that is forgotten, a lookup one way round, a timer not cleared) under
which the run fails.

## Proofs

All theorems are about the modules as TLC checks them, for any number of
threads, messages, accounts, requests, attempts and faults, from the named
assumptions on the constants (that messages, requests and `NoJob` are distinct,
that accounts have distinct names, that bounds are naturals). They are checked by
TLAPS with Z3, Zenon and LS4.

`EndpointProofs` has one lemma per kind of step (send, receive, move, throw,
return, retire, restart) on `EndpointInv`: types, deliveries (a taken message is
taken by one thread; a message that can be delivered has attempts left), and
`Owned` (a handler between `WaitOne` and `ReleaseMutex` owns the mutex). The
lemmas are stated for any service's places, and both services cite them.

`ChatServiceProofs` goes in layers, each inductive relative to those before:

1. `ServiceInv`: `EndpointInv`, the types of tables and locals, and which kind of
   message is at which place. Gives `TypeCorrect` and `MutualExclusionHolds`.
2. `QueriesFindConnectionOpen`, inductive given mutual exclusion: whoever closes
   or loses the connection is the only one at a query. Gives
   `ConnectionOpenHolds`.
3. `ChatInv`: one chat per pair; every row of `messages` comes from a message in
   a chat of its two users, and no two rows from one message; what a handler of
   `saveMessage` has found out is still so when it uses it (no chat of the two
   users at `createChat`; the row's id at `insertMessage`). It needs mutual
   exclusion. Gives `OneChatHolds` and `SavedExactlyOnceHolds`.
4. The contacts list being built, and every list replied, has distinct names,
   given one chat per pair. Gives `ContactsListedOnceHolds`.
5. `CalmInv`, while the service has not died and MySQL has not been lost during a
   query (`Calm`), and if no two messages of one conversation share a second
   (`SecondsDiffer`): the mutex is entered once, by a handler on its way to release it;
   the connection is open only for such a handler; only a handler past its INSERT has
   a row for a message not acknowledged yet. The last is what rules the collision out:
   the only row an INSERT could meet is its own. Gives `OpenedAndClosedHolds`
   (`OpenedAndClosedForEachQuery` under these conditions) and `NothingFailsWithoutFault`. Each condition is needed: a lost query or a collision leaves
   `saveMessage` with the mutex entered and the connection open, and a crash between
   INSERT and acknowledgement makes the retry collide with its own row.
   Calls of `openConnection` that fail are not excluded: they leave nothing behind.
6. Without any condition, `OnlyThrownSavesHolds`: if the mutex or the connection is left behind,
   some `saveMessage` has failed, and MySQL was lost during a query or a row has its second. Until
   then the mutex is entered once and by a handler on its way to release it, as in `CalmInv`; from
   then on the cause stays, because failed attempts, lost queries and rows do not go away; only a
   crash forgets the attempts, and it takes the mutex and the connection with it.

`ChatServiceRefinement` proves `Spec => ImplementsConversationStore` from the first
and third layers and one fact more, `IdleInv`: an idle thread's locals hold nothing
of the request it handled last. `Stage`, `Opened`, `Kept` and `Seen` name the four
variables of the store; lemmas say what each kind of step does to them (a row of
`chats` opens one conversation and shows no message that was not there; a row of
`messages` keeps one message more, in an open conversation with none of that
second; the two SELECTs read what the store holds; a crash forgets what the handlers
of unanswered requests had read), and each action is then one step of the store or
none. A statement that took effect although its handler was given up is the store's
`RejectLate`.

The refinement then pays: `StoreInv`, an invariant of the store alone, is proved over the
store's actions and brought back to the tables and replies of the service. It gives
`OneMessageEachSecond`, `HistoriesShowWhatIsKept` and `ContactsShowOpenedConversations`, and
the steps themselves give `NothingIsLost`. `SettledForGood` comes from the deliveries of
`ServiceInv`: only a message that is taken is acknowledged, answered or given up, by the
one thread that has it.

`CompanyDirectoryProofs` has one invariant, `DirectoryInv`: `EndpointInv`, types,
which message is at which place and that the company of a location about to be
inserted is there (`HandlersOK`), and `MutexInv`: the mutex is never abandoned nor
entered twice, and its owner is between `WaitOne` and `ReleaseMutex`. The last is
what makes `ReleaseMutex` free the mutex, and so what proves mutual exclusion
robust against `ReleaseAgain`. Three results go beyond it:

- `DirectoryAnswersAreListed`, from `AnswersInv`: the answer a thread is building, and
  every reply, names only the company asked for, and only rows there are. The
  connection may be closed under a read at any place; what it has found so far is true.
- `BusinessEventsNeverSucceed`: the way to the return of the handler of a business
  account leads through the second `closeConnection`, which throws.
- `DirectoryListsCompaniesAlone`: what `directory_unlisted` violates holds with one thread
  (`OneThread`) and MySQL within reach (`Undisturbed`). `AloneInv` says that queries find
  the connection open, that a handler past the INSERTs has its rows, and that only the
  company being inserted lacks its location. A crash between the two INSERTs leaves such a
  company for good, so the location is claimed only for a service that has not died.

`BusConnectionProofs` proves `TypeOK`, part by part (what the web server keeps, the
streams, what the bus keeps), and then `RepliesStayWithTheirUser` from `UserInv`: a
call uses a connection of its user, `connections` maps a user to one of his log
ins, and every part on a stream, and the request in the thread at its end, comes
from a call of that user (`OwnParts`). It needs neither lanes nor fairness: the
worst that concurrent calls can do to each other stays within one user.
`NoReplyIsGivenTwice` follows from `ReplyInv`: a call is under way (its size on the
stream, its request in the thread, or its reply on the way back) in one of these
places, once, on the connection it uses; not before its size is written, and not
any more when a call has been given its reply.

`BusLiveConnectionsAreKept` holds for any sessions and concurrent calls too. `KeptInv`: the
entry `connections` has for a user is of a log in that has returned; log ins use their own
connections and requests one whose log in has returned, so nobody closes a connection that is
not yet kept; and a request about to remove an entry has closed the connection it looked up.

Its last section proves what holds only while no two requests of a user overlap; log ins may
overlap anything, for each has a connection of its own. That is an
assumption about the callers, which the code makes and does not enforce, so the theorems
state it: `Spec /\ []RequestsDoNotOverlap => ...`. `BusRequestsDoNotOverlap` shows where it is met
(all requests of a user come one after the other from one session, or from one hub client:
`OneLaneEach`, as in `bus_session`), and `bus_interleaved` that it cannot be dropped. The
invariant is `SessionInv`: for each connection and each call the phase of the exchange
(`Idle`, `HalfAsked`, `Asked`, `Working`, `Replied`, `HalfRead`, `Lost`) fixes both streams,
the request in the thread and the place of the thread (`PhaseInv`, `StreamInv`); a connection
not yet logged in is unused (`NewInv`). It gives `BusCallsGetTheirOwnReply` and
`BusFramesArriveWhole`.

`AuthenticationServiceProofs` has one invariant, `AuthenticationInv`: `TypeOK`;
`MutexInv`, which says that a thread owns the mutex exactly at the places between
`WaitOne` and `ReleaseMutex` and that the connection is closed when nobody owns it;
`AnswersInv`, which carries what a thread knows from its query to the response and the
event (a true `result` has an account behind it that admits the connection, `Admitted`: the row it
has inserted, or one of its name and password); and `UniqueInv`. The uniqueness
needs no mutual exclusion: the UNIQUE columns give it.

`SignalRConnectionProofs` goes in layers too:

1. `ControlInv`: `TypeOK`; `StoppedInv` (what is left after `stop()`); `StartInv`
   (which flags of the `InitHandler` go with which state, deferred object and
   attempt); `TimersInv` (which timers may be set in which state, and for which
   transport), for any list of transports and any browsers. The timers of a frame may be set in
   every state; after `stop()` they find no frame. Gives `StoppedConnectionIsQuietAlways` and
   `DisconnectTimeoutRunsAlways`.
2. `SignalRImplementsHubConnection`: the initial states are those of
   `HubConnection`, and under `ControlInv` each of the callbacks is a step of it or
   a stutter. The mapping is the identity on `state` and `deferral`.
3. `OrderInv`: `delivered` followed by `buffer` is increasing and bounded by
   `arrived`, and the buffer is empty unless the connection is connecting. Gives
   `MessagesAreNotOvertakenAlways`.
4. `InvocationsInv`: while the connection lives, the id of each invocation that is to
   be answered has the callback of that invocation or a deleted one; after `stop()`,
   when ids have started again, only invocations that threw have callbacks. Gives
   `ResultsReachTheirInvocationAlways`.

`LiveChatProofs` proves `LiveChatInv`: `TypeOK`; `HelloInv` and `DictionaryInv`
(every name is that of its page's user, and a page that is between the halves of
`Add` or `RemoveByConnectionID` is still the one under its user's name); and `MessagesInv`, which follows a message from the page where it was
written through calls, inboxes and answers: at each place its sender and receiver
are those it was written with, and what has passed the bus is in `published`.
`SelectedChatIsShownAlone` is the counterpart of `live_chat_stale`: it assumes that each
selection waits for its conversation (`AskedOneByOne`) and that the web application is not
restarted (a request that fails has no handler), and follows the selected chat through
the request and its answer (`SelectionInv`). It says more than `SelectedChatIsDisplayed`: no
message of another conversation is shown either, although messages are received and
written while the answer is on its way.

Every invariant and action property of a passing run is stated by a theorem, two of
the bus under the hypothesis named above, and so is the refinement of each of
the two abstract specifications. Two of the four violated properties have a theorem that says
when they do hold (`CreatedCompaniesAreListed`, `SelectedChatIsDisplayed`), and a third,
`CallsGetTheirOwnReply`, both passes and fails in runs, as its theorem's hypothesis is met or not.

Only model-checked: liveness (`EveryMessageIsSaved`, `EveryRequestIsAnswered`,
`EveryMessageSettles`, `EveryCallEnds`, `NewAccountsAreAnnounced`,
`RequestsAreAnswered`, `StartSettles`, `ReconnectingEnds`, `InvocationsSettle`), which is
out of this prover's reach: fairness and ENABLED.

## Not modelled

- Database lifecycle: `createDB`, `deleteDatabase` and the making of the singletons
  (`getInstance`). They run once, before the first request or at an operator's console,
  while nothing is handled. The races and half-made schemas they admit are listed as hazards.
- Echo: each request is one INSERT that nothing reads and one reversed string. Its
  slip, an exception outside `try`, is the one modelled in `saveMessage`.
- Company Review: two HTTP requests, each one statement in a Java server, with no state
  of the endpoint's own.
- The unsynchronised `Dictionary` of `ConnectionManager`: what concurrent writes do to
  the inside of a .NET `Dictionary` is not defined; each operation is taken as atomic.
- Subscriptions to events through the shared queue `Authentication`, the anonymous
  `echoAsIs`, log ins with an empty name, and console loops.
- The time-out of the receive transaction of NServiceBus.
- Other controllers and pages, the weather web service and the data types: no state.
- `Source/StudentCode`: an earlier copy of the solution.
- Vendored code: jQuery, jQuery UI, Bootstrap, Modernizr, Respond, jQuery Validation and
  `packages/`. The bulk of the repository's JavaScript is of this kind. The page uses it for selectors
  and markup, and no state of CallItLocal is in it. SignalR is the exception: its
  timers and reconnects decide what the hub sees, so it is modelled.
