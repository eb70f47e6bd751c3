------------------------------ MODULE LiveChat ------------------------------
(***************************************************************************)
(* Chat pages, the chat hub and the web server between them: what a page   *)
(* shows (ChatFunctions.js), how messages go through the hub (ChatHub) by  *)
(* the two dictionaries of connected users (ConnectionDictionary), and how *)
(* conversations are fetched (ChatController).                             *)
(* A page has one connection to the hub: its connection id is the page.    *)
(***************************************************************************)
EXTENDS Integers, Sequences, SequencesExt

CONSTANTS
    Pages,          \* chat pages, each opened once
    UserOf,         \* the user a page belongs to
    Contacts,       \* the contacts a page lists, a sequence of users
    Messages,       \* messages, each written at most once
    NoUser,         \* no chat is selected: the page lists no contacts
    LogInPage,      \* what is shown instead of a conversation
    MaxSelects,     \* bound: chats selected in one page
    MaxLosses,      \* bound: connections lost, calls lost on the way
    MaxRecycles     \* bound: restarts of the web application

Users == {UserOf[p] : p \in Pages} \cup UNION {ToSet(Contacts[p]) : p \in Pages}

\* No page: the receiver of a call has no connection.
NoPage == "none"

ASSUME PagesAssumption ==
    /\ NoPage \notin Pages
    /\ \A p \in Pages : Contacts[p] \in Seq(Users)
    /\ NoUser \notin Users

ASSUME BoundsAssumption == MaxSelects \in Nat /\ MaxLosses \in Nat /\ MaxRecycles \in Nat

VARIABLES
    conn,           \* connection.state of a page, "closed" before it is opened
    hello,          \* the call of hello of a page
    selected,       \* currentSelectedChat
    showing,        \* whose conversation is in ConversationDisplayArea
    display,        \* the messages in ConversationDisplayArea, whatever their order
    requests,       \* requests for conversations, with their answers
    selects,
    written,        \* message -> the page it was written in and the receiver
    inbox,          \* calls of receiveMessage on their way to a page
    known,          \* pages whose connection the server holds for alive
    userKey, connectionKey,         \* the dictionaries
    removing,       \* <<page, user>>: RemoveByConnectionID between its removes
    calls,          \* calls of sendMessageTo
    published,      \* messages the Authentication service has accepted
    stored,         \* messages Chat has stored
    losses, recycles

pageVars == <<conn, hello, selected, showing, display, requests, selects>>
hubVars == <<known, userKey, connectionKey, removing, calls>>
busVars == <<published, stored>>
boundVars == <<losses, recycles>>
vars == <<pageVars, written, inbox, hubVars, busVars, boundVars>>

HC == INSTANCE HubConnection WITH state <- conn, deferral <- hello

Unwritten == [page |-> NoPage, to |-> NoUser]

WriterOf(m) == UserOf[written[m].page]

Init ==
    /\ conn = [p \in Pages |-> "closed"]
    /\ hello = [p \in Pages |-> "none"]
    /\ selected = [p \in Pages |-> NoUser]
    /\ showing = [p \in Pages |-> NoUser]
    /\ display = [p \in Pages |-> {}]
    /\ requests = [p \in Pages |-> {}]
    /\ selects = [p \in Pages |-> 0]
    /\ written = [m \in Messages |-> Unwritten]
    /\ inbox = [p \in Pages |-> <<>>]
    /\ known = {}
    /\ userKey = <<>>
    /\ connectionKey = <<>>
    /\ removing = {}
    /\ calls = {}
    /\ published = {}
    /\ stored = {}
    /\ losses = 0
    /\ recycles = 0

-----------------------------------------------------------------------------
(* Opening a page and its connection.                                      *)

\* getChatHistory of the two users: what is stored of their conversation.
History(user, other) ==
    {m \in stored : {WriterOf(m), written[m].to} = {user, other}}

FirstContact(p) == IF Contacts[p] = <<>> THEN NoUser ELSE Contacts[p][1]

\* ChatController.Index, then the ready handler: the first chat is shown and
\* selected, and the connection is started.
OpenPage(p) ==
    /\ conn[p] = "closed"
    /\ conn' = [conn EXCEPT ![p] = "connecting"]
    /\ selected' = [selected EXCEPT ![p] = FirstContact(p)]
    /\ showing' = [showing EXCEPT ![p] = FirstContact(p)]
    /\ display' = [display EXCEPT ![p] =
                      IF FirstContact(p) = NoUser THEN {} ELSE History(UserOf[p], FirstContact(p))]
    /\ UNCHANGED <<hello, requests, selects, written, inbox, hubVars, busVars, boundVars>>

\* The connection changes as HubConnection says. done() of start() calls hello.
ConnectionMoves(p) ==
    \E s \in {"connected", "reconnecting", "disconnected"} :
        /\ <<conn[p], s>> \in HC!Moves
        /\ conn' = [conn EXCEPT ![p] = s]
        /\ hello' = [hello EXCEPT ![p] = IF conn[p] = "connecting" /\ s = "connected"
                                         THEN "sent" ELSE @]
        /\ known' = IF s = "connected" THEN known \cup {p} ELSE known
        /\ inbox' = IF s = "disconnected" THEN [inbox EXCEPT ![p] = <<>>] ELSE inbox
        /\ IF s = "connected"
           THEN UNCHANGED losses
           ELSE losses < MaxLosses /\ losses' = losses + 1
        /\ UNCHANGED <<selected, showing, display, requests, selects, written, userKey, connectionKey,
                       removing, calls, busVars, recycles>>

-----------------------------------------------------------------------------
(* Mutants of definitions below.                                           *)

OverwritesUser(p) ==
    /\ hello[p] = "sent"
    /\ hello' = [hello EXCEPT ![p] = "adding"]
    /\ userKey' = [y \in DOMAIN userKey \cup {UserOf[p]} |->
                      IF y = UserOf[p] THEN p ELSE userKey[y]]
    /\ UNCHANGED <<conn, selected, showing, display, requests, selects, written, inbox,
                   known, connectionKey, removing, calls, busVars, boundVars>>

RemovesUnknown(p) ==
    /\ p \in known
    /\ conn[p] \in {"reconnecting", "disconnected"}
    /\ known' = known \ {p}
    /\ connectionKey' = [q \in DOMAIN connectionKey \ {p} |-> connectionKey[q]]
    /\ removing' = removing \cup {<<p, IF p \in DOMAIN connectionKey THEN connectionKey[p] ELSE NoUser>>}
    /\ UNCHANGED <<pageVars, written, inbox, userKey, calls, busVars, boundVars>>

CallsEveryone(c) ==
    /\ c.step = "accepted"
    /\ calls' = calls \ {c}
    /\ inbox' = [p \in Pages |-> Append(inbox[p], [msg |-> c.msg, sender |-> c.user])]
    /\ UNCHANGED <<pageVars, written, known, userKey, connectionKey, removing, busVars, boundVars>>

IgnoresTheBus(c) ==
    /\ c.step = "lookedUp"
    /\ calls' = (calls \ {c}) \cup {[c EXCEPT !.step = "accepted"]}
    /\ \/ c.user # NoUser /\ published' = published \cup {c.msg}
       \/ UNCHANGED published
    /\ UNCHANGED <<pageVars, written, inbox, known, userKey, connectionKey, removing, stored, boundVars>>

-----------------------------------------------------------------------------
(* ConnectionDictionary. Nothing guards it: its operations are two steps.  *)

Without(f, x) == [y \in DOMAIN f \ {x} |-> f[y]]
With(f, x, v) == [y \in DOMAIN f \cup {x} |-> IF y = x THEN v ELSE f[y]]

\* Add, first half. It throws if the user is there, and the exception is
\* caught: nothing is added.
AddUser(p) ==
    /\ hello[p] = "sent"
    /\ IF UserOf[p] \in DOMAIN userKey
       THEN hello' = [hello EXCEPT ![p] = "done"] /\ UNCHANGED userKey
       ELSE /\ hello' = [hello EXCEPT ![p] = "adding"]
            /\ userKey' = With(userKey, UserOf[p], p)
    /\ UNCHANGED <<conn, selected, showing, display, requests, selects, written, inbox,
                   known, connectionKey, removing, calls, busVars, boundVars>>

\* Add, second half: it throws if the connection is there.
AddConnection(p) ==
    /\ hello[p] = "adding"
    /\ hello' = [hello EXCEPT ![p] = "done"]
    /\ connectionKey' = IF p \in DOMAIN connectionKey THEN connectionKey
                        ELSE With(connectionKey, p, UserOf[p])
    /\ UNCHANGED <<conn, selected, showing, display, requests, selects, written, inbox,
                   known, userKey, removing, calls, busVars, boundVars>>

\* OnDisconnected: the page has stopped its connection, or the server has
\* not heard of it for the disconnect timeout. RemoveByConnectionID, first half.
RemoveConnection(p) ==
    /\ p \in known
    /\ conn[p] \in {"reconnecting", "disconnected"}
    /\ known' = known \ {p}
    /\ IF p \in DOMAIN connectionKey
       THEN /\ connectionKey' = Without(connectionKey, p)
            /\ removing' = removing \cup {<<p, connectionKey[p]>>}
       ELSE UNCHANGED <<connectionKey, removing>>
    /\ UNCHANGED <<pageVars, written, inbox, userKey, calls, busVars, boundVars>>

\* Its second half, which removes the user by name.
RemoveUser(p, user) ==
    /\ <<p, user>> \in removing
    /\ removing' = removing \ {<<p, user>>}
    /\ userKey' = Without(userKey, user)
    /\ UNCHANGED <<pageVars, written, inbox, known, connectionKey, calls, busVars, boundVars>>

-----------------------------------------------------------------------------
(* Sending and receiving messages.                                         *)

\* sendMessage: the message is shown before it is sent. invoke throws if the
\* connection is not started; what is sent while it is lost may be lost.
SendMessage(p, m) ==
    /\ conn[p] # "closed"
    /\ written[m] = Unwritten
    /\ written' = [written EXCEPT ![m] = [page |-> p, to |-> selected[p]]]
    /\ display' = [display EXCEPT ![p] = @ \cup {m}]
    /\ \/ /\ conn[p] \in {"connected", "reconnecting"}
          /\ calls' = calls \cup {[msg |-> m, step |-> "sent", user |-> NoUser, receiver |-> NoPage]}
          /\ UNCHANGED losses
       \/ /\ conn[p] \in {"connected", "reconnecting"}
          /\ losses < MaxLosses /\ losses' = losses + 1
          /\ UNCHANGED calls
       \/ /\ conn[p] \in {"connecting", "disconnected"}
          /\ UNCHANGED <<calls, losses>>
    /\ UNCHANGED <<conn, hello, selected, showing, requests, selects, inbox, known, userKey, connectionKey,
                   removing, busVars, recycles>>

\* sendMessageTo looks both users up; a receiver that is null makes it throw.
LookUp(c) ==
    /\ c.step = "sent"
    /\ LET p == written[c.msg].page
           to == written[c.msg].to
       IN calls' = IF to = NoUser
                   THEN calls \ {c}
                   ELSE (calls \ {c}) \cup
                        {[c EXCEPT !.step = "lookedUp",
                                   !.user = IF p \in DOMAIN connectionKey THEN connectionKey[p] ELSE NoUser,
                                   !.receiver = IF to \in DOMAIN userKey THEN userKey[to] ELSE NoPage]}
    /\ UNCHANGED <<pageVars, written, inbox, known, userKey, connectionKey, removing, busVars, boundVars>>

\* getConnectionObject(user).sendChatMessage: it throws if the user is null
\* or has no connection to the bus, and the call ends without its last step.
SendChatMessage(c) ==
    /\ c.step = "lookedUp"
    /\ \/ /\ c.user # NoUser
          /\ published' = published \cup {c.msg}
          /\ calls' = (calls \ {c}) \cup {[c EXCEPT !.step = "accepted"]}
       \/ /\ calls' = calls \ {c}
          /\ UNCHANGED published
    /\ UNCHANGED <<pageVars, written, inbox, known, userKey, connectionKey, removing, stored, boundVars>>

\* Clients.Client(receiverConnectionID).receiveMessage, with the connection
\* that was looked up before the call to the bus.
CallReceiver(c) ==
    /\ c.step = "accepted"
    /\ calls' = calls \ {c}
    /\ inbox' = IF c.receiver # NoPage /\ conn[c.receiver] # "disconnected"
                THEN [inbox EXCEPT ![c.receiver] = Append(@, [msg |-> c.msg, sender |-> c.user])]
                ELSE inbox
    /\ UNCHANGED <<pageVars, written, known, userKey, connectionKey, removing, busVars, boundVars>>

\* receiveMessage: shown only if the chat with its sender is selected.
ReceiveMessage(p) ==
    /\ conn[p] = "connected" /\ inbox[p] # <<>>
    /\ inbox' = [inbox EXCEPT ![p] = Tail(@)]
    /\ display' = IF selected[p] = Head(inbox[p]).sender
                  THEN [display EXCEPT ![p] = @ \cup {Head(inbox[p]).msg}]
                  ELSE display
    /\ UNCHANGED <<conn, hello, selected, showing, requests, selects, written, hubVars, busVars, boundVars>>

\* MessageSent is handled by Chat.
Store(m) ==
    /\ m \in published \ stored
    /\ stored' = stored \cup {m}
    /\ UNCHANGED <<pageVars, written, inbox, hubVars, published, boundVars>>

-----------------------------------------------------------------------------
(* Selecting a chat.                                                       *)

NoAnswer == [showing |-> NoUser, messages |-> {}]

\* chatInstanceSelected
SelectChat(p, user) ==
    /\ conn[p] # "closed"
    /\ user \in ToSet(Contacts[p]) \ {selected[p]}
    /\ selects[p] < MaxSelects
    /\ selects' = [selects EXCEPT ![p] = @ + 1]
    /\ selected' = [selected EXCEPT ![p] = user]
    /\ requests' = [requests EXCEPT ![p] =
                       @ \cup {[id |-> selects'[p], other |-> user, answer |-> NoAnswer]}]
    /\ UNCHANGED <<conn, hello, showing, display, written, inbox, hubVars, busVars, boundVars>>

\* ChatController.Conversation: the history, or the log in page if the user
\* is not logged in any more (the redirect is followed by the browser).
Conversation(p, r) ==
    /\ r \in requests[p] /\ r.answer = NoAnswer
    /\ \E a \in {[showing |-> r.other, messages |-> History(UserOf[p], r.other)],
                 [showing |-> LogInPage, messages |-> {}]} :
          requests' = [requests EXCEPT ![p] = (@ \ {r}) \cup {[r EXCEPT !.answer = a]}]
    /\ UNCHANGED <<conn, hello, selected, showing, display, selects, written, inbox, hubVars, busVars,
                   boundVars>>

\* The success handler replaces what is shown; there is no error handler.
ConversationArrives(p, r) ==
    /\ r \in requests[p] /\ r.answer # NoAnswer
    /\ requests' = [requests EXCEPT ![p] = @ \ {r}]
    /\ showing' = [showing EXCEPT ![p] = r.answer.showing]
    /\ display' = [display EXCEPT ![p] = r.answer.messages]
    /\ UNCHANGED <<conn, hello, selected, selects, written, inbox, hubVars, busVars, boundVars>>

\* The web application restarts: static state and calls in progress are gone,
\* unanswered requests fail; the pages keep their connection ids.
Recycle ==
    /\ recycles < MaxRecycles
    /\ recycles' = recycles + 1
    /\ userKey' = <<>>
    /\ connectionKey' = <<>>
    /\ removing' = {}
    /\ calls' = {}
    /\ known' = {}
    /\ hello' = [p \in Pages |-> IF hello[p] \in {"sent", "adding"} THEN "done" ELSE hello[p]]
    /\ requests' = [p \in Pages |-> {r \in requests[p] : r.answer # NoAnswer}]
    /\ conn' = [p \in Pages |-> IF conn[p] = "connected" THEN "reconnecting" ELSE conn[p]]
    /\ UNCHANGED <<selected, showing, display, selects, written, inbox, busVars, losses>>

-----------------------------------------------------------------------------
PageSteps(p) ==
    \/ OpenPage(p) \/ ConnectionMoves(p) \/ ReceiveMessage(p)
    \/ \E m \in Messages : SendMessage(p, m)
    \/ \E user \in Users : SelectChat(p, user)
    \/ \E r \in requests[p] : Conversation(p, r) \/ ConversationArrives(p, r)

HubSteps ==
    \/ \E p \in Pages : AddUser(p) \/ AddConnection(p) \/ RemoveConnection(p)
    \/ \E p \in Pages, user \in Users : RemoveUser(p, user)
    \/ \E c \in calls : LookUp(c) \/ SendChatMessage(c) \/ CallReceiver(c)

Next ==
    \/ \E p \in Pages : PageSteps(p)
    \/ HubSteps
    \/ \E m \in Messages : Store(m)
    \/ Recycle

Spec == Init /\ [][Next]_vars

-----------------------------------------------------------------------------
Calls == [msg : Messages, step : {"sent", "lookedUp", "accepted"},
          user : Users \cup {NoUser}, receiver : Pages \cup {NoPage}]

Requests == [id : 1 .. MaxSelects, other : Users,
             answer : [showing : Users \cup {NoUser, LogInPage}, messages : SUBSET Messages]]

Deliveries == [msg : Messages, sender : Users \cup {NoUser}]

TypeOK ==
    /\ conn \in [Pages -> {"closed", "connecting", "connected", "reconnecting", "disconnected"}]
    /\ hello \in [Pages -> {"none", "sent", "adding", "done"}]
    /\ selected \in [Pages -> Users \cup {NoUser}]
    /\ showing \in [Pages -> Users \cup {NoUser, LogInPage}]
    /\ display \in [Pages -> SUBSET Messages]
    /\ requests \in [Pages -> SUBSET Requests]
    /\ selects \in [Pages -> 0 .. MaxSelects]
    /\ written \in [Messages -> [page : Pages \cup {NoPage}, to : Users \cup {NoUser}]]
    /\ inbox \in [Pages -> Seq(Deliveries)]
    /\ known \subseteq Pages
    /\ DOMAIN userKey \subseteq Users /\ \A u \in DOMAIN userKey : userKey[u] \in Pages
    /\ DOMAIN connectionKey \subseteq Pages /\ \A p \in DOMAIN connectionKey : connectionKey[p] \in Users
    /\ removing \subseteq (Pages \X Users)
    /\ calls \subseteq Calls
    /\ published \subseteq Messages /\ stored \subseteq published
    /\ losses \in 0 .. MaxLosses /\ recycles \in 0 .. MaxRecycles

(* The two dictionaries say the same, except where an Add or a Remove is   *)
(* between its halves: a user's connection is known under his name, and no *)
(* connection is known under the name of a user who has another.           *)
DictionariesAgree ==
    /\ \A p \in DOMAIN connectionKey :
          connectionKey[p] \in DOMAIN userKey /\ userKey[connectionKey[p]] = p
    /\ \A u \in DOMAIN userKey :
          \/ userKey[u] \in DOMAIN connectionKey /\ connectionKey[userKey[u]] = u
          \/ hello[userKey[u]] = "adding"
          \/ <<userKey[u], u>> \in removing

(* A page shows messages of its user's conversations only, under the name  *)
(* of the user who wrote them, even when connections come and go between   *)
(* the look up of the receiver and the call of his page.                   *)
MessagesStayBetweenTheirUsers ==
    \A p \in Pages :
        /\ \A m \in display[p] : UserOf[p] \in {WriterOf(m), written[m].to}
        /\ \A i \in 1 .. Len(inbox[p]) :
              /\ inbox[p][i].sender = WriterOf(inbox[p][i].msg)
              /\ written[inbox[p][i].msg].to = UserOf[p]

(* What the receiver of a message is shown has been accepted by the bus:   *)
(* it is in the conversation when he loads it again, or on its way there.  *)
WhatIsReceivedIsKept ==
    \A p \in Pages : \A m \in display[p] : WriterOf(m) # UserOf[p] => m \in published

(* When a user selects a chat, its history is loaded and displayed: when   *)
(* no request is outstanding, the page shows the chat that is selected.    *)
SelectedChatIsDisplayed ==
    \A p \in Pages : requests[p] = {} => showing[p] \in {selected[p], LogInPage}
=============================================================================
