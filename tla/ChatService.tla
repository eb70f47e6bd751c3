---------------------------- MODULE ChatService ----------------------------
(***************************************************************************)
(* The Chat endpoint: the handlers of MessageSent events and of history    *)
(* and contacts requests, run by the threads of the pool against the one   *)
(* ChatServiceDatabase object.                                             *)
(*                                                                         *)
(* A handler is modelled call by call: every database query, every step of *)
(* openConnection and closeConnection and the end of the message's receive *)
(* transaction is a step of its own, and steps of other threads, a crash   *)
(* of the process or a lost MySQL server may come between any two.         *)
(***************************************************************************)
EXTENDS Endpoint, Sequences

CONSTANTS
  Users,             \* user and company names
  Texts,             \* contents of messages
  Messages,          \* the chat messages clients may send
  HistoryRequests,   \* the GetChatHistoryRequests clients may send
  ContactsRequests   \* the GetChatContactsRequests clients may send

Workers  == Threads
Requests == HistoryRequests \cup ContactsRequests
Jobs     == Messages \cup Requests

MessageType == [text : Texts, sender : Users, receiver : Users, timestamp : Nat]

ASSUME MessagesAssumption ==
  /\ Messages \subseteq MessageType
  /\ \A m, n \in Messages : m.text = n.text => m = n
ASSUME RequestsAssumption ==
  /\ HistoryRequests \subseteq [user1 : Users, user2 : Users]
  /\ ContactsRequests \subseteq [usersname : Users]
ASSUME JobsAssumption ==
  /\ Messages \cap Requests = {}
  /\ HistoryRequests \cap ContactsRequests = {}
  /\ NoJob \notin Jobs

VARIABLES
  chats,        \* table chats: the row at position i has the AUTO_INCREMENT id i
  messages,     \* table messages
  chat,         \* per thread: saveMessage's local id
  answer,       \* per thread: the response a read is building
  replies       \* the response each answered request got

tables == <<chats, messages>>
locals == <<chat, answer>>
vars == <<dbVars, endpointVars, tables, locals, replies>>

-----------------------------------------------------------------------------
(* The tables *)

ChatRow    == [usersname : Users, companyname : Users]
MessageRow == [id : Nat, message : Texts, timestamp : Nat, sender : Users]

(* A row of chats for the two users, either way round. *)
Between(row, a, b) ==
  \/ row.usersname = a /\ row.companyname = b
  \/ row.usersname = b /\ row.companyname = a

(* What a history holds and what a contacts list holds. *)
Contact == [id : Nat, name : Users]
Answer  == [result : BOOLEAN, rows : SUBSET (MessageType \cup Contact)]
Failure == [result |-> FALSE, rows |-> {}]

Other(user1, user2, sender) == IF user1 = sender THEN user2 ELSE user1

-----------------------------------------------------------------------------
(* Mutants *)

FindChatOneWay(m) ==
  {i \in DOMAIN chats : chats[i].usersname = m.sender /\ chats[i].companyname = m.receiver}

CollidesNever(id, m) == FALSE

-----------------------------------------------------------------------------
(* Queries *)

(* SELECT id FROM chats for the sender and the receiver, either way round. *)
ChatIds(m) == {i \in DOMAIN chats : Between(chats[i], m.sender, m.receiver)}

(* SELECT id FROM chats after the insert, this way round only. *)
NewChatIds(m) ==
  {i \in DOMAIN chats : chats[i].usersname = m.sender /\ chats[i].companyname = m.receiver}

(* The primary key of messages is (id, timestamp). *)
Collides(id, m) == \E row \in messages : row.id = id /\ row.timestamp = m.timestamp

(* The two INSERTs. *)
AddChat(m) == chats' = Append(chats, [usersname |-> m.sender, companyname |-> m.receiver])

AddMessage(id, m) ==
  messages' = messages \cup {[id |-> id, message |-> m.text,
                              timestamp |-> m.timestamp, sender |-> m.sender]}

(* messages joined with chats on id, for the two users, either way round. *)
History(r) ==
  [result |-> TRUE,
   rows |-> {[text |-> row.message, sender |-> row.sender,
              receiver |-> Other(r.user1, r.user2, row.sender),
              timestamp |-> row.timestamp] :
                row \in {s \in messages : s.id \in DOMAIN chats
                            /\ Between(chats[s.id], r.user1, r.user2)}}]

(* One entry for each row of chats the user is in, in the order of the ids. *)
Contacts(r) ==
  [result |-> TRUE,
   rows |-> {[id |-> i, name |-> Other(chats[i].usersname, chats[i].companyname, r.usersname)] :
                i \in {k \in DOMAIN chats : \/ chats[k].usersname = r.usersname
                                            \/ chats[k].companyname = r.usersname}}]

-----------------------------------------------------------------------------
(* The state machine *)

(* The statements of saveMessage, and the query of a read. *)
Querying == {"findChat", "createChat", "findNewChat", "insertMessage", "select"}

TypeOK ==
  /\ EndpointTypeOK(Jobs, Querying)
  /\ chats \in Seq(ChatRow)
  /\ messages \subseteq MessageRow
  /\ chat \in [Workers -> Nat]
  /\ answer \in [Workers -> Answer]
  /\ replies \in [Requests -> Answer]

Init ==
  /\ EndpointInit(Jobs)
  /\ chats = <<>>
  /\ messages = {}
  /\ chat = [w \in Workers |-> 0]
  /\ answer = [w \in Workers |-> Failure]
  /\ replies = [r \in Requests |-> Failure]

ForgetLocals(w) ==
  /\ chat' = [chat EXCEPT ![w] = 0]
  /\ answer' = [answer EXCEPT ![w] = Failure]

Arrive(j) == Send(j) /\ UNCHANGED <<tables, locals, replies>>

(* Every handler begins with openConnection. *)
Handle(w, j) ==
  /\ Receive(w, j)
  /\ GoTo(w, "waitOne")
  /\ UNCHANGED <<tables, locals, replies>>

Fail(w) == Throw(w) /\ ForgetLocals(w)

(* openConnection returned false: saveMessage throws, a read replies failure. *)
NotOpened(w) ==
  \/ job[w] \in Messages /\ Fail(w)
  \/ job[w] \in Requests /\ GoTo(w, "commit") /\ UNCHANGED <<status, attempts, job, locals>>

Enter(w) == EnterMutex(w) /\ UNCHANGED <<tables, locals, replies>>

EnterAbandoned(w) ==
  EnterAbandonedMutex(w) /\ NotOpened(w) /\ UNCHANGED <<tables, replies>>

OpenIt(w) ==
  /\ OpenConnection(w, IF job[w] \in Messages THEN "findChat" ELSE "select")
  /\ UNCHANGED <<tables, locals, replies>>

OpenFailed(w) ==
  OpenConnectionFails(w) /\ NotOpened(w) /\ UNCHANGED <<tables, replies>>

CloseIt(w) == CloseConnection(w) /\ UNCHANGED <<tables, locals, replies>>

Leave(w) == LeaveMutex(w, "commit") /\ UNCHANGED <<tables, locals, replies>>

(* The handler returns; its reply and the receive of its message commit. *)
Commit(w) ==
  /\ Return(w)
  /\ replies' = [r \in Requests |-> IF r = job[w] THEN answer[w] ELSE replies[r]]
  /\ ForgetLocals(w)
  /\ UNCHANGED tables

-----------------------------------------------------------------------------
(* saveMessage: no statement of it is in a try block, so an exception leaves *)
(* with the connection open and the mutex owned.                             *)

FindChat(w) ==
  /\ At(w, "findChat")
  /\ \/ \E id \in ChatIds(job[w]) : chat' = [chat EXCEPT ![w] = id] /\ GoTo(w, "insertMessage")
     \/ ChatIds(job[w]) = {} /\ GoTo(w, "createChat") /\ UNCHANGED chat
  /\ UNCHANGED <<dbVars, status, attempts, job, faults, tables, answer, replies>>

(* Its own openConnection is for a connection found closed, which            *)
(* QueriesFindConnectionOpen rules out.                                      *)
CreateNewChatInstance(w) ==
  /\ At(w, "createChat")
  /\ connection = "Open"
  /\ AddChat(job[w])
  /\ GoTo(w, "findNewChat")
  /\ UNCHANGED <<dbVars, status, attempts, job, faults, messages, locals, replies>>

FindNewChat(w) ==
  /\ At(w, "findNewChat")
  /\ \E id \in NewChatIds(job[w]) : chat' = [chat EXCEPT ![w] = id]
  /\ GoTo(w, "insertMessage")
  /\ UNCHANGED <<dbVars, status, attempts, job, faults, tables, answer, replies>>

InsertMessage(w) ==
  /\ At(w, "insertMessage")
  /\ ~ Collides(chat[w], job[w])
  /\ AddMessage(chat[w], job[w])
  /\ GoTo(w, "close")
  /\ UNCHANGED <<dbVars, status, attempts, job, faults, chats, locals, replies>>

(* The INSERT meets a row with the same chat and second: MySqlException. *)
InsertCollides(w) ==
  /\ At(w, "insertMessage")
  /\ Collides(chat[w], job[w])
  /\ Fail(w)
  /\ UNCHANGED <<dbVars, faults, tables, replies>>

SaveMessage(w) ==
  FindChat(w) \/ CreateNewChatInstance(w) \/ FindNewChat(w) \/ InsertMessage(w) \/ InsertCollides(w)

-----------------------------------------------------------------------------
(* getChatHistory and getAllChatContactsForUser: errors of the query are     *)
(* caught and a finally block closes.                                        *)

Select(w) ==
  /\ At(w, "select")
  /\ answer' = [answer EXCEPT ![w] = IF job[w] \in HistoryRequests THEN History(job[w])
                                                                   ELSE Contacts(job[w])]
  /\ GoTo(w, "close")
  /\ UNCHANGED <<dbVars, status, attempts, job, faults, tables, chat, replies>>

(* MySQL is lost during a query; an INSERT may have been executed. *)
QueryFailed(w) ==
  /\ QueryFails(w, Querying)
  /\ \/ job[w] \in Messages /\ Fail(w)
     \/ job[w] \in Requests /\ GoTo(w, "close") /\ UNCHANGED <<status, attempts, job, locals>>
  /\ \/ UNCHANGED tables
     \/ At(w, "createChat") /\ AddChat(job[w]) /\ UNCHANGED messages
     \/ /\ At(w, "insertMessage") /\ ~ Collides(chat[w], job[w])
        /\ AddMessage(chat[w], job[w]) /\ UNCHANGED chats
  /\ UNCHANGED replies

RetireThread(w) == Retire(w) /\ UNCHANGED <<tables, locals, replies>>

Crash ==
  /\ Restart
  /\ chat' = [w \in Workers |-> 0]
  /\ answer' = [w \in Workers |-> Failure]
  /\ UNCHANGED <<tables, replies>>

-----------------------------------------------------------------------------
Step(w) ==
  \/ \E j \in Jobs : Handle(w, j)
  \/ Enter(w) \/ EnterAbandoned(w) \/ OpenIt(w) \/ CloseIt(w) \/ Leave(w) \/ Commit(w)
  \/ SaveMessage(w) \/ Select(w)

Fault(w) == OpenFailed(w) \/ QueryFailed(w) \/ RetireThread(w)

Next ==
  \/ \E j \in Jobs : Arrive(j)
  \/ \E w \in Workers : Step(w) \/ Fault(w)
  \/ Crash
  \/ Finished /\ UNCHANGED vars

Spec == Init /\ [][Next]_vars

(* The pool keeps running every thread that can move. *)
FairSpec == Spec /\ \A w \in Workers : WF_vars(Step(w))

-----------------------------------------------------------------------------
(* Properties *)

(* m has a row, in a chat of its two users. *)
Stored(m) ==
  \E row \in messages :
    /\ row.message = m.text /\ row.timestamp = m.timestamp /\ row.sender = m.sender
    /\ row.id \in DOMAIN chats
    /\ Between(chats[row.id], m.sender, m.receiver)

(* A thread between WaitOne and ReleaseMutex of a handler owns the mutex, so *)
(* no two handlers ever query at once, whatever mutexes were left behind,    *)
(* entered twice or abandoned before.                                        *)
MutualExclusion == Owned(Querying)

(* A handler that got past openConnection finds the connection open at every *)
(* query: no other thread closes it under the handler.                       *)
QueriesFindConnectionOpen ==
  \A w \in Workers : pc[w] \in Querying => connection = "Open"

(* chats has no unique key over its two names; still two users never get two *)
(* chats, although looking for one and making one are two statements.        *)
OneChatPerConversation ==
  \A i, k \in DOMAIN chats :
    Between(chats[i], chats[k].usersname, chats[k].companyname) => i = k

(* A message whose handler succeeded is in the table, and no redelivery      *)
(* stores one twice.                                                         *)
SavedExactlyOnce ==
  \A m \in Messages :
    /\ status[m] = "done" => Stored(m)
    /\ \A r1, r2 \in messages : r1.message = m.text /\ r2.message = m.text => r1 = r2

(* A contacts list names nobody twice. *)
ContactsListedOnce ==
  \A r \in ContactsRequests : \A c, d \in replies[r].rows : c.name = d.name => c = d

(* The connection "should be opened and closed for each query made": it is   *)
(* open only while some handler is between its openConnection and its        *)
(* closeConnection.  saveMessage breaks this when one of its statements      *)
(* throws.                                                                   *)
OpenedAndClosedForEachQuery ==
  connection = "Open" => \E w \in Workers : pc[w] \in Locked(Querying)

(* What handlers may leave behind: the connection open, the mutex entered    *)
(* twice, owned by a thread that is not in its handler, or abandoned.        *)
SomethingIsLeftBehind ==
  \/ ~ OpenedAndClosedForEachQuery
  \/ mutex.depth > 1
  \/ mutex.abandoned
  \/ \E w \in Workers : Holds(w) /\ pc[w] \notin Locked(Querying)

(* The conversation of m has a row with the second of m. *)
SecondIsTaken(m) ==
  \E row \in messages :
    /\ row.timestamp = m.timestamp
    /\ row.id \in DOMAIN chats
    /\ Between(chats[row.id], m.sender, m.receiver)

(* Only a saveMessage that threw leaves anything behind, because its INSERT  *)
(* met a row of the same second or MySQL was lost under it: neither reads,   *)
(* whatever is lost under them, nor an openConnection that fails, nor a      *)
(* mutex left behind before, make another handler keep what it took.         *)
OnlyThrownSavesLeaveAnything ==
  SomethingIsLeftBehind =>
    \E m \in Messages : attempts[m] > 0 /\ (faults.broken > 0 \/ SecondIsTaken(m))

(* Every message published is stored in the end. *)
EveryMessageIsSaved == \A m \in Messages : status[m] = "queued" ~> Stored(m)

(* Every request is replied to in the end. *)
EveryRequestIsAnswered == \A r \in Requests : status[r] = "queued" ~> status[r] = "done"

(* The service implements ConversationStore: a row of messages is a stored   *)
(* message, a row of chats an opened conversation, and what a request's      *)
(* handler has read is in its thread's local variables until it replies.     *)
SeenRows(r) ==
  IF status[r] = "done" THEN replies[r]
  ELSE IF \E w \in Workers : job[w] = r
       THEN answer[CHOOSE w \in Workers : job[w] = r]
       ELSE Failure

Store == INSTANCE ConversationStore WITH
  stage  <- [j \in Jobs |-> IF status[j] \in {"queued", "taken"} THEN "pending" ELSE status[j]],
  opened <- {{chats[i].usersname, chats[i].companyname} : i \in DOMAIN chats},
  stored <- {m \in Messages : Stored(m)},
  seen   <- [r \in Requests |->
               IF r \in HistoryRequests THEN SeenRows(r)
               ELSE [SeenRows(r) EXCEPT !.rows = {c.name : c \in @}]]

ImplementsConversationStore == Store!Spec
=============================================================================
