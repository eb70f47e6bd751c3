------------------------- MODULE ChatServiceProofs -------------------------
(***************************************************************************)
(* Theorems about ChatService, for any number of threads, messages,        *)
(* requests, attempts and faults.                                          *)
(***************************************************************************)
EXTENDS ChatService, EndpointProofs, SequenceTheorems

-----------------------------------------------------------------------------
(* First layer: types, deliveries, ownership of the mutex, and which kind of  *)
(* message a handler's place belongs to.                                     *)

Saving == {"findChat", "createChat", "findNewChat", "insertMessage"}

TablesTypeOK ==
  /\ chats \in Seq(ChatRow)
  /\ messages \subseteq MessageRow

LocalsTypeOK ==
  /\ chat \in [Workers -> Nat]
  /\ answer \in [Workers -> Answer]
  /\ replies \in [Requests -> Answer]

HandlersOK ==
  \A w \in Workers : /\ pc[w] \in Saving => job[w] \in Messages
                     /\ pc[w] = "select" => job[w] \in Requests

ServiceInv ==
  /\ EndpointInv(Jobs, Querying, Querying)
  /\ TablesTypeOK
  /\ LocalsTypeOK
  /\ HandlersOK

(* The places of the Chat handlers are none of those all handlers have.      *)
LEMMA Places == PlacesOK(Querying, Querying) /\ NoJob \notin Jobs
BY JobsAssumption DEF PlacesOK, Querying

(* What the queries read and insert has the types of the tables. *)
LEMMA QueryTypes ==
  ASSUME TablesTypeOK
  PROVE  /\ Failure \in Answer
         /\ \A r \in HistoryRequests : History(r) \in Answer
         /\ \A r \in ContactsRequests : Contacts(r) \in Answer
         /\ \A m \in Messages : ChatIds(m) \subseteq Nat /\ NewChatIds(m) \subseteq Nat
         /\ \A m \in Messages : AddChat(m) => chats' \in Seq(ChatRow)
         /\ \A m \in Messages, id \in Nat : AddMessage(id, m) => messages' \subseteq MessageRow
<1> USE MessagesAssumption, RequestsAssumption DEF TablesTypeOK
<1>0. DOMAIN chats \subseteq Nat /\ \A i \in DOMAIN chats : chats[i] \in ChatRow
  OBVIOUS
<1>1. Failure \in Answer
  BY DEF Failure, Answer
<1>2. ASSUME NEW r \in HistoryRequests PROVE History(r) \in Answer
  <2>1. ASSUME NEW row \in messages
        PROVE  [text |-> row.message, sender |-> row.sender,
                receiver |-> Other(r.user1, r.user2, row.sender),
                timestamp |-> row.timestamp] \in MessageType
    BY <2>1 DEF MessageRow, MessageType, Other
  <2> QED  BY <2>1 DEF History, Answer
<1>3. ASSUME NEW r \in ContactsRequests PROVE Contacts(r) \in Answer
  <2>1. ASSUME NEW i \in DOMAIN chats
        PROVE  [id |-> i, name |-> Other(chats[i].usersname, chats[i].companyname, r.usersname)]
                 \in Contact
    BY <1>0 DEF ChatRow, Contact, Other
  <2> QED  BY <2>1 DEF Contacts, Answer
<1>4. \A m \in Messages : ChatIds(m) \subseteq Nat /\ NewChatIds(m) \subseteq Nat
  BY <1>0 DEF ChatIds, NewChatIds
<1>5. ASSUME NEW m \in Messages, AddChat(m) PROVE chats' \in Seq(ChatRow)
  <2>1. [usersname |-> m.sender, companyname |-> m.receiver] \in ChatRow
    BY DEF MessageType, ChatRow
  <2> QED  BY <1>5, <2>1 DEF AddChat
<1>6. ASSUME NEW m \in Messages, NEW id \in Nat, AddMessage(id, m)
      PROVE  messages' \subseteq MessageRow
  BY <1>6 DEF AddMessage, MessageRow, MessageType
<1> QED  BY <1>1, <1>2, <1>3, <1>4, <1>5, <1>6

(* The first layer holds when the service starts. *)
THEOREM InitServiceInv == Init => ServiceInv
<1> SUFFICES ASSUME Init PROVE ServiceInv
  OBVIOUS
<1>1. EndpointInv(Jobs, Querying, Querying)
  BY Places, InitKeeps DEF Init
<1>2. TablesTypeOK
  BY DEF Init, TablesTypeOK
<1>3. LocalsTypeOK
  BY <1>2, QueryTypes DEF Init, LocalsTypeOK
<1>4. HandlersOK
  BY DEF Init, EndpointInit, HandlersOK, Saving, Workers
<1> QED  BY <1>1, <1>2, <1>3, <1>4 DEF ServiceInv

(* A move of w to another place of its handler, which may set its locals and  *)
(* add to the tables.                                                        *)
LEMMA MoveServiceInv ==
  ASSUME ServiceInv, NEW w \in Workers, ~ At(w, "idle"),
         NEW place \in Querying \cup {"waitOne", "open", "close", "release", "commit"},
         GoTo(w, place), UNCHANGED <<status, attempts, job>>,
         DbTypeOK', faults' \in Faults, OthersKeep(w),
         place \in Locked(Querying) => mutex'.owner = w,
         place \in Saving => job[w] \in Messages,
         place = "select" => job[w] \in Requests,
         TablesTypeOK', LocalsTypeOK'
  PROVE  ServiceInv'
<1>1. EndpointInv(Jobs, Querying, Querying)'
  BY Places, MoveKeeps DEF ServiceInv, Workers
<1>2. HandlersOK'
  BY DEF ServiceInv, HandlersOK, EndpointInv, EndpointTypeOK, GoTo, Workers
<1> QED  BY <1>1, <1>2 DEF ServiceInv

(* The handler of w throws. *)
LEMMA FailServiceInv ==
  ASSUME ServiceInv, NEW w \in Workers, ~ At(w, "idle"), Fail(w),
         DbTypeOK', faults' \in Faults, OthersKeep(w), TablesTypeOK', UNCHANGED replies
  PROVE  ServiceInv'
<1>1. EndpointInv(Jobs, Querying, Querying)'
  BY Places, ThrowKeeps DEF ServiceInv, Fail, Workers
<1>2. LocalsTypeOK'
  BY QueryTypes DEF ServiceInv, LocalsTypeOK, Fail, ForgetLocals
<1>3. HandlersOK'
  BY DEF ServiceInv, HandlersOK, EndpointInv, EndpointTypeOK, Fail, Throw, Workers, Saving
<1> QED  BY <1>1, <1>2, <1>3 DEF ServiceInv

(* openConnection returned false. *)
LEMMA NotOpenedServiceInv ==
  ASSUME ServiceInv, NEW w \in Workers, ~ At(w, "idle"), NotOpened(w),
         DbTypeOK', faults' \in Faults, OthersKeep(w), UNCHANGED <<tables, replies>>
  PROVE  ServiceInv'
<1>1. TablesTypeOK'
  BY DEF ServiceInv, TablesTypeOK, tables
<1>2. CASE Fail(w)
  BY <1>1, <1>2, FailServiceInv
<1>3. CASE job[w] \in Requests /\ GoTo(w, "commit") /\ UNCHANGED <<status, attempts, job, locals>>
  <2>1. LocalsTypeOK'
    BY <1>3 DEF ServiceInv, LocalsTypeOK, locals
  <2> QED  BY <1>1, <1>3, <2>1, MoveServiceInv, Places DEF Locked, PlacesOK, Saving, Querying
<1> QED  BY <1>2, <1>3 DEF NotOpened

(* A statement on the tables or the locals by a thread that owns the mutex. *)
LEMMA StatementServiceInv ==
  ASSUME ServiceInv, NEW w \in Workers, pc[w] \in Querying,
         NEW place \in Saving \cup {"close"}, GoTo(w, place),
         UNCHANGED <<dbVars, status, attempts, job, faults>>,
         place \in Saving => job[w] \in Messages,
         TablesTypeOK', LocalsTypeOK'
  PROVE  ServiceInv'
<1>1. ~ At(w, "idle")
  BY DEF At, Querying
<1>2. DbTypeOK' /\ OthersKeep(w) /\ faults' \in Faults
  BY DEF ServiceInv, EndpointInv, EndpointTypeOK, DbTypeOK, dbVars, OthersKeep, Faults
<1>3. mutex'.owner = w
  BY DEF ServiceInv, EndpointInv, Owned, Locked, Holds, dbVars, Workers
<1>4. place \in Querying \cup {"waitOne", "open", "close", "release", "commit"} /\ place # "select"
  BY DEF Querying, Saving
<1> QED  BY <1>1, <1>2, <1>3, <1>4, MoveServiceInv

(* Every step preserves the first layer. *)
THEOREM StepServiceInv == ServiceInv /\ [Next]_vars => ServiceInv'
<1> SUFFICES ASSUME ServiceInv, [Next]_vars PROVE ServiceInv'
  OBVIOUS
<1> USE DEF Workers
<1>0. /\ DbTypeOK /\ faults \in Faults /\ TablesTypeOK /\ LocalsTypeOK
      /\ \A w \in Workers : job[w] \in Messages \/ job[w] \in Requests \/ pc[w] = "idle"
  BY DEF ServiceInv, EndpointInv, EndpointTypeOK, Faults, Jobs
<1>1. CASE UNCHANGED vars
  BY <1>1 DEF vars, dbVars, endpointVars, tables, locals, ServiceInv, EndpointInv, EndpointTypeOK,
              DbTypeOK, DeliveriesOK, Owned, Holds, TablesTypeOK, LocalsTypeOK, HandlersOK
<1>2. ASSUME NEW j \in Jobs, Arrive(j) PROVE ServiceInv'
  <2>1. EndpointInv(Jobs, Querying, Querying)'
    BY <1>2, Places, SendKeeps DEF ServiceInv, Arrive
  <2> QED  BY <1>2, <2>1 DEF Arrive, Send, tables, locals, ServiceInv, TablesTypeOK, LocalsTypeOK, HandlersOK
<1>3. ASSUME NEW w \in Workers, NEW j \in Jobs, Handle(w, j) PROVE ServiceInv'
  <2>1. EndpointInv(Jobs, Querying, Querying)'
    BY <1>3, Places, ReceiveKeeps DEF ServiceInv, Handle
  <2>2. HandlersOK'
    BY <1>3 DEF Handle, Receive, GoTo, ServiceInv, HandlersOK, EndpointInv, EndpointTypeOK, Saving
  <2> QED  BY <1>3, <2>1, <2>2 DEF Handle, tables, locals, ServiceInv, TablesTypeOK, LocalsTypeOK
<1>4. ASSUME NEW w \in Workers, Enter(w) PROVE ServiceInv'
  <2>1. DbTypeOK' /\ OthersKeep(w) /\ mutex'.owner = w
    BY <1>0, <1>4, DbSteps DEF Enter, EnterMutex
  <2>2. TablesTypeOK' /\ LocalsTypeOK' /\ faults' \in Faults
    BY <1>0, <1>4 DEF Enter, EnterMutex, TablesTypeOK, LocalsTypeOK, tables, locals
  <2> QED  BY <1>4, <2>1, <2>2, MoveServiceInv DEF Enter, EnterMutex, At, Saving
<1>5. ASSUME NEW w \in Workers, EnterAbandoned(w) PROVE ServiceInv'
  <2>1. DbTypeOK' /\ OthersKeep(w)
    BY <1>0, <1>5, DbSteps DEF EnterAbandoned, EnterAbandonedMutex
  <2> QED  BY <1>0, <1>5, <2>1, NotOpenedServiceInv DEF EnterAbandoned, EnterAbandonedMutex, At
<1>6. ASSUME NEW w \in Workers, OpenIt(w) PROVE ServiceInv'
  <2>1. DbTypeOK' /\ OthersKeep(w) /\ mutex'.owner = w
    BY <1>0, <1>6, DbSteps DEF OpenIt, OpenConnection
  <2>2. TablesTypeOK' /\ LocalsTypeOK' /\ faults' \in Faults
    BY <1>0, <1>6 DEF OpenIt, OpenConnection, TablesTypeOK, LocalsTypeOK, tables, locals
  <2>3. CASE job[w] \in Messages
    BY <1>6, <2>1, <2>2, <2>3, MoveServiceInv DEF OpenIt, OpenConnection, At, Querying
  <2>4. CASE job[w] \notin Messages
    <3>1. job[w] \in Requests
      BY <1>0, <1>6, <2>4 DEF OpenIt, OpenConnection, At
    <3> QED  BY <1>6, <2>1, <2>2, <2>4, <3>1, MoveServiceInv
             DEF OpenIt, OpenConnection, At, Querying, Saving
  <2> QED  BY <2>3, <2>4
<1>7. ASSUME NEW w \in Workers, CloseIt(w) PROVE ServiceInv'
  <2>1. DbTypeOK' /\ mutex' = mutex
    BY <1>0, <1>7, DbSteps DEF CloseIt, CloseConnection
  <2>2. mutex.owner = w
    BY <1>7 DEF CloseIt, CloseConnection, At, ServiceInv, EndpointInv, Owned, Locked, Holds
  <2>3. TablesTypeOK' /\ LocalsTypeOK' /\ faults' \in Faults
    BY <1>0, <1>7 DEF CloseIt, CloseConnection, TablesTypeOK, LocalsTypeOK, tables, locals
  <2> QED  BY <1>7, <2>1, <2>2, <2>3, MoveServiceInv DEF CloseIt, CloseConnection, At, OthersKeep, Saving
<1>8. ASSUME NEW w \in Workers, Leave(w) PROVE ServiceInv'
  <2>1. DbTypeOK' /\ OthersKeep(w)
    BY <1>0, <1>8, DbSteps DEF Leave, LeaveMutex
  <2>2. TablesTypeOK' /\ LocalsTypeOK' /\ faults' \in Faults
    BY <1>0, <1>8 DEF Leave, LeaveMutex, TablesTypeOK, LocalsTypeOK, tables, locals
  <2> QED  BY <1>8, <2>1, <2>2, MoveServiceInv DEF Leave, LeaveMutex, At, Locked, Querying, Saving
<1>9. ASSUME NEW w \in Workers, Commit(w) PROVE ServiceInv'
  <2>1. EndpointInv(Jobs, Querying, Querying)'
    BY <1>9, Places, ReturnKeeps DEF ServiceInv, Commit
  <2>2. TablesTypeOK' /\ LocalsTypeOK'
    BY <1>0, <1>9, QueryTypes DEF Commit, ForgetLocals, TablesTypeOK, LocalsTypeOK, tables
  <2>3. HandlersOK'
    BY <1>9 DEF Commit, Return, ServiceInv, HandlersOK, EndpointInv, EndpointTypeOK, Saving
  <2> QED  BY <2>1, <2>2, <2>3 DEF ServiceInv
<1>10. ASSUME NEW w \in Workers, FindChat(w) PROVE ServiceInv'
  <2>1. job[w] \in Messages /\ pc[w] \in Querying
    BY <1>10 DEF FindChat, At, ServiceInv, HandlersOK, Saving, Querying
  <2>2. TablesTypeOK' /\ LocalsTypeOK'
    BY <1>0, <1>10, <2>1, QueryTypes DEF FindChat, TablesTypeOK, LocalsTypeOK, tables
  <2>3. \E place \in {"insertMessage", "createChat"} : GoTo(w, place)
    BY <1>10 DEF FindChat
  <2> QED  BY <1>10, <2>1, <2>2, <2>3, StatementServiceInv DEF FindChat, Saving
<1>11. ASSUME NEW w \in Workers, CreateNewChatInstance(w) PROVE ServiceInv'
  <2>1. job[w] \in Messages /\ pc[w] \in Querying
    BY <1>11 DEF CreateNewChatInstance, At, ServiceInv, HandlersOK, Saving, Querying
  <2>2. TablesTypeOK' /\ LocalsTypeOK'
    BY <1>0, <1>11, <2>1, QueryTypes DEF CreateNewChatInstance, TablesTypeOK, LocalsTypeOK, locals
  <2> QED  BY <1>11, <2>1, <2>2, StatementServiceInv DEF CreateNewChatInstance, Saving
<1>12. ASSUME NEW w \in Workers, FindNewChat(w) PROVE ServiceInv'
  <2>1. job[w] \in Messages /\ pc[w] \in Querying
    BY <1>12 DEF FindNewChat, At, ServiceInv, HandlersOK, Saving, Querying
  <2>2. TablesTypeOK' /\ LocalsTypeOK'
    BY <1>0, <1>12, <2>1, QueryTypes DEF FindNewChat, TablesTypeOK, LocalsTypeOK, tables
  <2> QED  BY <1>12, <2>1, <2>2, StatementServiceInv DEF FindNewChat, Saving
<1>13. ASSUME NEW w \in Workers, InsertMessage(w) PROVE ServiceInv'
  <2>1. job[w] \in Messages /\ pc[w] \in Querying
    BY <1>13 DEF InsertMessage, At, ServiceInv, HandlersOK, Saving, Querying
  <2>2. TablesTypeOK' /\ LocalsTypeOK'
    BY <1>0, <1>13, <2>1, QueryTypes DEF InsertMessage, TablesTypeOK, LocalsTypeOK, locals
  <2> QED  BY <1>13, <2>1, <2>2, StatementServiceInv DEF InsertMessage, Saving
<1>14. ASSUME NEW w \in Workers, InsertCollides(w) PROVE ServiceInv'
  <2>1. DbTypeOK' /\ OthersKeep(w) /\ faults' \in Faults /\ TablesTypeOK'
    BY <1>0, <1>14 DEF InsertCollides, dbVars, DbTypeOK, OthersKeep, tables, TablesTypeOK
  <2> QED  BY <1>14, <2>1, FailServiceInv DEF InsertCollides, At
<1>15. ASSUME NEW w \in Workers, Select(w) PROVE ServiceInv'
  <2>1. job[w] \in Requests /\ pc[w] \in Querying
    BY <1>15 DEF Select, At, ServiceInv, HandlersOK, Querying
  <2>2. TablesTypeOK' /\ LocalsTypeOK'
    BY <1>0, <1>15, <2>1, QueryTypes DEF Select, TablesTypeOK, LocalsTypeOK, tables, Requests
  <2> QED  BY <1>15, <2>1, <2>2, StatementServiceInv DEF Select, Saving
<1>16. ASSUME NEW w \in Workers, OpenFailed(w) PROVE ServiceInv'
  <2>1. DbTypeOK' /\ OthersKeep(w)
    BY <1>0, <1>16, DbSteps DEF OpenFailed, OpenConnectionFails
  <2>2. faults' \in Faults
    BY <1>0, <1>16, EndpointAssumption DEF OpenFailed, OpenConnectionFails, Faults
  <2> QED  BY <1>16, <2>1, <2>2, NotOpenedServiceInv DEF OpenFailed, OpenConnectionFails, At
<1>17. ASSUME NEW w \in Workers, QueryFailed(w) PROVE ServiceInv'
  <2>1. /\ pc[w] \in Querying /\ ~ At(w, "idle")
        /\ QueryBreaks /\ faults' \in Faults
    BY <1>0, <1>17, EndpointAssumption DEF QueryFailed, QueryFails, Faults, At, Querying
  <2>2. DbTypeOK' /\ mutex' = mutex /\ OthersKeep(w) /\ mutex'.owner = w
    BY <1>0, <2>1, DbSteps DEF OthersKeep, ServiceInv, EndpointInv, Owned, Locked, Holds
  <2>3. TablesTypeOK'
    <3>1. CASE UNCHANGED tables
      BY <1>0, <3>1 DEF tables, TablesTypeOK
    <3>2. CASE At(w, "createChat") /\ AddChat(job[w]) /\ UNCHANGED messages
      BY <1>0, <3>2, QueryTypes DEF At, ServiceInv, HandlersOK, Saving, TablesTypeOK
    <3>3. CASE At(w, "insertMessage") /\ AddMessage(chat[w], job[w]) /\ UNCHANGED chats
      BY <1>0, <3>3, QueryTypes DEF At, ServiceInv, HandlersOK, Saving, TablesTypeOK, LocalsTypeOK
    <3> QED  BY <1>17, <3>1, <3>2, <3>3 DEF QueryFailed
  <2>4. CASE Fail(w)
    BY <1>17, <2>1, <2>2, <2>3, <2>4, FailServiceInv DEF QueryFailed
  <2>5. CASE GoTo(w, "close") /\ UNCHANGED <<status, attempts, job, locals>>
    <3>1. LocalsTypeOK'
      BY <1>0, <1>17, <2>5 DEF QueryFailed, LocalsTypeOK, locals
    <3> QED  BY <2>1, <2>2, <2>3, <2>5, <3>1, MoveServiceInv DEF Saving
  <2> QED  BY <1>17, <2>4, <2>5 DEF QueryFailed
<1>18. ASSUME NEW w \in Workers, RetireThread(w) PROVE ServiceInv'
  <2>1. EndpointInv(Jobs, Querying, Querying)'
    BY <1>18, Places, RetireKeeps DEF ServiceInv, RetireThread
  <2> QED  BY <1>18, <2>1 DEF RetireThread, Retire, endpointVars, tables, locals, ServiceInv,
                             TablesTypeOK, LocalsTypeOK, HandlersOK
<1>19. CASE Crash
  <2>1. EndpointInv(Jobs, Querying, Querying)'
    BY <1>19, Places, RestartKeeps DEF ServiceInv, Crash
  <2>2. TablesTypeOK' /\ LocalsTypeOK'
    BY <1>0, <1>19, QueryTypes DEF Crash, TablesTypeOK, LocalsTypeOK, tables
  <2>3. HandlersOK'
    BY <1>19 DEF Crash, Restart, HandlersOK, Saving
  <2> QED  BY <2>1, <2>2, <2>3 DEF ServiceInv
<1> QED
  BY <1>1, <1>2, <1>3, <1>4, <1>5, <1>6, <1>7, <1>8, <1>9, <1>10, <1>11, <1>12, <1>13, <1>14,
     <1>15, <1>16, <1>17, <1>18, <1>19 DEF Next, Step, Fault, SaveMessage

(* The first layer holds in every behaviour of the service. *)
THEOREM ServiceInvariant == Spec => []ServiceInv
BY InitServiceInv, StepServiceInv, PTL DEF Spec

(* The tables, the queue, the threads' variables, the mutex and the connection *)
(* always have the values the code can give them; in particular no message is *)
(* delivered more than MaxAttempts times between two crashes.                 *)
THEOREM TypeCorrect == Spec => []TypeOK
<1>1. ServiceInv => TypeOK
  BY DEF ServiceInv, EndpointInv, TablesTypeOK, LocalsTypeOK, TypeOK
<1> QED  BY <1>1, ServiceInvariant, PTL

(* The mutex of AbstractDatabase excludes: no two handlers are past            *)
(* openConnection at once, whichever threads threw, left the mutex behind,    *)
(* entered it twice or retired with it before.                                *)
THEOREM MutualExclusionHolds == Spec => []MutualExclusion
<1>1. ServiceInv => MutualExclusion
  BY DEF ServiceInv, EndpointInv, MutualExclusion
<1> QED  BY <1>1, ServiceInvariant, PTL

-----------------------------------------------------------------------------
(* Second layer: the connection is open at every query. *)

(* Two handlers past WaitOne are one. *)
LEMMA OneOwner ==
  ASSUME ServiceInv, NEW u \in Workers, NEW v \in Workers,
         pc[u] \in Locked(Querying), pc[v] \in Locked(Querying)
  PROVE  u = v
BY DEF ServiceInv, EndpointInv, Owned, Holds, Workers

(* A connection is closed by the handler that is done with it, or lost by the *)
(* handler whose query fails, while no other handler queries.                *)
THEOREM StepConnectionOpen ==
  ServiceInv /\ QueriesFindConnectionOpen /\ [Next]_vars => QueriesFindConnectionOpen'
<1> SUFFICES ASSUME ServiceInv, QueriesFindConnectionOpen, [Next]_vars,
                    NEW v \in Workers, pc'[v] \in Querying
             PROVE  connection' = "Open"
  BY DEF QueriesFindConnectionOpen
<1> USE DEF Workers, At
<1>0. /\ pc \in [Workers -> Querying \cup {"idle", "waitOne", "open", "close", "release", "commit"}]
      /\ pc[v] \in Querying => connection = "Open"
      /\ Querying \subseteq Locked(Querying) /\ {"open", "close", "release"} \subseteq Locked(Querying)
  BY DEF ServiceInv, EndpointInv, EndpointTypeOK, QueriesFindConnectionOpen, Locked
<1>1. CASE UNCHANGED vars
  BY <1>0, <1>1 DEF vars, dbVars, endpointVars
<1>2. ASSUME NEW j \in Jobs, Arrive(j) PROVE connection' = "Open"
  BY <1>0, <1>2 DEF Arrive, Send, dbVars
<1>3. ASSUME NEW w \in Workers, NEW j \in Jobs, Handle(w, j) PROVE connection' = "Open"
  BY <1>0, <1>3 DEF Handle, Receive, GoTo, dbVars, Querying
<1>4. ASSUME NEW w \in Workers, Enter(w) PROVE connection' = "Open"
  BY <1>0, <1>4 DEF Enter, EnterMutex, WaitOne, GoTo, Querying
<1>5. ASSUME NEW w \in Workers, NotOpened(w), connection' = connection PROVE connection' = "Open"
  BY <1>0, <1>5 DEF NotOpened, Fail, Throw, GoTo, Querying
<1>6. ASSUME NEW w \in Workers, EnterAbandoned(w) \/ OpenFailed(w) PROVE connection' = "Open"
  BY <1>5, <1>6 DEF EnterAbandoned, EnterAbandonedMutex, WaitOneAbandoned,
                    OpenFailed, OpenConnectionFails, OpenFails, ReleaseMutex
<1>7. ASSUME NEW w \in Workers, OpenIt(w) PROVE connection' = "Open"
  BY <1>7 DEF OpenIt, OpenConnection, Open
<1>8. ASSUME NEW w \in Workers, CloseIt(w) PROVE connection' = "Open"
  <2>1. v # w /\ pc[v] \in Querying
    BY <1>0, <1>8 DEF CloseIt, CloseConnection, GoTo, Querying
  <2> QED  BY <1>0, <1>8, <2>1, OneOwner DEF CloseIt, CloseConnection
<1>9. ASSUME NEW w \in Workers, Leave(w) PROVE connection' = "Open"
  BY <1>0, <1>9 DEF Leave, LeaveMutex, ReleaseMutex, GoTo, Querying
<1>10. ASSUME NEW w \in Workers, Commit(w) PROVE connection' = "Open"
  BY <1>0, <1>10 DEF Commit, Return, dbVars, Querying
<1>11. ASSUME NEW w \in Workers, SaveMessage(w) \/ Select(w) PROVE connection' = "Open"
  <2>1. pc[w] \in Querying /\ UNCHANGED dbVars
    BY <1>11 DEF SaveMessage, FindChat, CreateNewChatInstance, FindNewChat, InsertMessage,
                 InsertCollides, Select, Querying
  <2> QED  BY <2>1 DEF QueriesFindConnectionOpen, dbVars
<1>12. ASSUME NEW w \in Workers, QueryFailed(w) PROVE connection' = "Open"
  <2>1. v # w /\ pc[v] \in Querying /\ pc[w] \in Querying
    BY <1>0, <1>12 DEF QueryFailed, QueryFails, Fail, Throw, GoTo, Querying
  <2> QED  BY <1>0, <2>1, OneOwner
<1>13. ASSUME NEW w \in Workers, RetireThread(w) PROVE connection' = "Open"
  BY <1>0, <1>13 DEF RetireThread, Retire, Abandon, endpointVars
<1>14. CASE Crash
  BY <1>14 DEF Crash, Restart, Querying
<1> QED
  BY <1>1, <1>2, <1>3, <1>4, <1>6, <1>7, <1>8, <1>9, <1>10, <1>11, <1>12, <1>13, <1>14
     DEF Next, Step, Fault

(* No handler of the Chat service ever queries a connection that another      *)
(* thread has closed.                                                        *)
THEOREM ConnectionOpenHolds == Spec => []QueriesFindConnectionOpen
<1>1. Init => QueriesFindConnectionOpen
  BY DEF Init, EndpointInit, QueriesFindConnectionOpen, Querying, Workers
<1> QED  BY <1>1, StepConnectionOpen, ServiceInvariant, PTL DEF Spec

-----------------------------------------------------------------------------
(* Third layer: the tables. *)

AfterInsert == {"close", "release", "commit"}

(* row was inserted for message m. *)
RowOf(row, m) ==
  /\ row.message = m.text /\ row.timestamp = m.timestamp /\ row.sender = m.sender
  /\ row.id \in ChatIds(m)

TablesInv ==
  /\ OneChatPerConversation
  /\ \A row \in messages : \E m \in Messages : RowOf(row, m)
  /\ \A m \in Messages : status[m] = "done" => Stored(m)

(* What a thread in saveMessage knows: that there is no chat yet, which chat  *)
(* it found, and that its message is stored.                                 *)
SaverOK(w) ==
  \A m \in Messages : job[w] = m =>
    /\ pc[w] = "createChat" => ChatIds(m) = {}
    /\ pc[w] = "insertMessage" => chat[w] \in ChatIds(m)
    /\ pc[w] \in AfterInsert => Stored(m)

ChatInv == TablesInv /\ \A w \in Workers : SaverOK(w)

(* A message is stored when it has a row. *)
LEMMA StoredByRow ==
  ASSUME NEW m
  PROVE  Stored(m) <=> \E row \in messages : RowOf(row, m)
BY DEF Stored, RowOf, ChatIds

(* Tables, places and locals that a step leaves alone keep what is known.    *)
LEMMA QuietSaver ==
  ASSUME NEW w \in Workers, SaverOK(w), UNCHANGED tables,
         pc'[w] \in {"createChat", "insertMessage"} \cup AfterInsert =>
           pc'[w] = pc[w] /\ job'[w] = job[w] /\ chat'[w] = chat[w]
  PROVE  SaverOK(w)'
BY DEF SaverOK, tables, ChatIds, Stored, AfterInsert

(* What is known of the tables rests on the tables and the deliveries alone.  *)
LEMMA QuietTables ==
  ASSUME TablesInv, UNCHANGED tables,
         \A m \in Messages : status'[m] = "done" => status[m] = "done" \/ Stored(m)
  PROVE  TablesInv'
BY DEF TablesInv, tables, OneChatPerConversation, RowOf, ChatIds, Stored

(* A new row of chats leaves the ones there, and all that is known of them.  *)
LEMMA ChatsGrow ==
  ASSUME TablesTypeOK, NEW n, AddChat(n)
  PROVE  /\ Len(chats) + 1 \in DOMAIN chats'
         /\ DOMAIN chats' = DOMAIN chats \cup {Len(chats) + 1}
         /\ Len(chats) + 1 \notin DOMAIN chats
         /\ \A i \in DOMAIN chats : chats'[i] = chats[i]
         /\ chats'[Len(chats) + 1] = [usersname |-> n.sender, companyname |-> n.receiver]
         /\ \A m : ChatIds(m) \subseteq ChatIds(m)'
BY DEF TablesTypeOK, AddChat, ChatIds

(* The new chat is the only one of its two users. *)
LEMMA AddChatKeepsOne ==
  ASSUME TablesTypeOK, OneChatPerConversation, NEW n, AddChat(n), ChatIds(n) = {}
  PROVE  OneChatPerConversation'
<1> DEFINE new == Len(chats) + 1
           row == [usersname |-> n.sender, companyname |-> n.receiver]
<1>0. /\ DOMAIN chats' = DOMAIN chats \cup {new} /\ new \notin DOMAIN chats
      /\ \A i \in DOMAIN chats : chats'[i] = chats[i]
      /\ chats'[new] = row /\ row.usersname = n.sender /\ row.companyname = n.receiver
  BY ChatsGrow
<1> HIDE DEF new, row
<1>1. \A i \in DOMAIN chats : ~ Between(chats[i], n.sender, n.receiver)
  BY DEF ChatIds
<1> SUFFICES ASSUME NEW i \in DOMAIN chats', NEW k \in DOMAIN chats',
                    Between(chats'[i], chats'[k].usersname, chats'[k].companyname)
             PROVE  i = k
  BY DEF OneChatPerConversation, Between
<1>2. CASE i \in DOMAIN chats /\ k \in DOMAIN chats
  BY <1>0, <1>2 DEF OneChatPerConversation
<1>3. CASE i = new /\ k \in DOMAIN chats
  <2>1. Between(chats[k], n.sender, n.receiver)
    BY <1>0, <1>3 DEF Between
  <2> QED  BY <1>1, <1>3, <2>1
<1>4. CASE i \in DOMAIN chats /\ k = new
  <2>1. Between(chats[i], n.sender, n.receiver)
    BY <1>0, <1>4 DEF Between
  <2> QED  BY <1>1, <1>4, <2>1
<1> QED  BY <1>0, <1>2, <1>3, <1>4

(* createNewChatInstance executed. *)
LEMMA AddChatTables ==
  ASSUME ServiceInv, ChatInv, NEW w \in Workers, pc[w] = "createChat",
         NEW n \in Messages, n = job[w], AddChat(n), UNCHANGED messages,
         \A m \in Messages : status'[m] = "done" => status[m] = "done"
  PROVE  /\ TablesInv'
         /\ \A v \in Workers : v # w /\ pc'[v] = pc[v] /\ job'[v] = job[v] /\ chat'[v] = chat[v]
              => SaverOK(v)'
<1> USE DEF ServiceInv, ChatInv, TablesInv
<1>1. OneChatPerConversation'
  BY AddChatKeepsOne DEF SaverOK
<1>2. \A m : ChatIds(m) \subseteq ChatIds(m)'
  BY ChatsGrow
<1>3. \A row, m : RowOf(row, m) => RowOf(row, m)'
  BY <1>2 DEF RowOf
<1>4. \A m : Stored(m) => Stored(m)'
  BY <1>3, StoredByRow DEF Stored, RowOf, ChatIds
<1>5. TablesInv'
  <2>1. \A row \in messages' : \E m \in Messages : RowOf(row, m)'
    BY <1>3
  <2> QED  BY <1>1, <1>4, <2>1
<1>6. ASSUME NEW v \in Workers, v # w, pc'[v] = pc[v], job'[v] = job[v], chat'[v] = chat[v]
      PROVE  SaverOK(v)'
  <2>1. pc[v] # "createChat"
    BY <1>6, OneOwner DEF Locked, Querying
  <2> QED  BY <1>2, <1>4, <1>6, <2>1 DEF SaverOK
<1> QED  BY <1>5, <1>6

(* The INSERT of a message executed. *)
LEMMA AddMessageTables ==
  ASSUME ServiceInv, ChatInv, NEW w \in Workers, pc[w] = "insertMessage",
         NEW n \in Messages, n = job[w], AddMessage(chat[w], n), UNCHANGED chats,
         \A m \in Messages : status'[m] = "done" => status[m] = "done"
  PROVE  /\ TablesInv' /\ Stored(n)'
         /\ \A v \in Workers : v # w /\ pc'[v] = pc[v] /\ job'[v] = job[v] /\ chat'[v] = chat[v]
              => SaverOK(v)'
<1> USE DEF ServiceInv, ChatInv, TablesInv
<1>1. chat[w] \in ChatIds(n)
  BY DEF SaverOK
<1>2. \A m : ChatIds(m)' = ChatIds(m)
  BY DEF ChatIds
<1>3. OneChatPerConversation'
  BY DEF OneChatPerConversation
<1>4. \A row, m : RowOf(row, m)' <=> RowOf(row, m)
  BY <1>2 DEF RowOf
<1> DEFINE new == [id |-> chat[w], message |-> n.text,
                   timestamp |-> n.timestamp, sender |-> n.sender]
<1>5. messages' = messages \cup {new} /\ RowOf(new, n)
  BY <1>1 DEF AddMessage, RowOf
<1>6. Stored(n)' /\ \A m : Stored(m) => Stored(m)'
  <2>1. \A m : Stored(m)' <=> \E row \in messages' : RowOf(row, m)'
    BY DEF Stored, RowOf, ChatIds
  <2> QED  BY <1>4, <1>5, <2>1, StoredByRow
<1>7. \A row \in messages' : \E m \in Messages : RowOf(row, m)'
  BY <1>4, <1>5
<1>8. ASSUME NEW v \in Workers, v # w, pc'[v] = pc[v], job'[v] = job[v], chat'[v] = chat[v]
      PROVE  SaverOK(v)'
  BY <1>2, <1>6, <1>8 DEF SaverOK
<1> QED  BY <1>3, <1>6, <1>7, <1>8


(* A step that inserts nothing and takes no thread to a place where it would  *)
(* have to know more.                                                        *)
LEMMA QuietKeeps ==
  ASSUME ChatInv, UNCHANGED tables,
         \A v \in Workers : pc'[v] \in {"createChat", "insertMessage"} \cup AfterInsert =>
           \/ pc'[v] = pc[v] /\ job'[v] = job[v] /\ chat'[v] = chat[v]
           \/ job'[v] \in Requests
           \/ pc[v] \in AfterInsert /\ pc'[v] \in AfterInsert /\ job'[v] = job[v],
         \A m \in Messages : status'[m] = "done" => status[m] = "done" \/ Stored(m)
  PROVE  ChatInv'
<1>1. TablesInv'
  BY QuietTables DEF ChatInv
<1>2. \A m : ChatIds(m)' = ChatIds(m) /\ (Stored(m)' <=> Stored(m))
  BY DEF tables, ChatIds, Stored
<1>3. ASSUME NEW v \in Workers, NEW m \in Messages, job'[v] = m
      PROVE  /\ pc'[v] = "createChat" => ChatIds(m)' = {}
             /\ pc'[v] = "insertMessage" => chat'[v] \in ChatIds(m)'
             /\ pc'[v] \in AfterInsert => Stored(m)'
  <2>1. m \notin Requests
    BY JobsAssumption
  <2>2. SaverOK(v)
    BY DEF ChatInv
  <2> QED  BY <1>2, <1>3, <2>1, <2>2 DEF SaverOK, AfterInsert
<1> QED  BY <1>1, <1>3 DEF ChatInv, SaverOK

(* Every step preserves the third layer. *)
THEOREM StepChatInv == ServiceInv /\ ChatInv /\ [Next]_vars => ChatInv'
<1> SUFFICES ASSUME ServiceInv, ChatInv, [Next]_vars PROVE ChatInv'
  OBVIOUS
<1> USE DEF Workers, At, AfterInsert
<1>0. /\ pc \in [Workers -> Querying \cup {"idle", "waitOne", "open", "close", "release", "commit"}]
      /\ job \in [Workers -> Jobs \cup {NoJob}] 
      /\ status \in [Jobs -> {"unsent", "queued", "taken", "done", "error"}]
      /\ chat \in [Workers -> Nat]
      /\ \A w \in Workers : job[w] \in Messages \/ job[w] \in Requests \/ pc[w] = "idle"
      /\ Messages \subseteq Jobs
  BY DEF ServiceInv, EndpointInv, EndpointTypeOK, LocalsTypeOK, Jobs
<1>1. CASE UNCHANGED vars
  BY <1>0, <1>1, QuietKeeps DEF vars, endpointVars, locals
<1>2. ASSUME NEW j \in Jobs, Arrive(j) PROVE ChatInv'
  BY <1>0, <1>2, QuietKeeps DEF Arrive, Send, locals
<1>3. ASSUME NEW w \in Workers, NEW j \in Jobs, Handle(w, j) PROVE ChatInv'
  BY <1>0, <1>3, QuietKeeps DEF Handle, Receive, GoTo, locals
<1>4. ASSUME NEW w \in Workers, Fail(w), UNCHANGED tables PROVE ChatInv'
  BY <1>0, <1>4, QuietKeeps DEF Fail, Throw, ForgetLocals
<1>5. ASSUME NEW w \in Workers, NotOpened(w), UNCHANGED tables PROVE ChatInv'
  <2>1. CASE job[w] \in Requests /\ GoTo(w, "commit") /\ UNCHANGED <<status, attempts, job, locals>>
    BY <1>0, <1>5, <2>1, QuietKeeps DEF GoTo, locals
  <2> QED  BY <1>4, <1>5, <2>1 DEF NotOpened
<1>6. ASSUME NEW w \in Workers, NEW place \in {"open", "findChat", "select", "release", "commit"},
             GoTo(w, place), UNCHANGED <<status, attempts, job, tables, locals>>,
             place \in {"release", "commit"} => pc[w] \in AfterInsert
      PROVE  ChatInv'
  BY <1>0, <1>6, QuietKeeps DEF GoTo, locals
<1>7. ASSUME NEW w \in Workers,
             Enter(w) \/ EnterAbandoned(w) \/ OpenIt(w) \/ OpenFailed(w) \/ CloseIt(w) \/ Leave(w)
      PROVE  ChatInv'
  <2>1. CASE EnterAbandoned(w) \/ OpenFailed(w)
    BY <1>5, <2>1 DEF EnterAbandoned, OpenFailed
  <2>2. CASE Enter(w)
    BY <1>6, <2>2 DEF Enter, EnterMutex
  <2>3. CASE OpenIt(w)
    BY <1>6, <2>3 DEF OpenIt, OpenConnection
  <2>4. CASE CloseIt(w) \/ Leave(w)
    BY <1>6, <2>4 DEF CloseIt, CloseConnection, Leave, LeaveMutex
  <2> QED  BY <1>7, <2>1, <2>2, <2>3, <2>4
<1>8. ASSUME NEW w \in Workers, Commit(w) PROVE ChatInv'
  <2>1. \A m \in Messages : status'[m] = "done" => status[m] = "done" \/ Stored(m)
    BY <1>0, <1>8 DEF Commit, Return, ChatInv, SaverOK
  <2> QED  BY <1>0, <1>8, <2>1, QuietKeeps DEF Commit, Return, ForgetLocals
<1>9. ASSUME NEW w \in Workers, Select(w) PROVE ChatInv'
  <2>1. job[w] \in Requests
    BY <1>9 DEF Select, ServiceInv, HandlersOK
  <2> QED  BY <1>0, <1>9, <2>1, QuietKeeps DEF Select, GoTo
<1>10. ASSUME NEW w \in Workers, pc[w] \in Saving PROVE job[w] \in Messages
  BY <1>10 DEF ServiceInv, HandlersOK
<1>11. ASSUME NEW w \in Workers, FindChat(w) PROVE ChatInv'
  <2>1. PICK n \in Messages : n = job[w]
    BY <1>10, <1>11 DEF FindChat, Saving
  <2>2. \A m : ChatIds(m)' = ChatIds(m) /\ (Stored(m)' <=> Stored(m))
    BY <1>11 DEF FindChat, tables, ChatIds, Stored
  <2>3. TablesInv'
    BY <1>11, QuietTables DEF ChatInv, FindChat
  <2>4. SaverOK(w)'
    BY <1>0, <1>11, <2>1, <2>2 DEF FindChat, GoTo, SaverOK
  <2>5. ASSUME NEW v \in Workers, v # w PROVE SaverOK(v)'
    BY <1>0, <1>11, <2>5, QuietSaver DEF FindChat, GoTo, ChatInv
  <2> QED  BY <2>3, <2>4, <2>5 DEF ChatInv
<1>12. ASSUME NEW w \in Workers, FindNewChat(w) PROVE ChatInv'
  <2>1. PICK n \in Messages : n = job[w]
    BY <1>10, <1>12 DEF FindNewChat, Saving
  <2>2. \A m : ChatIds(m)' = ChatIds(m) /\ (Stored(m)' <=> Stored(m)) /\ NewChatIds(m) \subseteq ChatIds(m)
    BY <1>12 DEF FindNewChat, tables, ChatIds, Stored, NewChatIds, Between
  <2>3. TablesInv'
    BY <1>12, QuietTables DEF ChatInv, FindNewChat
  <2>4. SaverOK(w)'
    BY <1>0, <1>12, <2>1, <2>2 DEF FindNewChat, GoTo, SaverOK
  <2>5. ASSUME NEW v \in Workers, v # w PROVE SaverOK(v)'
    BY <1>0, <1>12, <2>5, QuietSaver DEF FindNewChat, GoTo, ChatInv
  <2> QED  BY <2>3, <2>4, <2>5 DEF ChatInv
<1>13. ASSUME NEW w \in Workers, CreateNewChatInstance(w) PROVE ChatInv'
  <2>1. PICK n \in Messages : n = job[w]
    BY <1>10, <1>13 DEF CreateNewChatInstance, Saving
  <2>2. TablesInv' /\ \A v \in Workers : v # w => SaverOK(v)'
    BY <1>0, <1>13, <2>1, AddChatTables DEF CreateNewChatInstance, GoTo, locals
  <2>3. SaverOK(w)'
    BY <1>0, <1>13 DEF CreateNewChatInstance, GoTo, SaverOK
  <2> QED  BY <2>2, <2>3 DEF ChatInv
<1>14. ASSUME NEW w \in Workers, InsertMessage(w) PROVE ChatInv'
  <2>1. PICK n \in Messages : n = job[w]
    BY <1>10, <1>14 DEF InsertMessage, Saving
  <2>2. TablesInv' /\ Stored(n)' /\ \A v \in Workers : v # w => SaverOK(v)'
    BY <1>0, <1>14, <2>1, AddMessageTables DEF InsertMessage, GoTo, locals
  <2>3. SaverOK(w)'
    BY <1>0, <1>14, <2>1, <2>2 DEF InsertMessage, GoTo, SaverOK
  <2> QED  BY <2>2, <2>3 DEF ChatInv
<1>15. ASSUME NEW w \in Workers, InsertCollides(w) PROVE ChatInv'
  BY <1>4, <1>15 DEF InsertCollides
<1>16. ASSUME NEW w \in Workers, QueryFailed(w) PROVE ChatInv'
  <2>1. CASE UNCHANGED tables /\ Fail(w)
    BY <1>4, <2>1
  <2>2. CASE UNCHANGED tables /\ job[w] \in Requests /\ GoTo(w, "close") /\ UNCHANGED <<status, attempts, job, locals>>
    BY <1>0, <2>2, QuietKeeps DEF GoTo, locals
  <2>3. ASSUME pc[w] \in Saving, NEW n \in Messages, n = job[w]
        PROVE  /\ Fail(w)
               /\ \A m \in Messages : status'[m] = "done" => status[m] = "done"
               /\ \A v \in Workers : v # w => pc'[v] = pc[v] /\ job'[v] = job[v] /\ chat'[v] = chat[v]
               /\ SaverOK(w)'
    <3>1. Fail(w)
      BY <1>16, <2>3, JobsAssumption DEF QueryFailed
    <3> QED  BY <1>0, <3>1 DEF Fail, Throw, ForgetLocals, SaverOK
  <2>4. CASE At(w, "createChat") /\ AddChat(job[w]) /\ UNCHANGED messages
    <3>1. PICK n \in Messages : n = job[w]
      BY <1>10, <2>4 DEF Saving
    <3>2. TablesInv' /\ \A v \in Workers : v # w => SaverOK(v)'
      BY <2>3, <2>4, <3>1, AddChatTables DEF Saving
    <3> QED  BY <2>3, <2>4, <3>1, <3>2 DEF ChatInv, Saving
  <2>5. CASE At(w, "insertMessage") /\ AddMessage(chat[w], job[w]) /\ UNCHANGED chats
    <3>1. PICK n \in Messages : n = job[w]
      BY <1>10, <2>5 DEF Saving
    <3>2. TablesInv' /\ \A v \in Workers : v # w => SaverOK(v)'
      BY <2>3, <2>5, <3>1, AddMessageTables DEF Saving
    <3> QED  BY <2>3, <2>5, <3>1, <3>2 DEF ChatInv, Saving
  <2> QED  BY <1>16, <2>1, <2>2, <2>4, <2>5 DEF QueryFailed
<1>17. ASSUME NEW w \in Workers, RetireThread(w) PROVE ChatInv'
  BY <1>0, <1>17, QuietKeeps DEF RetireThread, Retire, endpointVars, locals
<1>18. CASE Crash
  BY <1>0, <1>18, QuietKeeps DEF Crash, Restart, EndpointTypeOK, ServiceInv, EndpointInv
<1> QED
  BY <1>1, <1>2, <1>3, <1>7, <1>8, <1>9, <1>11, <1>12, <1>13, <1>14, <1>15, <1>16, <1>17, <1>18
     DEF Next, Step, Fault, SaveMessage

(* The third layer holds in every behaviour of the service. *)
THEOREM ChatInvariant == Spec => []ChatInv
<1>1. Init => ChatInv
  BY DEF Init, EndpointInit, ChatInv, TablesInv, SaverOK, OneChatPerConversation, AfterInsert,
         Workers, Jobs
<1> QED  BY <1>1, StepChatInv, ServiceInvariant, PTL DEF Spec

(* Two users never get two rows in chats, although the table has no key that *)
(* says so and finding and creating a chat are two statements.               *)
THEOREM OneChatHolds == Spec => []OneChatPerConversation
<1>1. ChatInv => OneChatPerConversation
  BY DEF ChatInv, TablesInv
<1> QED  BY <1>1, ChatInvariant, PTL

(* Each message is stored at most once, redelivered or not, and a message    *)
(* whose handler returned is stored.                                         *)
THEOREM SavedExactlyOnceHolds == Spec => []SavedExactlyOnce
<1>1. ASSUME ServiceInv, ChatInv PROVE SavedExactlyOnce
  <2>1. \A m \in Messages : status[m] = "done" => Stored(m)
    BY <1>1 DEF ChatInv, TablesInv
  <2>2. ASSUME NEW m \in Messages, NEW r1 \in messages, NEW r2 \in messages,
               r1.message = m.text, r2.message = m.text
        PROVE  r1 = r2
    <3>1. RowOf(r1, m) /\ RowOf(r2, m)
      BY <1>1, <2>2, MessagesAssumption DEF ChatInv, TablesInv, RowOf
    <3>2. r1.id = r2.id
      BY <1>1, <3>1 DEF ChatInv, TablesInv, OneChatPerConversation, RowOf, ChatIds, Between
    <3>3. r1 \in MessageRow /\ r2 \in MessageRow
      BY <1>1 DEF ServiceInv, TablesTypeOK
    <3> QED  BY <3>1, <3>2, <3>3 DEF RowOf, MessageRow
  <2> QED  BY <2>1, <2>2 DEF SavedExactlyOnce
<1> QED  BY <1>1, ChatInvariant, ServiceInvariant, PTL

-----------------------------------------------------------------------------
(* Fourth layer: contacts lists. *)

ListedOnce(a) == \A c, d \in a.rows : c.name = d.name => c = d

ContactsInv ==
  /\ \A w \in Workers : job[w] \notin HistoryRequests => ListedOnce(answer[w])
  /\ \A r \in ContactsRequests : ListedOnce(replies[r])

(* A list read while each conversation has one chat names nobody twice. *)
LEMMA ContactsOnce ==
  ASSUME OneChatPerConversation, NEW r \in ContactsRequests
  PROVE  ListedOnce(Contacts(r))
<1> DEFINE name(i) == Other(chats[i].usersname, chats[i].companyname, r.usersname)
           mine == {k \in DOMAIN chats : \/ chats[k].usersname = r.usersname
                                         \/ chats[k].companyname = r.usersname}
<1>1. ASSUME NEW i \in mine, NEW k \in mine, name(i) = name(k) PROVE i = k
  BY <1>1 DEF OneChatPerConversation, Between, Other
<1> QED  BY <1>1 DEF ListedOnce, Contacts

(* Every step preserves the fourth layer. *)
THEOREM StepContactsInv ==
  ServiceInv /\ OneChatPerConversation /\ ContactsInv /\ [Next]_vars => ContactsInv'
<1> SUFFICES ASSUME ServiceInv, OneChatPerConversation, ContactsInv, [Next]_vars
             PROVE  ContactsInv'
  OBVIOUS
<1> USE DEF Workers
<1>0. /\ job \in [Workers -> Jobs \cup {NoJob}] /\ answer \in [Workers -> Answer]
      /\ replies \in [Requests -> Answer] /\ NoJob \notin HistoryRequests
      /\ \A w \in Workers : pc[w] = "idle" => job[w] = NoJob
      /\ ListedOnce(Failure) /\ ContactsRequests \subseteq Requests
      /\ HistoryRequests \cap ContactsRequests = {}
  BY JobsAssumption DEF ServiceInv, EndpointInv, EndpointTypeOK, LocalsTypeOK, Jobs, Requests,
                        ListedOnce, Failure
<1>1. ASSUME UNCHANGED <<job, answer, replies>> PROVE ContactsInv'
  BY <1>1 DEF ContactsInv, ListedOnce
<1>2. ASSUME NEW w \in Workers, NEW j \in Jobs, Handle(w, j) PROVE ContactsInv'
  BY <1>0, <1>2 DEF Handle, Receive, At, ContactsInv, ListedOnce, locals
<1>3. ASSUME NEW w \in Workers, Fail(w), UNCHANGED replies PROVE ContactsInv'
  BY <1>0, <1>3 DEF Fail, Throw, ForgetLocals, ContactsInv, ListedOnce
<1>4. ASSUME NEW w \in Workers, NotOpened(w), UNCHANGED replies PROVE ContactsInv'
  BY <1>1, <1>3, <1>4 DEF NotOpened, locals
<1>5. ASSUME NEW w \in Workers, Commit(w) PROVE ContactsInv'
  BY <1>0, <1>5 DEF Commit, Return, ForgetLocals, ContactsInv, ListedOnce
<1>6. ASSUME NEW w \in Workers, Select(w) PROVE ContactsInv'
  <2>1. UNCHANGED <<job, replies>>
    BY <1>6 DEF Select
  <2>2. ASSUME NEW v \in Workers, job[v] \notin HistoryRequests PROVE ListedOnce(answer'[v])
    <3>1. CASE v # w
      BY <1>0, <1>6, <2>2, <3>1 DEF Select, ContactsInv
    <3>2. CASE v = w
      <4>1. job[w] \in ContactsRequests
        BY <1>6, <2>2, <3>2 DEF Select, At, ServiceInv, HandlersOK, Requests
      <4>2. answer'[w] = Contacts(job[w])
        BY <1>0, <1>6, <2>2, <3>2 DEF Select
      <4>3. ListedOnce(Contacts(job[w]))
        BY <4>1, ContactsOnce
      <4> QED  BY <3>2, <4>2, <4>3
    <3> QED  BY <3>1, <3>2
  <2> QED  BY <2>1, <2>2 DEF ContactsInv, ListedOnce
<1>7. ASSUME NEW w \in Workers, SaveMessage(w) PROVE ContactsInv'
  BY <1>1, <1>3, <1>7 DEF SaveMessage, FindChat, CreateNewChatInstance, FindNewChat, InsertMessage,
                          InsertCollides, locals
<1>8. ASSUME NEW w \in Workers, Fault(w) \/ EnterAbandoned(w) PROVE ContactsInv'
  <2>1. CASE OpenFailed(w) \/ EnterAbandoned(w)
    BY <1>4, <2>1 DEF OpenFailed, EnterAbandoned
  <2>2. CASE QueryFailed(w)
    BY <1>1, <1>3, <2>2 DEF QueryFailed, locals
  <2>3. CASE RetireThread(w)
    BY <1>1, <2>3 DEF RetireThread, Retire, endpointVars, locals
  <2> QED  BY <1>8, <2>1, <2>2, <2>3 DEF Fault
<1>9. ASSUME NEW w \in Workers, Enter(w) \/ OpenIt(w) \/ CloseIt(w) \/ Leave(w) PROVE ContactsInv'
  BY <1>1, <1>9 DEF Enter, EnterMutex, OpenIt, OpenConnection, CloseIt, CloseConnection, Leave,
                    LeaveMutex, locals
<1>10. CASE Crash
  BY <1>0, <1>10 DEF Crash, Restart, ContactsInv, ListedOnce
<1>11. ASSUME NEW j \in Jobs, Arrive(j) PROVE ContactsInv'
  BY <1>1, <1>11 DEF Arrive, Send, locals
<1>12. CASE UNCHANGED vars
  BY <1>1, <1>12 DEF vars, endpointVars, locals
<1> QED
  BY <1>2, <1>5, <1>6, <1>7, <1>8, <1>9, <1>10, <1>11, <1>12 DEF Next, Step

(* No contacts list a client is sent names anybody twice. *)
THEOREM ContactsListedOnceHolds == Spec => []ContactsListedOnce
<1>1. Init => ContactsInv
  BY DEF Init, ContactsInv, ListedOnce, Failure, Workers, Requests
<1>2. ContactsInv => ContactsListedOnce
  BY DEF ContactsInv, ContactsListedOnce, ListedOnce
<1> QED  BY <1>1, <1>2, StepContactsInv, ServiceInvariant, OneChatHolds, PTL DEF Spec

-----------------------------------------------------------------------------
(* Until the service crashes or MySQL is lost during a query. *)

(* No two messages of a conversation have the same timestamp, which the Chat *)
(* page counts in seconds.                                                   *)
SecondsDiffer ==
  \A m, n \in Messages :
    {m.sender, m.receiver} = {n.sender, n.receiver} /\ m.timestamp = n.timestamp => m = n

Calm == faults.crashes = 0 /\ faults.broken = 0

(* The mutex is entered once, by a handler that is on its way to release it. *)
MutexReturns ==
  /\ ~ mutex.abandoned
  /\ \A w \in Workers : Holds(w) => mutex.depth = 1 /\ pc[w] \in Locked(Querying)

(* The connection is open for a handler that is on its way to close it.      *)
ConnectionReturns ==
  connection = "Open" => \E w \in Workers : pc[w] \in Querying \cup {"close"}

(* A message is in the table only when its handler is on its way to return.  *)
Recorded(m) == \E row \in messages : row.message = m.text

RecordsReturn ==
  \A m \in Messages : Recorded(m) =>
    status[m] = "done" \/ \E w \in Workers : job[w] = m /\ pc[w] \in AfterInsert

(* Only a MySQL server that could not be reached has made handlers throw.    *)
NothingFails ==
  faults.outages = 0 => \A j \in Jobs : attempts[j] = 0 /\ status[j] # "error"

CalmInv == MutexReturns /\ ConnectionReturns /\ RecordsReturn /\ NothingFails

(* The row an INSERT would collide with would be its own.                    *)
LEMMA NoCollision ==
  ASSUME SecondsDiffer, ServiceInv, ChatInv, RecordsReturn, NEW w \in Workers
  PROVE  ~ InsertCollides(w)
<1> SUFFICES ASSUME InsertCollides(w) PROVE FALSE  OBVIOUS
<1>1. pc[w] = "insertMessage" /\ job[w] \in Messages
  BY DEF InsertCollides, At, ServiceInv, HandlersOK, Saving
<1> PICK m \in Messages : m = job[w]
  BY <1>1
<1>2. PICK row \in messages : row.id = chat[w] /\ row.timestamp = m.timestamp
  BY DEF InsertCollides, Collides
<1>3. chat[w] \in ChatIds(m)
  BY <1>1 DEF ChatInv, SaverOK
<1>4. PICK n \in Messages : RowOf(row, n)
  BY DEF ChatInv, TablesInv
<1>5. n = m
  <2>1. /\ Between(chats[row.id], m.sender, m.receiver) /\ Between(chats[row.id], n.sender, n.receiver)
        /\ n.timestamp = m.timestamp
    BY <1>2, <1>3, <1>4 DEF RowOf, ChatIds
  <2>2. {m.sender, m.receiver} = {n.sender, n.receiver}
    BY <2>1 DEF Between
  <2> QED  BY <2>1, <2>2 DEF SecondsDiffer
<1>6. Recorded(m)
  BY <1>4, <1>5 DEF Recorded, RowOf
<1>7. status[m] = "taken" /\ \A v \in Workers : job[v] = m => v = w
  BY JobsAssumption DEF ServiceInv, EndpointInv, DeliveriesOK, Jobs, Workers
<1> QED  BY <1>1, <1>6, <1>7 DEF RecordsReturn, AfterInsert

(* A mutex that always returns is never found abandoned, nor left behind by  *)
(* a thread that ends.                                                       *)
LEMMA NeverAbandoned ==
  ASSUME MutexReturns, NEW w \in Workers
  PROVE  ~ EnterAbandoned(w) /\ ~ RetireThread(w)
<1>1. ~ EnterAbandoned(w)
  BY DEF MutexReturns, EnterAbandoned, EnterAbandonedMutex, WaitOneAbandoned
<1>2. ~ RetireThread(w)
  BY DEF MutexReturns, RetireThread, Retire, Abandon, At, Locked, Querying
<1> QED  BY <1>1, <1>2

(* Taking and releasing the mutex.                                           *)
LEMMA StepMutexReturns ==
  ASSUME ServiceInv, MutexReturns, NEW w \in Workers,
         \/ WaitOne(w) /\ pc[w] = "waitOne" /\ pc'[w] = "open"
         \/ ReleaseMutex(w)
         \/ mutex' = mutex /\ (pc[w] \in Locked(Querying) => pc'[w] \in Locked(Querying)),
         \A v \in Workers \ {w} : pc'[v] = pc[v]
  PROVE  MutexReturns'
<1>0. DbTypeOK
  BY DEF ServiceInv, EndpointInv, EndpointTypeOK
<1>1. CASE WaitOne(w) /\ pc[w] = "waitOne" /\ pc'[w] = "open"
  <2>1. mutex.owner # w
    BY <1>1 DEF MutexReturns, Holds, Locked, Querying
  <2>2. mutex.depth = 0
    BY <1>0, <1>1, <2>1 DEF WaitOne, DbTypeOK
  <2>3. ~ mutex'.abandoned /\ mutex'.depth = 1 /\ mutex'.owner = w
    BY <1>1, <2>2 DEF WaitOne
  <2> QED  BY <1>1, <2>3 DEF MutexReturns, Holds, Locked
<1>2. CASE ReleaseMutex(w)
  <2>1. mutex' = FreeMutex
    BY <1>2 DEF ReleaseMutex, MutexReturns
  <2> QED  BY <2>1, NoThreadAssumption DEF MutexReturns, FreeMutex, Holds, Workers
<1>3. CASE mutex' = mutex /\ (pc[w] \in Locked(Querying) => pc'[w] \in Locked(Querying))
  BY <1>3 DEF MutexReturns, Holds
<1> QED  BY <1>1, <1>2, <1>3

(* A handler moves, and neither leaves the connection open behind it nor     *)
(* leaves a row in the table for a message that will be delivered again.     *)
LEMMA MoveCalm ==
  ASSUME ServiceInv, CalmInv, NEW w \in Workers,
         \A v \in Workers \ {w} : pc'[v] = pc[v] /\ job'[v] = job[v],
         MutexReturns', NothingFails',
         \/ connection' = "Closed"
         \/ pc'[w] \in Querying \cup {"close"}
         \/ connection' = connection /\ pc[w] \notin Querying \cup {"close"},
         \A m \in Messages : /\ Recorded(m)' => Recorded(m) \/ (job'[w] = m /\ pc'[w] \in AfterInsert)
                             /\ status[m] = "done" => status'[m] = "done",
         pc[w] \in AfterInsert => \/ job'[w] = job[w] /\ pc'[w] \in AfterInsert
                                 \/ status'[job[w]] = "done"
  PROVE  CalmInv'
<1>1. ConnectionReturns'
  BY DEF CalmInv, ConnectionReturns, Querying
<1>2. RecordsReturn'
  <2> SUFFICES ASSUME NEW m \in Messages, Recorded(m)'
               PROVE  status'[m] = "done" \/ \E v \in Workers : job'[v] = m /\ pc'[v] \in AfterInsert
    BY DEF RecordsReturn, AfterInsert
  <2>1. CASE job'[w] = m /\ pc'[w] \in AfterInsert
    BY <2>1
  <2>2. CASE Recorded(m) /\ status[m] = "done"
    BY <2>2
  <2>3. ASSUME NEW v \in Workers, job[v] = m, pc[v] \in AfterInsert
        PROVE  status'[m] = "done" \/ \E u \in Workers : job'[u] = m /\ pc'[u] \in AfterInsert
    BY <2>3
  <2> QED  BY <2>1, <2>2, <2>3 DEF CalmInv, RecordsReturn
<1> QED  BY <1>1, <1>2 DEF CalmInv

(* A handler whose openConnection returned false has not inserted anything;  *)
(* until MySQL could not be reached, there is none.                          *)
LEMMA NotOpenedCalm ==
  ASSUME ServiceInv, CalmInv, NEW w \in Workers, OpenFailed(w)
  PROVE  CalmInv'
<1> USE DEF Workers
<1>0. /\ pc \in [Workers -> Querying \cup {"idle", "waitOne", "open", "close", "release", "commit"}]
      /\ job \in [Workers -> Jobs \cup {NoJob}] /\ status[job[w]] = "taken" /\ pc[w] = "open"
      /\ faults.outages \in Nat /\ DOMAIN faults = {"crashes", "outages", "broken"}
      /\ DOMAIN status = Jobs
  BY EndpointAssumption DEF ServiceInv, EndpointInv, EndpointTypeOK, DeliveriesOK, OpenFailed,
     OpenConnectionFails, At
<1>1. ReleaseMutex(w) /\ connection' = "Closed" /\ faults'.outages # 0 /\ messages' = messages
  BY <1>0 DEF OpenFailed, OpenConnectionFails, OpenFails, ReleaseMutex, tables
<1>2. \A v \in Workers \ {w} : pc'[v] = pc[v] /\ job'[v] = job[v]
  BY <1>0 DEF OpenFailed, NotOpened, Fail, Throw, GoTo
<1>3. \A m \in Messages : status[m] = "done" => status'[m] = "done"
  BY <1>0 DEF OpenFailed, NotOpened, Fail, Throw, Jobs
<1>4. MutexReturns'
  BY <1>1, <1>2, StepMutexReturns DEF CalmInv
<1>5. NothingFails'
  BY <1>1 DEF NothingFails
<1> QED  BY <1>0, <1>1, <1>2, <1>3, <1>4, <1>5, MoveCalm DEF AfterInsert, Recorded

(* openConnection, the statements and closeConnection.                       *)
LEMMA HandlerCalm ==
  ASSUME SecondsDiffer, ServiceInv, ChatInv, CalmInv, NEW w \in Workers,
         \/ Enter(w) \/ OpenIt(w) \/ CloseIt(w) \/ Leave(w) \/ FindChat(w)
         \/ CreateNewChatInstance(w) \/ FindNewChat(w) \/ InsertMessage(w) \/ Select(w)
  PROVE  CalmInv'
<1> USE DEF Workers, At
<1>0. /\ pc \in [Workers -> Querying \cup {"idle", "waitOne", "open", "close", "release", "commit"}]
      /\ faults' = faults /\ status' = status /\ attempts' = attempts /\ job' = job
  BY DEF ServiceInv, EndpointInv, EndpointTypeOK, Enter, EnterMutex, OpenIt, OpenConnection, CloseIt,
     CloseConnection, Leave, LeaveMutex, FindChat, CreateNewChatInstance, FindNewChat, InsertMessage,
     Select
<1>1. NothingFails'
  BY <1>0 DEF CalmInv, NothingFails
<1>2. CASE Enter(w)
  <2>1. /\ WaitOne(w) /\ pc[w] = "waitOne" /\ pc' = [pc EXCEPT ![w] = "open"]
        /\ connection' = connection /\ messages' = messages
    BY <1>2 DEF Enter, EnterMutex, WaitOne, GoTo, tables
  <2>2. MutexReturns'
    BY <1>0, <2>1, StepMutexReturns DEF CalmInv
  <2> QED  BY <1>0, <1>1, <2>1, <2>2, MoveCalm DEF AfterInsert, Recorded, Querying
<1>3. CASE Leave(w)
  <2>1. /\ ReleaseMutex(w) /\ pc[w] = "release" /\ pc' = [pc EXCEPT ![w] = "commit"]
        /\ connection' = connection /\ messages' = messages
    BY <1>3 DEF Leave, LeaveMutex, ReleaseMutex, GoTo, tables
  <2>2. MutexReturns'
    BY <1>0, <2>1, StepMutexReturns DEF CalmInv
  <2> QED  BY <1>0, <1>1, <2>1, <2>2, MoveCalm DEF AfterInsert, Recorded, Querying
<1>4. ASSUME NEW place, pc' = [pc EXCEPT ![w] = place], mutex' = mutex,
             place \in Locked(Querying)
      PROVE  MutexReturns' /\ pc'[w] = place /\ \A v \in Workers \ {w} : pc'[v] = pc[v] /\ job'[v] = job[v]
  BY <1>0, <1>4, StepMutexReturns DEF CalmInv
<1>5. CASE OpenIt(w)
  <2>1. PICK place \in {"findChat", "select"} : pc' = [pc EXCEPT ![w] = place]
    BY <1>5 DEF OpenIt, OpenConnection, GoTo
  <2>2. /\ pc[w] = "open" /\ mutex' = mutex /\ messages' = messages
        /\ place \in Querying /\ place \in Locked(Querying)
    BY <1>5 DEF OpenIt, OpenConnection, Open, tables, Querying, Locked
  <2> QED  BY <1>0, <1>1, <1>4, <2>1, <2>2, MoveCalm DEF AfterInsert, Recorded
<1>6. CASE CloseIt(w)
  <2>1. /\ pc' = [pc EXCEPT ![w] = "release"] /\ mutex' = mutex /\ messages' = messages
        /\ connection' = "Closed" /\ "release" \in Locked(Querying)
    BY <1>6 DEF CloseIt, CloseConnection, Close, GoTo, tables, Locked
  <2> QED  BY <1>0, <1>1, <1>4, <2>1, MoveCalm DEF AfterInsert, Recorded
<1>7. CASE FindChat(w) \/ CreateNewChatInstance(w) \/ FindNewChat(w) \/ Select(w)
  <2>1. PICK place \in Querying \cup {"close"} : pc' = [pc EXCEPT ![w] = place]
    BY <1>7 DEF FindChat, CreateNewChatInstance, FindNewChat, Select, GoTo, Querying
  <2>2. /\ pc[w] \in Querying /\ mutex' = mutex /\ messages' = messages
        /\ place \in Locked(Querying)
    BY <1>7 DEF FindChat, CreateNewChatInstance, FindNewChat, Select, dbVars, tables, Querying, Locked
  <2> QED  BY <1>0, <1>1, <1>4, <2>1, <2>2, MoveCalm DEF AfterInsert, Recorded, Querying
<1>8. CASE InsertMessage(w)
  <2>1. pc[w] = "insertMessage" /\ job[w] \in Messages
    BY <1>8 DEF InsertMessage, ServiceInv, HandlersOK, Saving
  <2>2. /\ pc' = [pc EXCEPT ![w] = "close"] /\ mutex' = mutex /\ "close" \in Locked(Querying)
    BY <1>8 DEF InsertMessage, dbVars, GoTo, Locked
  <2>3. ASSUME NEW m \in Messages, Recorded(m)' PROVE Recorded(m) \/ job'[w] = m
    <3>1. \A row \in messages' : row \in messages \/ row.message = job[w].text
      BY <1>8 DEF InsertMessage, AddMessage
    <3> QED  BY <1>0, <2>1, <2>3, <3>1, MessagesAssumption DEF Recorded
  <2> QED  BY <1>0, <1>1, <1>4, <2>1, <2>2, <2>3, MoveCalm DEF AfterInsert, Querying
<1> QED  BY <1>2, <1>3, <1>5, <1>6, <1>7, <1>8

(* A message is sent, a handler begins, a handler returns.                   *)
LEMMA DeliveryCalm ==
  ASSUME ServiceInv, CalmInv,
         \/ \E j \in Jobs : Arrive(j) \/ \E w \in Workers : Handle(w, j)
         \/ \E w \in Workers : Commit(w)
  PROVE  CalmInv'
<1> USE DEF Workers, At
<1>0. /\ pc \in [Workers -> Querying \cup {"idle", "waitOne", "open", "close", "release", "commit"}]
      /\ job \in [Workers -> Jobs \cup {NoJob}] /\ DOMAIN status = Jobs /\ Messages \subseteq Jobs
  BY DEF ServiceInv, EndpointInv, EndpointTypeOK, Jobs
<1>1. ASSUME NEW j \in Jobs, Arrive(j) PROVE CalmInv'
  <2>1. /\ mutex' = mutex /\ connection' = connection /\ pc' = pc /\ job' = job
        /\ messages' = messages /\ faults' = faults /\ attempts' = attempts
        /\ status[j] = "unsent" /\ status' = [status EXCEPT ![j] = "queued"]
    BY <1>1 DEF Arrive, Send, dbVars, tables
  <2>2. MutexReturns' /\ ConnectionReturns'
    BY <2>1 DEF CalmInv, MutexReturns, ConnectionReturns, Holds, Locked, Querying
  <2>3. RecordsReturn' /\ NothingFails'
    BY <1>0, <2>1 DEF CalmInv, RecordsReturn, Recorded, NothingFails, AfterInsert
  <2> QED  BY <2>2, <2>3 DEF CalmInv
<1>2. ASSUME NEW w \in Workers, NEW j \in Jobs, Handle(w, j) PROVE CalmInv'
  <2>1. /\ mutex' = mutex /\ connection' = connection /\ pc' = [pc EXCEPT ![w] = "waitOne"]
        /\ pc[w] = "idle" /\ job' = [job EXCEPT ![w] = j]
        /\ messages' = messages /\ faults' = faults /\ attempts' = attempts
        /\ status[j] = "queued" /\ status' = [status EXCEPT ![j] = "taken"]
    BY <1>2 DEF Handle, Receive, GoTo, dbVars, tables
  <2>2. \A v \in Workers \ {w} : pc'[v] = pc[v] /\ job'[v] = job[v]
    BY <1>0, <2>1
  <2>3. MutexReturns'
    BY <2>1, <2>2, StepMutexReturns DEF CalmInv, Locked, Querying
  <2>4. NothingFails'
    BY <1>0, <2>1 DEF CalmInv, NothingFails
  <2> QED  BY <1>0, <2>1, <2>2, <2>3, <2>4, MoveCalm DEF AfterInsert, Recorded, Querying
<1>3. ASSUME NEW w \in Workers, Commit(w) PROVE CalmInv'
  <2>1. /\ mutex' = mutex /\ connection' = connection /\ pc' = [pc EXCEPT ![w] = "idle"]
        /\ pc[w] = "commit" /\ job' = [job EXCEPT ![w] = NoJob]
        /\ messages' = messages /\ faults' = faults /\ attempts' = attempts
        /\ status' = [status EXCEPT ![job[w]] = "done"] /\ job[w] \in Jobs
    BY <1>0, <1>3 DEF Commit, Return, dbVars, tables, ServiceInv, EndpointInv, EndpointTypeOK
  <2>2. \A v \in Workers \ {w} : pc'[v] = pc[v] /\ job'[v] = job[v]
    BY <1>0, <2>1
  <2>3. MutexReturns'
    BY <2>1, <2>2, StepMutexReturns DEF CalmInv, Locked, Querying
  <2>4. NothingFails'
    BY <1>0, <2>1 DEF CalmInv, NothingFails
  <2> QED  BY <1>0, <2>1, <2>2, <2>3, <2>4, MoveCalm DEF AfterInsert, Recorded, Querying
<1> QED  BY <1>1, <1>2, <1>3

(* A crash and a lost query are counted.                                     *)
LEMMA CalmSteps ==
  ASSUME ServiceInv, [Next]_vars, Calm'
  PROVE  Calm /\ ~ Crash /\ \A w \in Workers : ~ QueryFailed(w)
<1>0. /\ faults.crashes \in Nat /\ faults.broken \in Nat
      /\ DOMAIN faults = {"crashes", "outages", "broken"}
  BY EndpointAssumption DEF ServiceInv, EndpointInv, EndpointTypeOK
<1>1. ~ Crash
  BY <1>0 DEF Calm, Crash, Restart
<1>2. \A w \in Workers : ~ QueryFailed(w)
  BY <1>0 DEF Calm, QueryFailed, QueryFails
<1>3. faults'.crashes = faults.crashes /\ faults'.broken = faults.broken
  <2>1. CASE faults' = faults
    BY <2>1
  <2>2. ASSUME NEW w \in Workers, OpenFailed(w)
        PROVE  faults'.crashes = faults.crashes /\ faults'.broken = faults.broken
    BY <1>0, <2>2 DEF OpenFailed, OpenConnectionFails
  <2>3. CASE UNCHANGED vars
    BY <2>1, <2>3 DEF vars, endpointVars
  <2>4. ASSUME NEW w \in Workers, Step(w) PROVE faults' = faults
    BY <2>4 DEF Step, Handle, Receive, Enter, EnterMutex, EnterAbandoned, EnterAbandonedMutex, OpenIt,
       OpenConnection, CloseIt, CloseConnection, Leave, LeaveMutex, Commit, Return, SaveMessage,
       FindChat, CreateNewChatInstance, FindNewChat, InsertMessage, InsertCollides, Select
  <2>5. ASSUME NEW w \in Workers, RetireThread(w) PROVE faults' = faults
    BY <2>5 DEF RetireThread, Retire, endpointVars
  <2>6. ASSUME NEW j \in Jobs, Arrive(j) PROVE faults' = faults
    BY <2>6 DEF Arrive, Send
  <2> QED  BY <1>1, <1>2, <2>1, <2>2, <2>3, <2>4, <2>5, <2>6 DEF Next, Fault
<1> QED  BY <1>1, <1>2, <1>3 DEF Calm

(* CalmInv is inductive until then.                                          *)
LEMMA CalmInvariant ==
  ASSUME SecondsDiffer
  PROVE  Spec => [](Calm => CalmInv)
<1>1. Init => CalmInv
  BY NoThreadAssumption DEF Init, EndpointInit, DbInit, FreeMutex, CalmInv, MutexReturns, Holds,
     Workers, ConnectionReturns, RecordsReturn, Recorded, NothingFails
<1>2. ServiceInv /\ ChatInv /\ (Calm => CalmInv) /\ [Next]_vars => (Calm => CalmInv)'
  <2> SUFFICES ASSUME ServiceInv, ChatInv, Calm => CalmInv, [Next]_vars, Calm' PROVE CalmInv'
    OBVIOUS
  <2>1. CalmInv /\ ~ Crash /\ \A w \in Workers : ~ QueryFailed(w)
    BY CalmSteps
  <2>2. \A w \in Workers : ~ EnterAbandoned(w) /\ ~ RetireThread(w) /\ ~ InsertCollides(w)
    BY <2>1, NoCollision, NeverAbandoned DEF CalmInv
  <2>3. CASE UNCHANGED vars
    BY <2>1, <2>3 DEF vars, dbVars, endpointVars, tables, CalmInv, MutexReturns, Holds, Locked, Querying,
       ConnectionReturns, RecordsReturn, Recorded, NothingFails, AfterInsert
  <2>4. CASE Next
    BY <2>1, <2>2, <2>3, <2>4, NotOpenedCalm, HandlerCalm, DeliveryCalm
       DEF Next, Step, Fault, SaveMessage
  <2> QED  BY <2>3, <2>4
<1> QED  BY <1>1, <1>2, ServiceInvariant, ChatInvariant, PTL DEF Spec

(* The connection "should be opened and closed for each query made": while   *)
(* the service has not crashed and no query has met a lost server, however   *)
(* often MySQL could not be reached, no handler leaves it open.              *)
THEOREM OpenedAndClosedHolds ==
  SecondsDiffer => (Spec => [](Calm => OpenedAndClosedForEachQuery))
<1> SUFFICES ASSUME SecondsDiffer PROVE Spec => [](Calm => OpenedAndClosedForEachQuery)
  OBVIOUS
<1>1. CalmInv => OpenedAndClosedForEachQuery
  BY DEF CalmInv, ConnectionReturns, OpenedAndClosedForEachQuery, Locked
<1> QED  BY <1>1, CalmInvariant, PTL

(* Without any fault no handler throws: each message is handled at its first *)
(* delivery and none goes to the error queue.                                *)
THEOREM NothingFailsWithoutFault ==
  SecondsDiffer =>
    (Spec => [](Calm /\ faults.outages = 0 =>
                  \A j \in Jobs : attempts[j] = 0 /\ status[j] # "error"))
<1> SUFFICES ASSUME SecondsDiffer
             PROVE  Spec => [](Calm /\ faults.outages = 0 =>
                                 \A j \in Jobs : attempts[j] = 0 /\ status[j] # "error")
  OBVIOUS
<1>1. (Calm => CalmInv) =>
        (Calm /\ faults.outages = 0 => \A j \in Jobs : attempts[j] = 0 /\ status[j] # "error")
  BY DEF CalmInv, NothingFails
<1> QED  BY <1>1, CalmInvariant, PTL

-----------------------------------------------------------------------------
(* What handlers leave behind. *)

Returned == MutexReturns /\ ConnectionReturns

Thrown ==
  \E m \in Messages : attempts[m] > 0 /\ (faults.broken > 0 \/ SecondIsTaken(m))

(* A handler moves, and does not leave the connection open behind it.        *)
LEMMA MoveReturned ==
  ASSUME ServiceInv, Returned, NEW w \in Workers,
         \/ WaitOne(w) /\ pc[w] = "waitOne" /\ pc'[w] = "open"
         \/ ReleaseMutex(w)
         \/ mutex' = mutex /\ (pc[w] \in Locked(Querying) => pc'[w] \in Locked(Querying)),
         \A v \in Workers \ {w} : pc'[v] = pc[v],
         \/ connection' = "Closed"
         \/ pc'[w] \in Querying \cup {"close"}
         \/ connection' = connection /\ pc[w] \notin Querying \cup {"close"}
  PROVE  Returned'
<1>1. MutexReturns'
  BY StepMutexReturns DEF Returned
<1>2. ConnectionReturns'
  BY DEF Returned, ConnectionReturns
<1> QED  BY <1>1, <1>2 DEF Returned

(* Rows are added and never removed, failures and lost queries are counted.  *)
LEMMA ThrownStays ==
  ASSUME ServiceInv, Thrown, [Next]_vars, ~ Crash
  PROVE  Thrown'
<1> USE DEF Workers, At
<1>0. /\ attempts \in [Jobs -> Nat] /\ faults.broken \in Nat /\ Messages \subseteq Jobs
      /\ DOMAIN faults = {"crashes", "outages", "broken"} /\ TablesTypeOK
      /\ \A w \in Workers : job[w] \in Jobs \/ pc[w] = "idle"
  BY EndpointAssumption DEF ServiceInv, EndpointInv, EndpointTypeOK, Jobs
<1> DEFINE Grows == /\ \A m \in Messages : attempts[m] > 0 => attempts'[m] > 0
                    /\ faults.broken > 0 => faults'.broken > 0
                    /\ messages \subseteq messages'
                    /\ chats' = chats \/ \E n : AddChat(n)
<1>1. ASSUME NEW w \in Workers, Fail(w), pc[w] # "idle"
      PROVE  \A m \in Messages : attempts[m] > 0 => attempts'[m] > 0
  BY <1>0, <1>1 DEF Fail, Throw
<1>2. ASSUME UNCHANGED vars PROVE Grows
  BY <1>2 DEF vars, endpointVars, tables
<1>3. ASSUME NEW j \in Jobs, Arrive(j) PROVE Grows
  BY <1>3 DEF Arrive, Send, tables
<1>4. ASSUME NEW w \in Workers, NotOpened(w), pc[w] # "idle"
      PROVE  \A m \in Messages : attempts[m] > 0 => attempts'[m] > 0
  BY <1>1, <1>4 DEF NotOpened
<1>5. ASSUME NEW w \in Workers, Step(w) PROVE Grows
  <2>1. CASE EnterAbandoned(w)
    BY <1>4, <2>1 DEF EnterAbandoned, EnterAbandonedMutex, tables
  <2>2. CASE InsertCollides(w)
    BY <1>1, <2>2 DEF InsertCollides, tables
  <2>3. CASE CreateNewChatInstance(w)
    BY <2>3 DEF CreateNewChatInstance
  <2>4. CASE InsertMessage(w)
    BY <2>4 DEF InsertMessage, AddMessage
  <2>5. CASE FindChat(w) \/ FindNewChat(w) \/ Select(w) \/ Commit(w)
    BY <2>5 DEF FindChat, FindNewChat, Select, Commit, Return, tables
  <2>6. CASE Enter(w) \/ OpenIt(w) \/ CloseIt(w) \/ Leave(w) \/ \E j \in Jobs : Handle(w, j)
    BY <2>6 DEF Enter, EnterMutex, OpenIt, OpenConnection, CloseIt, CloseConnection, Leave,
                LeaveMutex, Handle, Receive, tables
  <2> QED  BY <1>5, <2>1, <2>2, <2>3, <2>4, <2>5, <2>6 DEF Step, SaveMessage
<1>6. ASSUME NEW w \in Workers, OpenFailed(w) PROVE Grows
  BY <1>0, <1>4, <1>6 DEF OpenFailed, OpenConnectionFails, tables
<1>7. ASSUME NEW w \in Workers, QueryFailed(w) PROVE Grows
  <2>1. pc[w] # "idle" /\ faults'.broken = faults.broken + 1
    BY <1>0, <1>7 DEF QueryFailed, QueryFails, Querying
  <2>2. \A m \in Messages : attempts[m] > 0 => attempts'[m] > 0
    BY <1>1, <1>7, <2>1 DEF QueryFailed
  <2>3. messages \subseteq messages' /\ (chats' = chats \/ \E n : AddChat(n))
    BY <1>7 DEF QueryFailed, AddMessage, tables
  <2> QED  BY <1>0, <2>1, <2>2, <2>3
<1>8. ASSUME NEW w \in Workers, RetireThread(w) PROVE Grows
  BY <1>8 DEF RetireThread, Retire, endpointVars, tables
<1>9. Grows
  BY <1>2, <1>3, <1>5, <1>6, <1>7, <1>8 DEF Next, Fault, vars, endpointVars, tables
<1>10. PICK m \in Messages : attempts[m] > 0 /\ (faults.broken > 0 \/ SecondIsTaken(m))
  BY DEF Thrown
<1>11. SecondIsTaken(m) => SecondIsTaken(m)'
  <2>1. \A i \in DOMAIN chats : i \in DOMAIN chats' /\ chats'[i] = chats[i]
    BY <1>0, <1>9, ChatsGrow
  <2> QED  BY <1>9, <2>1 DEF SecondIsTaken, Between
<1> QED  BY <1>9, <1>10, <1>11 DEF Thrown

(* A saveMessage that throws at one of its statements has its reason.        *)
LEMMA ThrowsForAReason ==
  ASSUME ServiceInv, ChatInv, NEW w \in Workers,
         InsertCollides(w) \/ (QueryFailed(w) /\ Fail(w))
  PROVE  Thrown'
<1> USE DEF Workers, At
<1>0. /\ attempts \in [Jobs -> Nat] /\ faults.broken \in Nat
      /\ DOMAIN faults = {"crashes", "outages", "broken"}
      /\ pc[w] \in Querying
  BY EndpointAssumption
     DEF ServiceInv, EndpointInv, EndpointTypeOK, InsertCollides, QueryFailed, QueryFails, Querying
<1>1. attempts' = [attempts EXCEPT ![job[w]] = @ + 1]
  BY DEF InsertCollides, Fail, Throw
<1>2. CASE InsertCollides(w)
  <2>1. pc[w] = "insertMessage" /\ job[w] \in Messages
    BY <1>2 DEF InsertCollides, ServiceInv, HandlersOK, Saving
  <2>2. PICK m \in Messages : m = job[w]
    BY <2>1
  <2>3. chat[w] \in ChatIds(m)
    BY <2>1, <2>2 DEF ChatInv, SaverOK
  <2>4. PICK row \in messages : row.id = chat[w] /\ row.timestamp = m.timestamp
    BY <1>2, <2>2 DEF InsertCollides, Collides
  <2>5. SecondIsTaken(m)
    BY <2>3, <2>4 DEF SecondIsTaken, ChatIds
  <2>6. SecondIsTaken(m)'
    BY <1>2, <2>5 DEF InsertCollides, tables, SecondIsTaken
  <2>7. attempts'[m] > 0
    BY <1>0, <1>1, <2>2 DEF Jobs
  <2> QED  BY <2>6, <2>7 DEF Thrown
<1>3. CASE QueryFailed(w) /\ Fail(w)
  <2>1. faults'.broken > 0
    BY <1>0, <1>3 DEF QueryFailed, QueryFails
  <2>2. CASE job[w] \in Messages
    <3>1. attempts'[job[w]] > 0
      BY <1>0, <1>1, <2>2 DEF Jobs
    <3> QED  BY <2>1, <2>2, <3>1 DEF Thrown
  <2>3. CASE job[w] \notin Messages
    <3>1. GoTo(w, "close") /\ pc \in [Workers -> Querying \cup {"idle", "waitOne", "open", "close", "release", "commit"}]
      BY <1>3, <2>3 DEF QueryFailed, ServiceInv, EndpointInv, EndpointTypeOK
    <3> QED  BY <1>3, <3>1 DEF Fail, Throw, GoTo
  <2> QED  BY <2>2, <2>3
<1> QED  BY <1>2, <1>3

(* Every other step of the service returns what was taken.                   *)
LEMMA ReturnedNext ==
  ASSUME ServiceInv, ChatInv, Returned, [Next]_vars
  PROVE  Returned' \/ Thrown'
<1> USE DEF Workers, At
<1>0. pc \in [Workers -> Querying \cup {"idle", "waitOne", "open", "close", "release", "commit"}]
  BY DEF ServiceInv, EndpointInv, EndpointTypeOK
<1>1. ASSUME UNCHANGED <<mutex, connection, pc>> PROVE Returned'
  BY <1>1 DEF Returned, MutexReturns, Holds, Locked, Querying, ConnectionReturns
<1>2. CASE UNCHANGED vars
  BY <1>1, <1>2 DEF vars, dbVars, endpointVars
<1>3. ASSUME NEW j \in Jobs, Arrive(j) PROVE Returned'
  BY <1>1, <1>3 DEF Arrive, Send, dbVars
<1>4. ASSUME NEW w \in Workers,
             (\E j \in Jobs : Handle(w, j)) \/ Commit(w)
      PROVE  Returned'
  <2>1. /\ UNCHANGED dbVars /\ pc[w] \in {"idle", "commit"}
        /\ \A v \in Workers \ {w} : pc'[v] = pc[v]
    BY <1>0, <1>4 DEF Handle, Receive, GoTo, Commit, Return
  <2> QED  BY <2>1, MoveReturned DEF dbVars, Querying, Locked
<1>5. ASSUME NEW w \in Workers, Enter(w) \/ Leave(w) PROVE Returned'
  <2>1. /\ connection' = connection /\ pc[w] \in {"waitOne", "release"}
        /\ \A v \in Workers \ {w} : pc'[v] = pc[v]
        /\ \/ WaitOne(w) /\ pc[w] = "waitOne" /\ pc'[w] = "open"
           \/ ReleaseMutex(w)
    BY <1>0, <1>5 DEF Enter, EnterMutex, WaitOne, Leave, LeaveMutex, ReleaseMutex, GoTo
  <2> QED  BY <2>1, MoveReturned DEF Querying
<1>6. ASSUME NEW w \in Workers, NEW place \in Locked(Querying), GoTo(w, place), mutex' = mutex,
             \/ connection' = "Closed"
             \/ place \in Querying \cup {"close"}
      PROVE  Returned'
  BY <1>0, <1>6, MoveReturned DEF GoTo
<1>7. ASSUME NEW w \in Workers, OpenIt(w) \/ CloseIt(w) PROVE Returned'
  BY <1>6, <1>7 DEF OpenIt, OpenConnection, Open, CloseIt, CloseConnection, Close, Locked, Querying
<1>8. ASSUME NEW w \in Workers,
             FindChat(w) \/ CreateNewChatInstance(w) \/ FindNewChat(w) \/ InsertMessage(w) \/ Select(w)
      PROVE  Returned'
  BY <1>6, <1>8 DEF FindChat, CreateNewChatInstance, FindNewChat, InsertMessage, Select, dbVars,
                    Locked, Querying
<1>9. ASSUME NEW w \in Workers, OpenFailed(w) PROVE Returned'
  <2>1. ReleaseMutex(w) /\ connection' = "Closed"
    BY <1>9 DEF OpenFailed, OpenConnectionFails, OpenFails, ReleaseMutex
  <2>2. \A v \in Workers \ {w} : pc'[v] = pc[v]
    BY <1>0, <1>9 DEF OpenFailed, NotOpened, Fail, Throw, GoTo
  <2> QED  BY <2>1, <2>2, MoveReturned
<1>10. ASSUME NEW w \in Workers, QueryFailed(w) PROVE Returned' \/ Thrown'
  <2>1. CASE Fail(w)
    BY <1>10, <2>1, ThrowsForAReason
  <2>2. CASE GoTo(w, "close")
    BY <1>6, <1>10, <2>2 DEF QueryFailed, QueryFails, QueryBreaks, Locked
  <2> QED  BY <1>10, <2>1, <2>2 DEF QueryFailed
<1>11. CASE Crash
  BY <1>11, NoThreadAssumption
     DEF Crash, Restart, FreeMutex, Returned, MutexReturns, Holds, ConnectionReturns
<1>12. \A w \in Workers : ~ EnterAbandoned(w) /\ ~ RetireThread(w)
  BY NeverAbandoned DEF Returned
<1> QED
  BY <1>2, <1>3, <1>4, <1>5, <1>7, <1>8, <1>9, <1>10, <1>11, <1>12, ThrowsForAReason
     DEF Next, Step, Fault, SaveMessage

(* Only a saveMessage that threw leaves the connection open or the mutex     *)
(* owned, entered twice or abandoned, whichever faults happen.               *)
THEOREM OnlyThrownSavesHolds == Spec => []OnlyThrownSavesLeaveAnything
<1>1. Init => Returned
  BY NoThreadAssumption DEF Init, EndpointInit, DbInit, FreeMutex, Returned, MutexReturns, Holds,
     Workers, ConnectionReturns
<1>2. ServiceInv /\ ChatInv /\ (Returned \/ Thrown) /\ [Next]_vars => (Returned \/ Thrown)'
  <2> SUFFICES ASSUME ServiceInv, ChatInv, Returned \/ Thrown, [Next]_vars PROVE Returned' \/ Thrown'
    OBVIOUS
  <2>1. CASE Crash
    BY <2>1, NoThreadAssumption
       DEF Crash, Restart, FreeMutex, Returned, MutexReturns, Holds, ConnectionReturns, Workers
  <2> QED  BY <2>1, ReturnedNext, ThrownStays
<1>3. ServiceInv /\ (Returned \/ Thrown) => OnlyThrownSavesLeaveAnything
  <2> SUFFICES ASSUME ServiceInv, Returned, SomethingIsLeftBehind PROVE FALSE
    BY DEF Thrown, OnlyThrownSavesLeaveAnything
  <2>1. DbTypeOK
    BY DEF ServiceInv, EndpointInv, EndpointTypeOK
  <2>2. OpenedAndClosedForEachQuery
    BY DEF Returned, ConnectionReturns, OpenedAndClosedForEachQuery, Locked
  <2>3. ~ (mutex.depth > 1)
    BY <2>1 DEF Returned, MutexReturns, Holds, DbTypeOK, Workers
  <2> QED  BY <2>2, <2>3 DEF Returned, MutexReturns, SomethingIsLeftBehind
<1> QED  BY <1>1, <1>2, <1>3, ServiceInvariant, ChatInvariant, PTL DEF Spec

=============================================================================
