----------------------- MODULE ChatServiceRefinement -----------------------
(***************************************************************************)
(* ChatService implements ConversationStore, for any number of threads,    *)
(* messages, requests, attempts and faults.                                *)
(***************************************************************************)
EXTENDS ChatServiceProofs

-----------------------------------------------------------------------------
(* The four variables of the store. *)

(* A contacts list as the store has it: the names alone. *)
Shown(r, read) ==
  IF r \in HistoryRequests THEN read ELSE [read EXCEPT !.rows = {c.name : c \in @}]

Stage  == [j \in Jobs |-> IF status[j] \in {"queued", "taken"} THEN "pending" ELSE status[j]]
Opened == {{chats[i].usersname, chats[i].companyname} : i \in DOMAIN chats}
Kept   == {m \in Messages : Stored(m)}
Seen   == [r \in Requests |-> Shown(r, SeenRows(r))]

Pair(m) == {m.sender, m.receiver}

SameTables == Opened' = Opened /\ Kept' = Kept

(* An idle thread's locals hold nothing of the request it handled last. *)
IdleInv == \A w \in Workers : pc[w] = "idle" => answer[w] = Failure

(* Every step preserves that. *)
LEMMA StepIdleInv == ServiceInv /\ IdleInv /\ [Next]_vars => IdleInv'
<1> SUFFICES ASSUME ServiceInv, IdleInv, [Next]_vars PROVE IdleInv'
  OBVIOUS
<1> USE DEF Workers, IdleInv
<1>0. /\ pc \in [Workers -> Querying \cup {"idle", "waitOne", "open", "close", "release", "commit"}]
      /\ answer \in [Workers -> Answer]
  BY DEF ServiceInv, EndpointInv, EndpointTypeOK, LocalsTypeOK
<1>1. ASSUME UNCHANGED <<pc, answer>> PROVE IdleInv'
  BY <1>1
<1>2. ASSUME NEW w \in Workers, answer' = [answer EXCEPT ![w] = Failure],
             \A v \in Workers : v # w => pc'[v] = pc[v]
      PROVE  IdleInv'
  BY <1>0, <1>2
<1>3. ASSUME NEW w \in Workers, NEW place, place # "idle", GoTo(w, place), UNCHANGED answer
      PROVE  IdleInv'
  BY <1>0, <1>3 DEF GoTo
<1>4. ASSUME NEW w \in Workers, Fail(w) PROVE IdleInv'
  BY <1>0, <1>2, <1>4 DEF Fail, Throw, ForgetLocals
<1>5. ASSUME NEW w \in Workers, NotOpened(w) PROVE IdleInv'
  BY <1>3, <1>4, <1>5 DEF NotOpened, locals
<1>6. ASSUME NEW w \in Workers, Select(w) PROVE IdleInv'
  BY <1>0, <1>6 DEF Select, GoTo
<1>7. ASSUME NEW w \in Workers, Step(w) PROVE IdleInv'
  <2>1. CASE \E j \in Jobs : Handle(w, j)
    BY <1>3, <2>1 DEF Handle, locals
  <2>2. CASE EnterAbandoned(w)
    BY <1>5, <2>2 DEF EnterAbandoned
  <2>3. CASE Enter(w) \/ OpenIt(w) \/ CloseIt(w) \/ Leave(w)
    BY <1>3, <2>3 DEF Enter, EnterMutex, OpenIt, OpenConnection, CloseIt, CloseConnection, Leave,
                      LeaveMutex, locals
  <2>4. CASE Commit(w)
    BY <1>0, <1>2, <2>4 DEF Commit, Return, ForgetLocals
  <2>5. CASE SaveMessage(w)
    BY <1>3, <1>4, <2>5 DEF SaveMessage, FindChat, CreateNewChatInstance, FindNewChat,
                            InsertMessage, InsertCollides, locals
  <2> QED  BY <1>6, <1>7, <2>1, <2>2, <2>3, <2>4, <2>5 DEF Step
<1>8. ASSUME NEW w \in Workers, Fault(w) PROVE IdleInv'
  BY <1>1, <1>3, <1>4, <1>5, <1>8 DEF Fault, OpenFailed, QueryFailed, RetireThread, Retire,
                                      endpointVars, locals
<1>9. CASE Crash
  BY <1>9 DEF Crash
<1>10. ASSUME NEW j \in Jobs, Arrive(j) PROVE IdleInv'
  BY <1>1, <1>10 DEF Arrive, Send, locals
<1>11. CASE UNCHANGED vars
  BY <1>1, <1>11 DEF vars, endpointVars, locals
<1> QED  BY <1>7, <1>8, <1>9, <1>10, <1>11 DEF Next

-----------------------------------------------------------------------------
(* What a request's handler has read. *)

(* Its thread's answer while it is handled, its reply once it is done. *)
LEMMA SeenRowsAre ==
  ASSUME ServiceInv, NEW r \in Requests
  PROVE  /\ status[r] = "done" => SeenRows(r) = replies[r]
         /\ \A w \in Workers : job[w] = r => SeenRows(r) = answer[w] /\ status[r] = "taken"
         /\ status[r] # "done" /\ (\A w \in Workers : job[w] # r) => SeenRows(r) = Failure
<1>1. r # NoJob
  BY JobsAssumption DEF Jobs
<1>2. \A w \in Workers : job[w] = r => status[r] = "taken"
  BY <1>1 DEF ServiceInv, EndpointInv, DeliveriesOK, Workers
<1>3. \A w, v \in Workers : job[w] = r /\ job[v] = r => w = v
  BY <1>1 DEF ServiceInv, EndpointInv, DeliveriesOK, Workers
<1>4. ASSUME NEW w \in Workers, job[w] = r PROVE SeenRows(r) = answer[w]
  <2>1. w = CHOOSE v \in Workers : job[v] = r
    BY <1>3, <1>4
  <2> QED  BY <1>2, <1>4, <2>1 DEF SeenRows
<1>5. status[r] = "done" => SeenRows(r) = replies[r]
  BY DEF SeenRows
<1>6. status[r] # "done" /\ (\A w \in Workers : job[w] # r) => SeenRows(r) = Failure
  BY DEF SeenRows
<1> QED  BY <1>2, <1>4, <1>5, <1>6

(* The same of the state after a step. *)
LEMMA SeenRowsBecome ==
  ASSUME ServiceInv', NEW r \in Requests
  PROVE  /\ status'[r] = "done" => SeenRows(r)' = replies'[r]
         /\ \A w \in Workers : job'[w] = r => SeenRows(r)' = answer'[w] /\ status'[r] = "taken"
         /\ status'[r] # "done" /\ (\A w \in Workers : job'[w] # r) => SeenRows(r)' = Failure
<1>1. r # NoJob
  BY JobsAssumption DEF Jobs
<1>2. \A w \in Workers : job'[w] = r => status'[r] = "taken"
  BY <1>1 DEF ServiceInv, EndpointInv, DeliveriesOK, Workers
<1>3. \A w, v \in Workers : job'[w] = r /\ job'[v] = r => w = v
  BY <1>1 DEF ServiceInv, EndpointInv, DeliveriesOK, Workers
<1>4. ASSUME NEW w \in Workers, job'[w] = r PROVE SeenRows(r)' = answer'[w]
  <2>1. w = CHOOSE v \in Workers : job'[v] = r
    BY <1>3, <1>4
  <2> QED  BY <1>2, <1>4, <2>1 DEF SeenRows
<1>5. status'[r] = "done" => SeenRows(r)' = replies'[r]
  BY DEF SeenRows
<1>6. status'[r] # "done" /\ (\A w \in Workers : job'[w] # r) => SeenRows(r)' = Failure
  BY DEF SeenRows
<1> QED  BY <1>2, <1>4, <1>5, <1>6

(* Threads that keep their request and what they read, and threads that begin *)
(* with a request and have read nothing, show nothing new.                   *)
LEMMA QuietSeen ==
  ASSUME ServiceInv, ServiceInv', UNCHANGED replies,
         \A r \in Requests : status'[r] = "done" <=> status[r] = "done",
         \A w \in Workers :
           \/ job[w] \notin Requests /\ job'[w] \notin Requests
           \/ job'[w] = job[w] /\ answer'[w] = answer[w]
           \/ job[w] \notin Requests /\ answer'[w] = Failure /\ status[job'[w]] = "queued"
  PROVE  Seen' = Seen
<1>1. ASSUME NEW r \in Requests PROVE SeenRows(r)' = SeenRows(r)
  <2>1. CASE status[r] = "done"
    BY <2>1, SeenRowsAre, SeenRowsBecome
  <2>2. ASSUME NEW w \in Workers, job[w] = r PROVE SeenRows(r)' = SeenRows(r)
    <3>1. job'[w] = r /\ answer'[w] = answer[w]
      BY <2>2
    <3> QED  BY <2>2, <3>1, SeenRowsAre, SeenRowsBecome
  <2>3. CASE status[r] # "done" /\ \A w \in Workers : job[w] # r
    <3>1. SeenRows(r) = Failure
      BY <2>3, SeenRowsAre
    <3>2. ASSUME NEW w \in Workers, job'[w] = r PROVE SeenRows(r)' = Failure
      BY <2>3, <3>2, SeenRowsBecome
    <3> QED  BY <2>3, <3>1, <3>2, SeenRowsBecome
  <2> QED  BY <2>1, <2>2, <2>3
<1> QED  BY <1>1 DEF Seen

(* A crash makes the handlers of the requests not answered start over. *)
LEMMA CrashSeen ==
  ASSUME ServiceInv, ServiceInv', Crash
  PROVE  Seen' = [r \in Requests |-> IF Stage[r] = "pending" THEN Failure ELSE Seen[r]]
<1>0. \A r \in Requests : Shown(r, Failure) = Failure
  BY DEF Shown, Failure
<1>1. ASSUME NEW r \in Requests
      PROVE  SeenRows(r)' = IF status[r] = "done" THEN SeenRows(r) ELSE Failure
  <2>1. \A w \in Workers : job'[w] # r
    BY <1>1, JobsAssumption DEF Crash, Restart, Workers, Jobs
  <2>2. status'[r] = "done" <=> status[r] = "done"
    BY DEF Crash, Restart, ServiceInv, EndpointInv, EndpointTypeOK, Jobs
  <2>3. UNCHANGED replies
    BY DEF Crash
  <2> QED  BY <2>1, <2>2, <2>3, SeenRowsAre, SeenRowsBecome
<1>2. ASSUME NEW r \in Requests
      PROVE  Shown(r, SeenRows(r)') = IF Stage[r] = "pending" THEN Failure ELSE Seen[r]
  <2>1. CASE status[r] = "done"
    BY <1>1, <2>1 DEF Stage, Seen, Jobs
  <2>2. CASE status[r] \in {"queued", "taken"}
    BY <1>0, <1>1, <2>2 DEF Stage, Jobs
  <2>3. CASE status[r] \in {"unsent", "error"}
    <3>1. SeenRows(r) = Failure
      BY <2>3, SeenRowsAre
    <3> QED  BY <1>0, <1>1, <2>3, <3>1 DEF Stage, Seen, Jobs
  <2> QED  BY <2>1, <2>2, <2>3 DEF ServiceInv, EndpointInv, EndpointTypeOK, Jobs
<1> QED  BY <1>2 DEF Seen, Shown

-----------------------------------------------------------------------------
(* The tables. *)

LEMMA QuietTablesSame ==
  ASSUME UNCHANGED tables
  PROVE  SameTables
BY DEF tables, SameTables, Opened, Kept, Stored

(* A row of chats opens the conversation of its two users and shows no        *)
(* message that was not there.                                               *)
LEMMA AddChatOpens ==
  ASSUME ServiceInv, ChatInv, NEW n \in Messages, AddChat(n), UNCHANGED messages
  PROVE  Opened' = Opened \cup {Pair(n)} /\ Kept' = Kept
<1> DEFINE new == Len(chats) + 1
<1>0. /\ DOMAIN chats' = DOMAIN chats \cup {new}
      /\ \A i \in DOMAIN chats : chats'[i] = chats[i]
      /\ chats'[new] = [usersname |-> n.sender, companyname |-> n.receiver]
  BY ChatsGrow DEF ServiceInv
<1>1. Opened' = Opened \cup {Pair(n)}
  <2>1. {chats'[new].usersname, chats'[new].companyname} = Pair(n)
    BY <1>0 DEF Pair
  <2>2. \A i \in DOMAIN chats : {chats'[i].usersname, chats'[i].companyname}
                                 = {chats[i].usersname, chats[i].companyname}
    BY <1>0
  <2> HIDE DEF new
  <2> QED  BY <1>0, <2>1, <2>2 DEF Opened
<1> HIDE DEF new
<1>2. \A row \in messages : row.id \in DOMAIN chats
  BY DEF ChatInv, TablesInv, RowOf, ChatIds
<1>3. ASSUME NEW m \in Messages PROVE Stored(m)' <=> Stored(m)
  BY <1>0, <1>2 DEF Stored
<1> QED  BY <1>1, <1>3 DEF Kept

(* A row of messages keeps one message more, in a conversation that is open   *)
(* and has none of that second.                                              *)
LEMMA AddMessageKeeps ==
  ASSUME ServiceInv, ChatInv, NEW w \in Workers, pc[w] = "insertMessage",
         NEW n \in Messages, n = job[w], ~ Collides(chat[w], n),
         AddMessage(chat[w], n), UNCHANGED chats
  PROVE  /\ Opened' = Opened /\ Kept' = Kept \cup {n}
         /\ Pair(n) \in Opened
         /\ ~ \E k \in Kept : Pair(k) = Pair(n) /\ k.timestamp = n.timestamp
<1>0. chat[w] \in ChatIds(n)
  BY DEF ChatInv, SaverOK
<1> DEFINE new == [id |-> chat[w], message |-> n.text,
                   timestamp |-> n.timestamp, sender |-> n.sender]
<1>1. messages' = messages \cup {new} /\ RowOf(new, n)
  BY <1>0 DEF AddMessage, RowOf
<1>2. \A m : ChatIds(m)' = ChatIds(m)
  BY DEF ChatIds
<1>3. ASSUME NEW m \in Messages PROVE Stored(m)' <=> Stored(m) \/ m = n
  <2>1. Stored(m)' <=> \E row \in messages' : RowOf(row, m)
    BY <1>2 DEF Stored, RowOf, ChatIds
  <2>2. RowOf(new, m) => m = n
    BY MessagesAssumption DEF RowOf
  <2> QED  BY <1>1, <2>1, <2>2, StoredByRow
<1>4. Opened' = Opened
  BY DEF Opened
<1>5. Pair(n) \in Opened
  BY <1>0 DEF ChatIds, Between, Opened, Pair
<1>6. ASSUME NEW k \in Kept, Pair(k) = Pair(n), k.timestamp = n.timestamp PROVE FALSE
  <2>1. PICK row \in messages : RowOf(row, k)
    BY <1>6, StoredByRow DEF Kept
  <2>2. row.id \in ChatIds(n)
    BY <1>6, <2>1 DEF RowOf, ChatIds, Between, Pair
  <2>3. row.id = chat[w]
    BY <1>0, <2>2 DEF ChatInv, TablesInv, OneChatPerConversation, ChatIds, Between
  <2> QED  BY <1>6, <2>1, <2>3 DEF Collides, RowOf
<1> QED  BY <1>1, <1>3, <1>4, <1>5, <1>6 DEF Kept

-----------------------------------------------------------------------------
(* The steps of the store in these terms. *)

StoreStep == Store!Next \/ UNCHANGED <<Stage, Opened, Kept, Seen>>

SetStage(j, there) == Stage[j] = "pending" /\ Stage' = [Stage EXCEPT ![j] = there]

Opens(m) == Opened' = Opened \cup {Pair(m)} /\ UNCHANGED Kept

Keeps(m) ==
  /\ Pair(m) \in Opened
  /\ ~ \E k \in Kept : Pair(k) = Pair(m) /\ k.timestamp = m.timestamp
  /\ Kept' = Kept \cup {m}
  /\ UNCHANGED Opened

LEMMA JobSteps ==
  ASSUME NEW j \in Jobs, SameTables, UNCHANGED Seen
  PROVE  /\ Stage[j] = "unsent" /\ Stage' = [Stage EXCEPT ![j] = "pending"] => StoreStep
         /\ j \in Messages /\ SetStage(j, "error") => StoreStep
         /\ j \in Kept /\ SetStage(j, "done") => StoreStep
         /\ j \in Requests /\ SetStage(j, "done") => StoreStep
<1> USE DEF SameTables, SetStage, StoreStep, Stage, Opened, Kept, Seen, Shown, Jobs, Requests
<1>1. Stage[j] = "unsent" /\ Stage' = [Stage EXCEPT ![j] = "pending"] => Store!Accept(j)
  BY DEF Store!Accept
<1>2. j \in Messages /\ SetStage(j, "error") => Store!Reject(j)
  BY DEF Store!Reject
<1>3. j \in Kept /\ SetStage(j, "done") => Store!Finish(j)
  BY DEF Store!Finish
<1>4. j \in Requests /\ SetStage(j, "done") => Store!Reply(j)
  BY DEF Store!Reply
<1> QED  BY <1>1, <1>2, <1>3, <1>4 DEF Store!Next, Store!Jobs, Store!Requests

LEMMA MessageSteps ==
  ASSUME NEW m \in Messages, Stage[m] = "pending", UNCHANGED Seen, Opens(m) \/ Keeps(m),
         UNCHANGED Stage \/ SetStage(m, "error")
  PROVE  StoreStep
<1> USE DEF SetStage, Stage, Opened, Kept, Seen, Shown, Jobs, Requests, Opens, Keeps, Pair
<1>1. CASE Opens(m) /\ UNCHANGED Stage
  <2>1. Store!OpenConversation(m)
    BY <1>1 DEF Store!OpenConversation, Store!Conversation
  <2> QED  BY <2>1 DEF StoreStep, Store!Next
<1>2. CASE Keeps(m) /\ UNCHANGED Stage
  <2>1. Store!Store(m)
    BY <1>2 DEF Store!Store, Store!Conversation, Store!Clash
  <2> QED  BY <2>1 DEF StoreStep, Store!Next
<1>3. CASE SetStage(m, "error")
  <2>1. Store!RejectLate(m)
    BY <1>3 DEF Store!RejectLate, Store!Conversation, Store!Clash
  <2> QED  BY <2>1 DEF StoreStep, Store!Next
<1> QED  BY <1>1, <1>2, <1>3

-----------------------------------------------------------------------------
(* What the queries of the reads show of the store. *)

View(r) ==
  [result |-> TRUE,
   rows |-> IF r \in HistoryRequests
            THEN {m \in Kept : Pair(m) = {r.user1, r.user2}}
            ELSE {u \in UNION Opened : {u, r.usersname} \in Opened}]

(* A history is the messages kept of the conversation of the two users. *)
LEMMA HistoryIsView ==
  ASSUME ServiceInv, ChatInv, NEW r \in HistoryRequests
  PROVE  History(r) = View(r)
<1> DEFINE mine == {s \in messages : s.id \in DOMAIN chats
                                     /\ Between(chats[s.id], r.user1, r.user2)}
           entry(s) == [text |-> s.message, sender |-> s.sender,
                        receiver |-> Other(r.user1, r.user2, s.sender),
                        timestamp |-> s.timestamp]
           shown == {m \in Kept : Pair(m) = {r.user1, r.user2}}
<1>1. ASSUME NEW row \in messages, NEW m \in Messages, RowOf(row, m)
      PROVE  /\ row \in mine <=> Pair(m) = {r.user1, r.user2}
             /\ row \in mine => entry(row) = m
  <2>1. row.id \in DOMAIN chats /\ Between(chats[row.id], m.sender, m.receiver)
    BY <1>1 DEF RowOf, ChatIds
  <2>2. row \in mine <=> Pair(m) = {r.user1, r.user2}
    BY <2>1 DEF Between, Pair
  <2>3. ASSUME Pair(m) = {r.user1, r.user2} PROVE Other(r.user1, r.user2, m.sender) = m.receiver
    BY <2>3 DEF Pair, Other
  <2>4. m \in MessageType
    BY MessagesAssumption
  <2>5. m = [text |-> m.text, sender |-> m.sender, receiver |-> m.receiver, timestamp |-> m.timestamp]
    BY <2>4 DEF MessageType
  <2> QED  BY <1>1, <2>2, <2>3, <2>5 DEF RowOf
<1>2. ASSUME NEW s \in mine PROVE entry(s) \in shown
  <2>1. PICK m \in Messages : RowOf(s, m)
    BY DEF ChatInv, TablesInv
  <2> QED  BY <1>1, <2>1, StoredByRow DEF Kept
<1>3. ASSUME NEW m \in shown PROVE \E s \in mine : entry(s) = m
  <2>1. PICK row \in messages : RowOf(row, m)
    BY StoredByRow DEF Kept
  <2> QED  BY <1>1, <2>1 DEF Kept
<1>4. {entry(s) : s \in mine} = shown
  BY <1>2, <1>3
<1> QED  BY <1>4 DEF History, View

(* The names of a contacts list are the users the user has a conversation     *)
(* with.                                                                     *)
LEMMA ContactsAreView ==
  ASSUME ServiceInv, NEW r \in ContactsRequests
  PROVE  Shown(r, Contacts(r)) = View(r)
<1> DEFINE name(i) == Other(chats[i].usersname, chats[i].companyname, r.usersname)
           mine == {k \in DOMAIN chats : \/ chats[k].usersname = r.usersname
                                         \/ chats[k].companyname = r.usersname}
           shown == {u \in UNION Opened : {u, r.usersname} \in Opened}
<1>0. r \notin HistoryRequests
  BY JobsAssumption
<1>1. ASSUME NEW i \in mine PROVE name(i) \in shown
  <2>1. {chats[i].usersname, chats[i].companyname} \in Opened
    BY DEF Opened
  <2>2. {name(i), r.usersname} = {chats[i].usersname, chats[i].companyname}
    BY DEF Other
  <2> QED  BY <2>1, <2>2
<1>2. ASSUME NEW u \in shown PROVE \E i \in mine : name(i) = u
  <2>1. PICK i \in DOMAIN chats : {u, r.usersname} = {chats[i].usersname, chats[i].companyname}
    BY DEF Opened
  <2> QED  BY <2>1 DEF Other
<1>3. {name(i) : i \in mine} = shown
  BY <1>1, <1>2
<1>4. {c.name : c \in Contacts(r).rows} = {name(i) : i \in mine}
  <2> DEFINE row(i) == [id |-> i, name |-> name(i)]
  <2>1. Contacts(r).rows = {row(i) : i \in mine}
    BY DEF Contacts
  <2>2. \A i \in mine : row(i).name = name(i)
    OBVIOUS
  <2> HIDE DEF row, name, mine
  <2> QED  BY <2>1, <2>2
<1> HIDE DEF name, mine, shown
<1>5. Shown(r, Contacts(r)) = [result |-> TRUE, rows |-> shown]
  BY <1>0, <1>3, <1>4 DEF Shown, Contacts
<1> QED  BY <1>0, <1>5 DEF View, shown

LEMMA ReadStep ==
  ASSUME NEW r \in Requests, Stage[r] = "pending", SameTables, UNCHANGED Stage,
         Seen' = [Seen EXCEPT ![r] = View(r)]
  PROVE  StoreStep
<1>1. Store!Read(r)
  BY DEF Store!Read, Store!View, Store!Conversation, View, Pair, SameTables, Stage, Opened, Kept,
         Seen, Shown, Jobs, Requests
<1> QED  BY <1>1 DEF StoreStep, Store!Next, Store!Requests, Requests

LEMMA ForgetStep ==
  ASSUME SameTables, UNCHANGED Stage,
         Seen' = [r \in Requests |-> IF Stage[r] = "pending" THEN Failure ELSE Seen[r]]
  PROVE  StoreStep
<1>1. Store!Forget
  BY DEF Store!Forget, Store!Nothing, Store!Requests, Failure, SameTables, Stage, Opened, Kept,
         Seen, Shown, Jobs, Requests
<1> QED  BY <1>1 DEF StoreStep, Store!Next

-----------------------------------------------------------------------------
(* The steps of the service. *)

LEMMA QuietStep ==
  ASSUME UNCHANGED <<status, job, tables, answer, replies>>
  PROVE  StoreStep
BY QuietTablesSame DEF SameTables, Stage, Seen, SeenRows, StoreStep

LEMMA HandlesPending ==
  ASSUME ServiceInv, NEW w \in Workers, pc[w] # "idle"
  PROVE  /\ job[w] \in Jobs /\ job[w] # NoJob
         /\ status[job[w]] = "taken" /\ Stage[job[w]] = "pending"
BY JobsAssumption DEF ServiceInv, EndpointInv, EndpointTypeOK, DeliveriesOK, Workers, Stage

(* A message arrives. *)
LEMMA ArriveStep ==
  ASSUME ServiceInv, ServiceInv', NEW j \in Jobs, Arrive(j)
  PROVE  StoreStep
<1> USE DEF Arrive, Send, locals
<1>0. status \in [Jobs -> {"unsent", "queued", "taken", "done", "error"}]
  BY DEF ServiceInv, EndpointInv, EndpointTypeOK
<1>1. Stage[j] = "unsent" /\ Stage' = [Stage EXCEPT ![j] = "pending"]
  BY <1>0 DEF Stage
<1>2. Seen' = Seen
  BY <1>0, QuietSeen DEF Requests, Jobs
<1> QED  BY <1>1, <1>2, JobSteps, QuietTablesSame

(* A thread takes a message: nothing the store knows of. *)
LEMMA HandleStep ==
  ASSUME ServiceInv, ServiceInv', IdleInv, NEW w \in Workers, NEW j \in Jobs, Handle(w, j)
  PROVE  StoreStep
<1> USE DEF Handle, Receive, locals, Workers
<1>0. /\ status \in [Jobs -> {"unsent", "queued", "taken", "done", "error"}]
      /\ job \in [Workers -> Jobs \cup {NoJob}] /\ job[w] = NoJob /\ answer[w] = Failure
      /\ NoJob \notin Requests
  BY JobsAssumption DEF ServiceInv, EndpointInv, EndpointTypeOK, IdleInv, At, Jobs
<1>1. Stage' = Stage
  BY <1>0 DEF Stage
<1>2. \A v \in Workers : v # w => job'[v] = job[v] /\ answer'[v] = answer[v]
  BY <1>0
<1>3. Seen' = Seen
  BY <1>0, <1>2, QuietSeen DEF Requests, Jobs
<1> QED  BY <1>1, <1>3, QuietTablesSame DEF SameTables, StoreStep

(* The handler of a message throws, after its statement took effect or not. *)
LEMMA FailStep ==
  ASSUME ServiceInv, ServiceInv', NEW w \in Workers, pc[w] # "idle", Fail(w), UNCHANGED replies,
         NEW m \in Messages, m = job[w], SameTables \/ Opens(m) \/ Keeps(m)
  PROVE  StoreStep
<1> USE DEF Fail, Throw, ForgetLocals, Workers
<1>0. /\ status \in [Jobs -> {"unsent", "queued", "taken", "done", "error"}]
      /\ job \in [Workers -> Jobs \cup {NoJob}] /\ answer \in [Workers -> Answer]
      /\ status[m] = "taken" /\ Stage[m] = "pending" /\ m \in Jobs
      /\ NoJob \notin Requests /\ m \notin Requests
  BY HandlesPending, JobsAssumption
     DEF ServiceInv, EndpointInv, EndpointTypeOK, LocalsTypeOK, Jobs
<1>1. UNCHANGED Stage \/ SetStage(m, "error")
  BY <1>0 DEF Stage, SetStage
<1>2. \A v \in Workers : v # w => job'[v] = job[v] /\ answer'[v] = answer[v]
  BY <1>0
<1>3. \A r \in Requests : status'[r] = status[r]
  BY <1>0 DEF Requests, Jobs
<1>4. Seen' = Seen
  BY <1>0, <1>2, <1>3, QuietSeen
<1> QED  BY <1>0, <1>1, <1>4, JobSteps, MessageSteps DEF SameTables, StoreStep

(* openConnection returned false. *)
LEMMA NotOpenedStep ==
  ASSUME ServiceInv, ServiceInv', NEW w \in Workers, pc[w] # "idle", NotOpened(w),
         UNCHANGED <<tables, replies>>
  PROVE  StoreStep
<1>1. CASE job[w] \in Messages /\ Fail(w)
  BY <1>1, FailStep, QuietTablesSame
<1>2. CASE UNCHANGED <<status, job, locals>>
  BY <1>2, QuietStep DEF locals
<1> QED  BY <1>1, <1>2 DEF NotOpened

(* The handler returns. *)
LEMMA CommitStep ==
  ASSUME ServiceInv, ServiceInv', ChatInv, NEW w \in Workers, Commit(w)
  PROVE  StoreStep
<1> USE DEF Workers
<1>0. /\ status \in [Jobs -> {"unsent", "queued", "taken", "done", "error"}]
      /\ job \in [Workers -> Jobs \cup {NoJob}] /\ answer \in [Workers -> Answer]
      /\ replies \in [Requests -> Answer]
      /\ job[w] \in Jobs /\ status[job[w]] = "taken" /\ Stage[job[w]] = "pending"
      /\ NoJob \notin Requests /\ pc[w] = "commit"
      /\ \A v \in Workers : v # w => job[v] # job[w]
  BY HandlesPending, JobsAssumption
     DEF Commit, Return, At, ServiceInv, EndpointInv, EndpointTypeOK, LocalsTypeOK, Jobs, DeliveriesOK
<1>1. SetStage(job[w], "done")
  BY <1>0 DEF Commit, Return, Stage, SetStage
<1>2. SameTables
  BY QuietTablesSame DEF Commit
<1>3. \A v \in Workers : v # w => job'[v] = job[v] /\ answer'[v] = answer[v]
  BY <1>0 DEF Commit, Return, ForgetLocals
<1>4. job'[w] = NoJob
  BY <1>0 DEF Commit, Return
<1>5. \A j \in Jobs : j # job[w] => status'[j] = status[j]
  BY <1>0 DEF Commit, Return
<1>6. ASSUME NEW r \in Requests PROVE SeenRows(r)' = SeenRows(r)
  <2>1. CASE r = job[w]
    <3>1. status'[r] = "done" /\ replies'[r] = answer[w]
      BY <1>0, <2>1 DEF Commit, Return
    <3> QED  BY <2>1, <3>1, SeenRowsAre, SeenRowsBecome
  <2>2. CASE r # job[w]
    <3>1. status'[r] = status[r] /\ replies'[r] = replies[r]
      BY <1>5, <2>2 DEF Commit, Jobs
    <3>2. CASE status[r] = "done"
      BY <3>1, <3>2, SeenRowsAre, SeenRowsBecome
    <3>3. ASSUME NEW v \in Workers, job[v] = r PROVE SeenRows(r)' = SeenRows(r)
      BY <1>3, <2>2, <3>3, SeenRowsAre, SeenRowsBecome
    <3>4. CASE status[r] # "done" /\ \A v \in Workers : job[v] # r
      <4>1. \A v \in Workers : job'[v] # r
        BY <1>0, <1>3, <1>4, <3>4
      <4> QED  BY <3>1, <3>4, <4>1, SeenRowsAre, SeenRowsBecome
    <3> QED  BY <3>2, <3>3, <3>4
  <2> QED  BY <2>1, <2>2
<1>7. Seen' = Seen
  BY <1>6 DEF Seen, Shown
<1>8. job[w] \in Messages => job[w] \in Kept
  BY <1>0 DEF ChatInv, SaverOK, AfterInsert, Kept
<1> QED  BY <1>0, <1>1, <1>2, <1>7, <1>8, JobSteps DEF Jobs

(* A read queries. *)
LEMMA SelectStep ==
  ASSUME ServiceInv, ServiceInv', ChatInv, NEW w \in Workers, Select(w)
  PROVE  StoreStep
<1> USE DEF Select, At, Workers
<1>1. PICK r \in Requests : r = job[w]
  BY DEF ServiceInv, HandlersOK
<1>2. Stage[r] = "pending" /\ r \in Jobs
  BY <1>1, HandlesPending
<1>3. SameTables /\ UNCHANGED Stage
  BY QuietTablesSame DEF Stage
<1>4. Shown(r, answer'[w]) = View(r)
  <2>0. answer \in [Workers -> Answer]
    BY DEF ServiceInv, LocalsTypeOK
  <2>1. CASE r \in HistoryRequests
    BY <1>1, <2>0, <2>1, HistoryIsView DEF Shown
  <2>2. CASE r \in ContactsRequests
    <3>1. r \notin HistoryRequests
      BY <2>2, JobsAssumption
    <3> QED  BY <1>1, <2>0, <2>2, <3>1, ContactsAreView
  <2> QED  BY <2>1, <2>2 DEF Requests
<1>5. SeenRows(r)' = answer'[w]
  BY <1>1, SeenRowsBecome
<1>6. ASSUME NEW q \in Requests, q # r PROVE SeenRows(q)' = SeenRows(q)
  <2>1. \A v \in Workers : job[v] = q => answer'[v] = answer[v]
    BY <1>1, <1>6 DEF ServiceInv, LocalsTypeOK
  <2>2. UNCHANGED <<job, status, replies>>
    OBVIOUS
  <2> QED  BY <2>1, <2>2, SeenRowsAre, SeenRowsBecome
<1>7. Seen' = [Seen EXCEPT ![r] = View(r)]
  BY <1>4, <1>5, <1>6 DEF Seen
<1> QED  BY <1>2, <1>3, <1>7, ReadStep

(* A statement of saveMessage. *)
LEMMA SaveMessageStep ==
  ASSUME ServiceInv, ServiceInv', ChatInv, NEW w \in Workers, SaveMessage(w)
  PROVE  StoreStep
<1> USE DEF At
<1>0. pc[w] \in Saving /\ pc[w] # "idle"
  BY DEF SaveMessage, FindChat, CreateNewChatInstance, FindNewChat, InsertMessage, InsertCollides,
         Saving
<1>1. PICK m \in Messages : m = job[w]
  BY <1>0 DEF ServiceInv, HandlersOK
<1>2. Stage[m] = "pending"
  BY <1>0, <1>1, HandlesPending
<1>3. ASSUME UNCHANGED <<status, job, answer, replies>> PROVE UNCHANGED <<Stage, Seen>>
  BY <1>3 DEF Stage, Seen, SeenRows
<1>4. CASE FindChat(w) \/ FindNewChat(w)
  BY <1>4, QuietStep DEF FindChat, FindNewChat
<1>5. CASE CreateNewChatInstance(w)
  <2>1. Opens(m)
    BY <1>1, <1>5, AddChatOpens DEF CreateNewChatInstance, Opens
  <2> QED  BY <1>2, <1>3, <1>5, <2>1, MessageSteps DEF CreateNewChatInstance, locals
<1>6. CASE InsertMessage(w)
  <2>1. Keeps(m)
    BY <1>1, <1>6, AddMessageKeeps DEF InsertMessage, Keeps
  <2> QED  BY <1>2, <1>3, <1>6, <2>1, MessageSteps DEF InsertMessage, locals
<1>7. CASE InsertCollides(w)
  BY <1>0, <1>1, <1>7, FailStep, QuietTablesSame DEF InsertCollides
<1> QED  BY <1>4, <1>5, <1>6, <1>7 DEF SaveMessage

(* MySQL is lost during a query: the statement of a message whose handler     *)
(* throws for the last time may have taken effect all the same.              *)
LEMMA QueryFailedStep ==
  ASSUME ServiceInv, ServiceInv', ChatInv, NEW w \in Workers, QueryFailed(w)
  PROVE  StoreStep
<1> USE DEF At
<1>0. pc[w] # "idle" /\ UNCHANGED replies
  BY DEF QueryFailed, QueryFails, Querying
<1>1. CASE UNCHANGED tables
  <2>1. CASE job[w] \in Messages /\ Fail(w)
    BY <1>0, <1>1, <2>1, FailStep, QuietTablesSame
  <2>2. CASE UNCHANGED <<status, job, locals>>
    BY <1>0, <1>1, <2>2, QuietStep DEF locals
  <2> QED  BY <2>1, <2>2 DEF QueryFailed
<1>2. ASSUME pc[w] \in Saving PROVE job[w] \in Messages /\ Fail(w)
  BY <1>2, JobsAssumption DEF ServiceInv, HandlersOK, QueryFailed
<1>3. CASE At(w, "createChat") /\ AddChat(job[w]) /\ UNCHANGED messages
  <2>1. PICK m \in Messages : m = job[w]
    BY <1>2, <1>3 DEF Saving
  <2>2. Opens(m)
    BY <1>3, <2>1, AddChatOpens DEF Opens
  <2> QED  BY <1>0, <1>2, <1>3, <2>1, <2>2, FailStep DEF Saving
<1>4. CASE /\ At(w, "insertMessage") /\ ~ Collides(chat[w], job[w])
           /\ AddMessage(chat[w], job[w]) /\ UNCHANGED chats
  <2>1. PICK m \in Messages : m = job[w]
    BY <1>2, <1>4 DEF Saving
  <2>2. Keeps(m)
    BY <1>4, <2>1, AddMessageKeeps DEF Keeps
  <2> QED  BY <1>0, <1>2, <1>4, <2>1, <2>2, FailStep DEF Saving
<1> QED  BY <1>1, <1>3, <1>4 DEF QueryFailed

(* The service dies. *)
LEMMA CrashStep ==
  ASSUME ServiceInv, ServiceInv', Crash
  PROVE  StoreStep
<1>0. status \in [Jobs -> {"unsent", "queued", "taken", "done", "error"}]
  BY DEF ServiceInv, EndpointInv, EndpointTypeOK
<1>1. UNCHANGED Stage
  BY <1>0 DEF Crash, Restart, Stage
<1>2. SameTables
  BY QuietTablesSame DEF Crash
<1> QED  BY <1>1, <1>2, CrashSeen, ForgetStep

(* Every step of the service is a step of the store or changes nothing there. *)
THEOREM StepImplementsStore ==
  ServiceInv /\ ServiceInv' /\ ChatInv /\ IdleInv /\ [Next]_vars => StoreStep
<1> SUFFICES ASSUME ServiceInv, ServiceInv', ChatInv, IdleInv, [Next]_vars PROVE StoreStep
  OBVIOUS
<1>1. CASE UNCHANGED vars
  BY <1>1, QuietStep DEF vars, endpointVars, locals
<1>2. ASSUME NEW w \in Workers, Enter(w) \/ OpenIt(w) \/ CloseIt(w) \/ Leave(w) \/ RetireThread(w)
      PROVE  StoreStep
  BY <1>2, QuietStep DEF Enter, EnterMutex, OpenIt, OpenConnection, CloseIt, CloseConnection,
                         Leave, LeaveMutex, RetireThread, Retire, endpointVars, locals
<1>3. ASSUME NEW w \in Workers, EnterAbandoned(w) \/ OpenFailed(w) PROVE StoreStep
  BY <1>3, NotOpenedStep DEF EnterAbandoned, EnterAbandonedMutex, OpenFailed, OpenConnectionFails, At
<1> QED
  BY <1>1, <1>2, <1>3, ArriveStep, HandleStep, CommitStep, SelectStep, SaveMessageStep,
     QueryFailedStep, CrashStep DEF Next, Step, Fault

(* The Chat service implements the store: the threads, the mutex, the         *)
(* connection that is opened and closed, the two tables, the retries and the  *)
(* crashes never show in what is stored or answered.                         *)
THEOREM ChatImplementsConversationStore == Spec => ImplementsConversationStore
<1>1. Init => Store!Init
  <2> SUFFICES ASSUME Init PROVE Store!Init
    OBVIOUS
  <2>0. ServiceInv
    BY InitServiceInv
  <2>1. Stage = [j \in Jobs |-> "unsent"]
    BY DEF Init, EndpointInit, Stage
  <2>2. Opened = {} /\ Kept = {}
    BY DEF Init, Opened, Kept, Stored
  <2>3. \A r \in Requests : SeenRows(r) = Failure
    BY <2>0, SeenRowsAre DEF Init, EndpointInit, Workers, Jobs
  <2>4. Seen = [r \in Requests |-> Failure]
    <3>1. \A r \in Requests : Shown(r, Failure) = Failure
      BY DEF Shown, Failure
    <3> QED  BY <2>3, <3>1 DEF Seen
  <2> QED  BY <2>1, <2>2, <2>4 DEF Store!Init, Store!Jobs, Store!Requests, Store!Nothing, Failure,
              Stage, Opened, Kept, Seen, Shown, Jobs, Requests
<1>2. Init => IdleInv
  BY DEF Init, IdleInv
<1>3. StoreStep => [Store!Next]_<<Stage, Opened, Kept, Seen>>
  BY DEF StoreStep
<1>4. Spec => [][Store!Next]_<<Stage, Opened, Kept, Seen>>
  BY <1>2, <1>3, StepIdleInv, StepImplementsStore, ServiceInvariant, ChatInvariant, PTL DEF Spec
<1>5. UNCHANGED <<Stage, Opened, Kept, Seen>> => UNCHANGED Store!storeVars
  BY DEF Store!storeVars, Stage, Opened, Kept, Seen, Shown
<1> QED  BY <1>1, <1>4, <1>5, PTL DEF Spec, ImplementsConversationStore, Store!Spec

-----------------------------------------------------------------------------
(* What the store promises, and the service with it. *)

(* The rows a request may ever have read. *)
Readable(r) == View(r).rows

(* Nothing of the store is lost. *)
Grows == Opened \subseteq Opened' /\ Kept \subseteq Kept'

(* A message is kept in an opened conversation, one for each second, and is   *)
(* kept when it is acknowledged.  A request has read nothing, or what is      *)
(* still in the store.                                                       *)
StoreInv ==
  /\ \A m \in Kept : Pair(m) \in Opened
  /\ \A m, n \in Kept : Pair(m) = Pair(n) /\ m.timestamp = n.timestamp => m = n
  /\ \A m \in Messages : Stage[m] = "done" => m \in Kept
  /\ \A r \in Requests : Seen[r] = Failure \/ (Seen[r].result /\ Seen[r].rows \subseteq Readable(r))

(* The actions of the store, in the service's terms. *)
LEMMA StoreActions ==
  ASSUME StoreStep
  PROVE  \/ Grows /\ Opened' = Opened /\ Kept' = Kept /\ Seen' = Seen
            /\ \A m \in Messages : Stage'[m] = "done" => Stage[m] = "done" \/ m \in Kept
         \/ \E m \in Messages : /\ Opens(m) \/ Keeps(m)
                                /\ UNCHANGED Stage \/ SetStage(m, "error")
                                /\ UNCHANGED Seen
         \/ /\ UNCHANGED <<Stage, Opened, Kept>>
            /\ \/ \E r \in Requests : Seen' = [Seen EXCEPT ![r] = View(r)]
               \/ Seen' = [r \in Requests |-> IF Stage[r] = "pending" THEN Failure ELSE Seen[r]]
<1> USE DEF Store!Jobs, Store!Requests, Jobs, Requests, Stage, Opened, Kept, Seen, Shown
<1> DEFINE Quiet == /\ Grows /\ Opened' = Opened /\ Kept' = Kept /\ Seen' = Seen
                    /\ \A m \in Messages : Stage'[m] = "done" => Stage[m] = "done" \/ m \in Kept
           Writes(m) == /\ Opens(m) \/ Keeps(m)
                        /\ UNCHANGED Stage \/ SetStage(m, "error")
                        /\ UNCHANGED Seen
<1>1. CASE UNCHANGED <<Stage, Opened, Kept, Seen>>
  BY <1>1 DEF Grows
<1>2. ASSUME NEW j \in Jobs, Store!Accept(j) PROVE Quiet
  BY <1>2 DEF Store!Accept, Grows
<1>3. ASSUME NEW m \in Messages, Store!OpenConversation(m) PROVE Writes(m)
  BY <1>3 DEF Store!OpenConversation, Store!Conversation, Opens, Pair
<1>4. ASSUME NEW m \in Messages, Store!Store(m) PROVE Writes(m)
  BY <1>4 DEF Store!Store, Store!Conversation, Store!Clash, Keeps, Pair
<1>5. ASSUME NEW m \in Messages, Store!Finish(m) \/ Store!Reject(m) PROVE Quiet
  BY <1>5 DEF Store!Finish, Store!Reject, Grows
<1>6. ASSUME NEW m \in Messages, Store!RejectLate(m) PROVE Writes(m)
  BY <1>6 DEF Store!RejectLate, Store!Conversation, Store!Clash, Opens, Keeps, SetStage, Pair
<1>7. ASSUME NEW r \in Requests, Store!Read(r)
      PROVE  UNCHANGED <<Stage, Opened, Kept>> /\ Seen' = [Seen EXCEPT ![r] = View(r)]
  BY <1>7 DEF Store!Read, Store!View, Store!Conversation, View, Pair
<1>8. ASSUME NEW r \in Requests, Store!Reply(r) PROVE Quiet
  BY <1>8, JobsAssumption DEF Store!Reply, Grows
<1>9. CASE Store!Forget
  BY <1>9 DEF Store!Forget, Store!Nothing, Failure
<1> QED  BY <1>1, <1>2, <1>3, <1>4, <1>5, <1>6, <1>7, <1>8, <1>9 DEF StoreStep, Store!Next

(* What is readable stays so while the store grows. *)
LEMMA ReadableGrows ==
  ASSUME Grows, NEW r \in Requests
  PROVE  Readable(r) \subseteq Readable(r)'
<1>1. CASE r \in HistoryRequests
  <2>1. Readable(r) = {m \in Kept : Pair(m) = {r.user1, r.user2}}
    BY <1>1 DEF Readable, View
  <2>2. Readable(r)' = {m \in Kept' : Pair(m) = {r.user1, r.user2}}
    BY <1>1 DEF Readable, View, Pair
  <2> QED  BY <2>1, <2>2 DEF Grows
<1>2. CASE r \notin HistoryRequests
  <2>1. Readable(r) = {u \in UNION Opened : {u, r.usersname} \in Opened}
    BY <1>2 DEF Readable, View
  <2>2. Readable(r)' = {u \in UNION Opened' : {u, r.usersname} \in Opened'}
    BY <1>2 DEF Readable, View
  <2> QED  BY <2>1, <2>2 DEF Grows
<1> QED  BY <1>1, <1>2

LEMMA StoreGrows ==
  ASSUME StoreStep
  PROVE  Grows
BY StoreActions DEF Grows, Opens, Keeps

LEMMA StepStoreInv ==
  ASSUME StoreStep, StoreInv
  PROVE  StoreInv'
<1>0. Grows
  BY StoreGrows
<1>1. \A m \in Kept' : Pair(m) \in Opened'
  BY StoreActions DEF StoreInv, Opens, Keeps, Grows
<1>2. \A m, n \in Kept' : Pair(m) = Pair(n) /\ m.timestamp = n.timestamp => m = n
  BY StoreActions DEF StoreInv, Opens, Keeps
<1>3. \A m \in Messages : Stage'[m] = "done" => m \in Kept'
  <2>1. ASSUME NEW m \in Messages, NEW n \in Messages, SetStage(n, "error"), Stage'[m] = "done"
        PROVE  Stage[m] = "done"
    BY <2>1 DEF SetStage, Stage, Jobs
  <2> QED  BY <1>0, <2>1, StoreActions DEF StoreInv, Grows
<1>4. ASSUME NEW r \in Requests
      PROVE  Seen'[r] = Failure \/ (Seen'[r].result /\ Seen'[r].rows \subseteq Readable(r)')
  <2>1. Readable(r) \subseteq Readable(r)'
    BY <1>0, ReadableGrows
  <2>2. CASE Seen'[r] = Seen[r]
    BY <2>1, <2>2 DEF StoreInv
  <2>3. CASE Seen'[r] = View(r)
    BY <2>1, <2>3 DEF Readable, View
  <2>4. CASE Seen'[r] = Failure
    BY <2>4
  <2>5. Seen = [q \in Requests |-> Seen[q]]
    BY DEF Seen
  <2> QED  BY <2>2, <2>3, <2>4, <2>5, StoreActions
<1> QED  BY <1>1, <1>2, <1>3, <1>4 DEF StoreInv, Pair

LEMMA StoreInvariant == Spec => []StoreInv
<1>1. Init => StoreInv
  <2> SUFFICES ASSUME Init PROVE StoreInv
    OBVIOUS
  <2>1. Kept = {}
    BY DEF Init, Kept, Stored
  <2>2. \A m \in Messages : Stage[m] # "done"
    BY DEF Init, EndpointInit, Stage, Jobs
  <2>3. \A r \in Requests : SeenRows(r) = Failure
    BY InitServiceInv, SeenRowsAre DEF Init, EndpointInit, Workers, Jobs
  <2>4. \A r \in Requests : Shown(r, Failure) = Failure
    BY DEF Shown, Failure
  <2>5. \A r \in Requests : Seen[r] = Failure
    BY <2>3, <2>4 DEF Seen
  <2> QED  BY <2>1, <2>2, <2>5 DEF StoreInv
<1>2. Init => IdleInv
  BY DEF Init, IdleInv
<1> QED  BY <1>1, <1>2, StepIdleInv, StepImplementsStore, StepStoreInv, ServiceInvariant,
            ChatInvariant, PTL DEF Spec

(* No message and no conversation is ever lost again, whatever dies, fails or *)
(* is tried again: INSERTs are the only statements on the two tables.        *)
THEOREM NothingIsLost ==
  Spec => [][ /\ \A m \in Messages : Stored(m) => Stored(m)'
              /\ Opened \subseteq Opened' ]_vars
<1>1. Grows => /\ \A m \in Messages : Stored(m) => Stored(m)'
               /\ Opened \subseteq Opened'
  BY DEF Grows, Kept
<1>2. Init => IdleInv
  BY DEF Init, IdleInv
<1> QED  BY <1>1, <1>2, StepIdleInv, StepImplementsStore, StoreGrows, ServiceInvariant,
            ChatInvariant, PTL DEF Spec

(* Of the messages of one conversation and second, in either direction, one   *)
(* is kept: the PRIMARY KEY (id, timestamp) refuses the others.              *)
THEOREM OneMessageEachSecond ==
  Spec => [](\A m, n \in Messages :
               Stored(m) /\ Stored(n) /\ Pair(m) = Pair(n) /\ m.timestamp = n.timestamp => m = n)
<1>1. StoreInv => \A m, n \in Messages :
        Stored(m) /\ Stored(n) /\ Pair(m) = Pair(n) /\ m.timestamp = n.timestamp => m = n
  BY DEF StoreInv, Kept
<1> QED  BY <1>1, StoreInvariant, PTL

(* A history that was replied shows messages of the two users only, all of    *)
(* them kept for good and as they were sent; a reply that says it failed      *)
(* shows none.                                                               *)
THEOREM HistoriesShowWhatIsKept ==
  Spec => [](\A r \in HistoryRequests : status[r] = "done" =>
               /\ \A m \in replies[r].rows :
                    m \in Messages /\ Stored(m) /\ Pair(m) = {r.user1, r.user2}
               /\ ~ replies[r].result => replies[r].rows = {})
<1>1. ASSUME ServiceInv, StoreInv, NEW r \in HistoryRequests, status[r] = "done"
      PROVE  /\ \A m \in replies[r].rows :
                  m \in Messages /\ Stored(m) /\ Pair(m) = {r.user1, r.user2}
             /\ ~ replies[r].result => replies[r].rows = {}
  <2>1. Seen[r] = replies[r]
    BY <1>1, SeenRowsAre DEF Seen, Shown, Requests
  <2>2. Readable(r) = {m \in Kept : Pair(m) = {r.user1, r.user2}}
    BY DEF Readable, View
  <2> QED  BY <1>1, <2>1, <2>2 DEF StoreInv, Kept, Failure, Requests
<1>2. ServiceInv /\ StoreInv =>
        \A r \in HistoryRequests : status[r] = "done" =>
          /\ \A m \in replies[r].rows :
               m \in Messages /\ Stored(m) /\ Pair(m) = {r.user1, r.user2}
          /\ ~ replies[r].result => replies[r].rows = {}
  BY <1>1
<1> QED  BY <1>2, ServiceInvariant, StoreInvariant, PTL

(* Whoever a contacts list that was replied names has a conversation with the *)
(* user who asked.                                                           *)
THEOREM ContactsShowOpenedConversations ==
  Spec => [](\A r \in ContactsRequests : status[r] = "done" =>
               \A c \in replies[r].rows : {c.name, r.usersname} \in Opened)
<1>1. ASSUME ServiceInv, StoreInv, NEW r \in ContactsRequests, status[r] = "done",
             NEW c \in replies[r].rows
      PROVE  {c.name, r.usersname} \in Opened
  <2>0. r \in Requests /\ r \notin HistoryRequests /\ replies[r] \in Answer
    BY <1>1, JobsAssumption DEF Requests, ServiceInv, LocalsTypeOK
  <2>1. Seen[r] = [replies[r] EXCEPT !.rows = {d.name : d \in @}]
    BY <1>1, <2>0, SeenRowsAre DEF Seen, Shown
  <2>2. Seen[r].rows = {d.name : d \in replies[r].rows}
    BY <2>0, <2>1 DEF Answer
  <2>3. Readable(r) = {u \in UNION Opened : {u, r.usersname} \in Opened}
    BY <2>0 DEF Readable, View
  <2> QED  BY <1>1, <2>0, <2>2, <2>3 DEF StoreInv, Failure
<1>2. ServiceInv /\ StoreInv =>
        \A r \in ContactsRequests : status[r] = "done" =>
          \A c \in replies[r].rows : {c.name, r.usersname} \in Opened
  BY <1>1
<1> QED  BY <1>2, ServiceInvariant, StoreInvariant, PTL

-----------------------------------------------------------------------------
(* What is settled. *)

Settled(j) ==
  status[j] \in {"done", "error"} =>
    /\ status'[j] = status[j]
    /\ j \in Requests => replies'[j] = replies[j]

LEMMA StepsSettled ==
  ASSUME ServiceInv, [Next]_vars, NEW j \in Jobs
  PROVE  Settled(j)
<1> SUFFICES ASSUME status[j] \in {"done", "error"}
             PROVE  status'[j] = status[j] /\ (j \in Requests => replies'[j] = replies[j])
  BY DEF Settled
<1>0. /\ status \in [Jobs -> {"unsent", "queued", "taken", "done", "error"}]
      /\ \A w \in Workers : pc[w] # "idle" => job[w] # j
  BY HandlesPending DEF ServiceInv, EndpointInv, EndpointTypeOK
<1>1. ASSUME NEW w \in Workers, pc[w] # "idle", Fail(w) PROVE status'[j] = status[j]
  BY <1>0, <1>1 DEF Fail, Throw
<1>2. ASSUME NEW w \in Workers, pc[w] # "idle", NotOpened(w) PROVE status'[j] = status[j]
  BY <1>1, <1>2 DEF NotOpened
<1>3. ASSUME NEW k \in Jobs, Arrive(k) PROVE status'[j] = status[j] /\ replies' = replies
  BY <1>0, <1>3 DEF Arrive, Send
<1>4. ASSUME NEW w \in Workers, NEW k \in Jobs, Handle(w, k)
      PROVE  status'[j] = status[j] /\ replies' = replies
  BY <1>0, <1>4 DEF Handle, Receive
<1>5. ASSUME NEW w \in Workers,
             Enter(w) \/ OpenIt(w) \/ CloseIt(w) \/ Leave(w) \/ Select(w) \/ RetireThread(w)
      PROVE  status' = status /\ replies' = replies
  BY <1>5 DEF Enter, EnterMutex, OpenIt, OpenConnection, CloseIt, CloseConnection, Leave, LeaveMutex,
              Select, RetireThread, Retire, endpointVars
<1>6. ASSUME NEW w \in Workers, EnterAbandoned(w) \/ OpenFailed(w)
      PROVE  status'[j] = status[j] /\ replies' = replies
  BY <1>2, <1>6 DEF EnterAbandoned, EnterAbandonedMutex, OpenFailed, OpenConnectionFails, At
<1>7. ASSUME NEW w \in Workers, SaveMessage(w) PROVE status'[j] = status[j] /\ replies' = replies
  BY <1>1, <1>7 DEF SaveMessage, FindChat, CreateNewChatInstance, FindNewChat, InsertMessage,
                    InsertCollides, At
<1>8. ASSUME NEW w \in Workers, Commit(w)
      PROVE  status'[j] = status[j] /\ (j \in Requests => replies'[j] = replies[j])
  BY <1>0, <1>8 DEF Commit, Return, At
<1>9. ASSUME NEW w \in Workers, QueryFailed(w) PROVE status'[j] = status[j] /\ replies' = replies
  <2>1. pc[w] # "idle"
    BY <1>9 DEF QueryFailed, QueryFails, Querying
  <2> QED  BY <1>1, <1>9, <2>1 DEF QueryFailed
<1>10. CASE Crash
  BY <1>0, <1>10 DEF Crash, Restart
<1>11. CASE UNCHANGED vars
  BY <1>11 DEF vars, endpointVars
<1> QED
  BY <1>3, <1>4, <1>5, <1>6, <1>7, <1>8, <1>9, <1>10, <1>11 DEF Next, Step, Fault

(* A message that was acknowledged or given up is never handled again, and a  *)
(* request is answered once: neither a crash of the service nor the retry of   *)
(* another message brings it back.                                           *)
THEOREM SettledForGood == Spec => [][\A j \in Jobs : Settled(j)]_vars
<1>1. ServiceInv /\ [Next]_vars => \A j \in Jobs : Settled(j)
  BY StepsSettled
<1> QED  BY <1>1, ServiceInvariant, PTL DEF Spec
=============================================================================
