--------------------------- MODULE LiveChatProofs ---------------------------
(***************************************************************************)
(* Theorems about LiveChat for any pages, users, contacts, messages and    *)
(* bounds, with proofs checked by TLAPS.                                   *)
(***************************************************************************)
EXTENDS LiveChat, TLAPS

(* hello is called once, when the connection is first there. *)
HelloInv == \A p \in Pages : conn[p] \in {"closed", "connecting"} => hello[p] = "none"

(* The page is in the dictionary of users under the name of its user. *)
Linked(p) == UserOf[p] \in DOMAIN userKey /\ userKey[UserOf[p]] = p

(* The dictionaries, with what is between two halves of Add and Remove: the  *)
(* name that is being removed is still that of the page that was removed.    *)
DictionaryInv ==
    /\ \A u \in DOMAIN userKey : UserOf[userKey[u]] = u
    /\ \A p \in Pages : hello[p] = "adding" => Linked(p)
    /\ \A p \in DOMAIN connectionKey :
          connectionKey[p] = UserOf[p] /\ hello[p] = "done" /\ Linked(p)
    /\ \A p \in Pages, u \in Users : <<p, u>> \in removing =>
          u = UserOf[p] /\ hello[p] = "done" /\ p \notin DOMAIN connectionKey /\ Linked(p)
    /\ \A u \in DOMAIN userKey :
          \/ hello[userKey[u]] = "adding"
          \/ userKey[u] \in DOMAIN connectionKey
          \/ <<userKey[u], u>> \in removing

(* m was written in a conversation of the user of p. *)
Concerns(m, p) == written[m].page \in Pages /\ UserOf[p] \in {WriterOf(m), written[m].to}

Shown(m, p) == Concerns(m, p) /\ (WriterOf(m) # UserOf[p] => m \in published)

Kept(m, p) == Concerns(m, p) /\ m \in published

Addressed(e, p) ==
    /\ written[e.msg].page \in Pages
    /\ e.sender = WriterOf(e.msg) /\ written[e.msg].to = UserOf[p]
    /\ e.msg \in published

(* What a call of sendMessageTo has looked up is still true of its message,  *)
(* whoever has come and gone since.                                          *)
LookedUp(c) ==
    /\ written[c.msg].page \in Pages
    /\ c.user \in {NoUser, WriterOf(c.msg)}
    /\ c.receiver \in Pages => UserOf[c.receiver] = written[c.msg].to
    /\ c.step = "accepted" => c.user = WriterOf(c.msg) /\ c.msg \in published

PublishedInv == \A m \in published : written[m].page \in Pages
DisplayInv == \A p \in Pages : \A m \in display[p] : Shown(m, p)
InboxInv == \A p \in Pages : \A i \in 1 .. Len(inbox[p]) : Addressed(inbox[p][i], p)
CallsInv == \A c \in calls : LookedUp(c)
AnswersInv == \A p \in Pages : \A r \in requests[p] : \A m \in r.answer.messages : Kept(m, p)

MessagesInv == PublishedInv /\ DisplayInv /\ InboxInv /\ CallsInv /\ AnswersInv

LiveChatInv == TypeOK /\ HelloInv /\ DictionaryInv /\ MessagesInv

-----------------------------------------------------------------------------
LEMMA FirstContactType ==
  ASSUME NEW p \in Pages
  PROVE  FirstContact(p) \in Users \cup {NoUser}
BY PagesAssumption DEF FirstContact

LEMMA EmptyIsSeq == \A S : <<>> \in Seq(S)
OBVIOUS

LEMMA HeadAndTail ==
  ASSUME NEW S, NEW s \in Seq(S), s # <<>>
  PROVE  Head(s) \in S /\ Tail(s) \in Seq(S)
OBVIOUS

LEMMA AppendIsSeq ==
  ASSUME NEW S, NEW s \in Seq(S), NEW e \in S
  PROVE  Append(s, e) \in Seq(S)
OBVIOUS

LEMMA ContactsAreUsers ==
  ASSUME NEW p \in Pages
  PROVE  UserOf[p] \in Users
BY DEF Users

LEMMA HistoryType ==
  ASSUME TypeOK, NEW user, NEW other
  PROVE  History(user, other) \in SUBSET Messages
BY DEF TypeOK, History

LEMMA TypeInit ==
  ASSUME Init
  PROVE  TypeOK
<1>1. DOMAIN userKey = {} /\ DOMAIN connectionKey = {}
  BY DEF Init
<1>2. inbox \in [Pages -> Seq(Deliveries)]
  BY DEF Init
<1> QED
  BY <1>1, <1>2, BoundsAssumption DEF Init, TypeOK, Unwritten

LEMMA PageTypes ==
  ASSUME TypeOK, NEW p \in Pages, PageSteps(p)
  PROVE  TypeOK'
<1>1. CASE OpenPage(p)
  BY <1>1, FirstContactType, HistoryType DEF OpenPage, TypeOK, hubVars, busVars, boundVars
<1>2. CASE ConnectionMoves(p)
  <2>1. PICK s \in {"connected", "reconnecting", "disconnected"} :
          /\ conn' = [conn EXCEPT ![p] = s]
          /\ hello' = [hello EXCEPT ![p] = IF conn[p] = "connecting" /\ s = "connected"
                                           THEN "sent" ELSE @]
          /\ known' = IF s = "connected" THEN known \cup {p} ELSE known
          /\ inbox' = IF s = "disconnected" THEN [inbox EXCEPT ![p] = <<>>] ELSE inbox
          /\ IF s = "connected"
             THEN UNCHANGED losses
             ELSE losses < MaxLosses /\ losses' = losses + 1
          /\ UNCHANGED <<selected, showing, display, requests, selects, written, userKey,
                         connectionKey, removing, calls, busVars, recycles>>
    BY <1>2 DEF ConnectionMoves
  <2>2. losses' \in 0 .. MaxLosses
    BY <2>1, BoundsAssumption DEF TypeOK
  <2>3. inbox' \in [Pages -> Seq(Deliveries)]
    BY <2>1, EmptyIsSeq DEF TypeOK
  <2> QED  BY <2>1, <2>2, <2>3 DEF TypeOK, busVars
<1>3. CASE ReceiveMessage(p)
  <2>1. Head(inbox[p]) \in Deliveries
        /\ Tail(inbox[p]) \in Seq(Deliveries)
    BY <1>3, HeadAndTail DEF ReceiveMessage, TypeOK
  <2>2. Head(inbox[p]).msg \in Messages
    BY <2>1 DEF Deliveries
  <2> QED  BY <1>3, <2>1, <2>2 DEF ReceiveMessage, TypeOK, hubVars, busVars, boundVars
<1>4. ASSUME NEW m \in Messages, SendMessage(p, m) PROVE TypeOK'
  <2>1. losses' \in 0 .. MaxLosses
    BY <1>4, BoundsAssumption DEF SendMessage, TypeOK
  <2>2. calls' \subseteq Calls
    BY <1>4 DEF SendMessage, TypeOK, Calls
  <2> QED  BY <1>4, <2>1, <2>2 DEF SendMessage, TypeOK, busVars
<1>5. ASSUME NEW user \in Users, SelectChat(p, user) PROVE TypeOK'
  <2>1. selects' \in [Pages -> 0 .. MaxSelects] /\ selects'[p] \in 1 .. MaxSelects
    BY <1>5, BoundsAssumption DEF SelectChat, TypeOK
  <2>2. requests' \in [Pages -> SUBSET Requests]
    BY <1>5, <2>1 DEF SelectChat, TypeOK, Requests, NoAnswer
  <2> QED  BY <1>5, <2>1, <2>2 DEF SelectChat, TypeOK, hubVars, busVars, boundVars
<1>6. ASSUME NEW r \in requests[p], Conversation(p, r) PROVE TypeOK'
  <2>1. requests' \in [Pages -> SUBSET Requests]
    <3>1. PICK a \in {[showing |-> r.other, messages |-> History(UserOf[p], r.other)],
                      [showing |-> LogInPage, messages |-> {}]} :
            requests' = [requests EXCEPT ![p] = (@ \ {r}) \cup {[r EXCEPT !.answer = a]}]
      BY <1>6 DEF Conversation
    <3>2. r \in Requests
      BY <1>6 DEF TypeOK
    <3>3. a \in [showing : Users \cup {NoUser, LogInPage}, messages : SUBSET Messages]
      BY <3>2, HistoryType DEF Requests
    <3>4. [r EXCEPT !.answer = a] \in Requests
      BY <3>2, <3>3 DEF Requests
    <3> QED  BY <3>1, <3>4 DEF TypeOK
  <2> QED  BY <1>6, <2>1 DEF Conversation, TypeOK, hubVars, busVars, boundVars
<1>7. ASSUME NEW r \in requests[p], ConversationArrives(p, r) PROVE TypeOK'
  <2>1. r.answer.showing \in Users \cup {NoUser, LogInPage} /\ r.answer.messages \in SUBSET Messages
    BY <1>7 DEF TypeOK, Requests
  <2>2. requests' \in [Pages -> SUBSET Requests]
    BY <1>7 DEF ConversationArrives, TypeOK
  <2> QED  BY <1>7, <2>1, <2>2 DEF ConversationArrives, TypeOK, hubVars, busVars, boundVars
<1> QED
  BY <1>1, <1>2, <1>3, <1>4, <1>5, <1>6, <1>7 DEF PageSteps

LEMMA HubTypes ==
  ASSUME TypeOK, HubSteps
  PROVE  TypeOK'
<1>1. ASSUME NEW p \in Pages, AddUser(p) PROVE TypeOK'
  <2>a. CASE UserOf[p] \in DOMAIN userKey
    BY <1>1, <2>a DEF AddUser, TypeOK, busVars, boundVars
  <2>b. CASE UserOf[p] \notin DOMAIN userKey
    <3>1. /\ hello' = [hello EXCEPT ![p] = "adding"] /\ userKey' = With(userKey, UserOf[p], p)
      BY <1>1, <2>b DEF AddUser
    <3>2. DOMAIN userKey' \subseteq Users /\ \A u \in DOMAIN userKey' : userKey'[u] \in Pages
      BY <3>1, ContactsAreUsers DEF TypeOK, With
    <3> QED  BY <1>1, <3>1, <3>2 DEF AddUser, TypeOK, busVars, boundVars
  <2> QED  BY <2>a, <2>b
<1>2. ASSUME NEW p \in Pages, AddConnection(p) PROVE TypeOK'
  BY <1>2, ContactsAreUsers DEF AddConnection, TypeOK, With, busVars, boundVars
<1>3. ASSUME NEW p \in Pages, RemoveConnection(p) PROVE TypeOK'
  <2>1. /\ DOMAIN connectionKey' \subseteq Pages
        /\ \A q \in DOMAIN connectionKey' : connectionKey'[q] \in Users
    BY <1>3 DEF RemoveConnection, TypeOK, Without
  <2>2. removing' \subseteq (Pages \X Users)
    BY <1>3 DEF RemoveConnection, TypeOK
  <2> QED  BY <1>3, <2>1, <2>2 DEF RemoveConnection, TypeOK, pageVars, busVars, boundVars
<1>4. ASSUME NEW p \in Pages, NEW user \in Users, RemoveUser(p, user) PROVE TypeOK'
  BY <1>4 DEF RemoveUser, TypeOK, Without, pageVars, busVars, boundVars
<1>5. ASSUME NEW c \in calls, LookUp(c) PROVE TypeOK'
  <2>1. calls' \subseteq Calls
    <3>1. PICK u, q :
            /\ u = (IF written[c.msg].page \in DOMAIN connectionKey
                    THEN connectionKey[written[c.msg].page] ELSE NoUser)
            /\ q = (IF written[c.msg].to \in DOMAIN userKey
                    THEN userKey[written[c.msg].to] ELSE NoPage)
      OBVIOUS
    <3>2. u \in Users \cup {NoUser} /\ q \in Pages \cup {NoPage}
      BY <3>1 DEF TypeOK
    <3>3. calls' \subseteq calls \cup {[c EXCEPT !.step = "lookedUp", !.user = u, !.receiver = q]}
      BY <1>5, <3>1 DEF LookUp
    <3>4. [c EXCEPT !.step = "lookedUp", !.user = u, !.receiver = q] \in Calls
      <4>1. c \in Calls
        BY DEF TypeOK
      <4> QED  BY <3>2, <4>1 DEF Calls
    <3> QED  BY <3>3, <3>4 DEF TypeOK
  <2> QED  BY <1>5, <2>1 DEF LookUp, TypeOK, pageVars, busVars, boundVars
<1>6. ASSUME NEW c \in calls, SendChatMessage(c) PROVE TypeOK'
  <2>1. calls' \subseteq Calls /\ published' \subseteq Messages /\ published \subseteq published'
    BY <1>6 DEF SendChatMessage, TypeOK, Calls
  <2> QED  BY <1>6, <2>1 DEF SendChatMessage, TypeOK, pageVars, boundVars
<1>7. ASSUME NEW c \in calls, CallReceiver(c) PROVE TypeOK'
  <2>1. [msg |-> c.msg, sender |-> c.user] \in Deliveries
    BY <1>7 DEF TypeOK, Calls, Deliveries
  <2>2. inbox' \in [Pages -> Seq(Deliveries)]
    <3>1. CASE UNCHANGED inbox
      BY <3>1 DEF TypeOK
    <3>2. CASE c.receiver # NoPage
      <4>1. c.receiver \in Pages
        BY <3>2 DEF TypeOK, Calls
      <4>2. Append(inbox[c.receiver], [msg |-> c.msg, sender |-> c.user]) \in Seq(Deliveries)
        BY <2>1, <4>1, AppendIsSeq DEF TypeOK
      <4> QED  BY <1>7, <4>1, <4>2 DEF CallReceiver, TypeOK
    <3> QED  BY <1>7, <3>1, <3>2 DEF CallReceiver
  <2> QED  BY <1>7, <2>2 DEF CallReceiver, TypeOK, pageVars, busVars, boundVars
<1> QED
  BY <1>1, <1>2, <1>3, <1>4, <1>5, <1>6, <1>7 DEF HubSteps

LEMMA TypeNext ==
  ASSUME TypeOK, [Next]_vars
  PROVE  TypeOK'
<1>1. ASSUME NEW m \in Messages, Store(m) PROVE TypeOK'
  BY <1>1 DEF Store, TypeOK, pageVars, hubVars, boundVars
<1>2. CASE Recycle
  <2>1. DOMAIN userKey' = {} /\ DOMAIN connectionKey' = {}
    BY <1>2 DEF Recycle
  <2>2. recycles' \in 0 .. MaxRecycles
    BY <1>2, BoundsAssumption DEF Recycle, TypeOK
  <2>3. requests' \in [Pages -> SUBSET Requests]
    BY <1>2 DEF Recycle, TypeOK
  <2>4. conn' \in [Pages -> {"closed", "connecting", "connected", "reconnecting", "disconnected"}]
    BY <1>2 DEF Recycle, TypeOK
  <2>5. hello' \in [Pages -> {"none", "sent", "adding", "done"}]
    BY <1>2 DEF Recycle, TypeOK
  <2> QED  BY <1>2, <2>1, <2>2, <2>3, <2>4, <2>5 DEF Recycle, TypeOK, busVars
<1>3. CASE UNCHANGED vars
  BY <1>3 DEF TypeOK, vars, pageVars, hubVars, busVars, boundVars
<1> QED
  BY <1>1, <1>2, <1>3, PageTypes, HubTypes DEF Next

(* Every variable of the model keeps its type. *)
THEOREM LiveChatTypeCorrect == Spec => []TypeOK
<1>1. Init => TypeOK
  BY TypeInit
<1>2. TypeOK /\ [Next]_vars => TypeOK'
  BY TypeNext
<1> QED
  BY <1>1, <1>2, PTL DEF Spec

-----------------------------------------------------------------------------
LEMMA HelloNext ==
  ASSUME TypeOK, HelloInv, [Next]_vars
  PROVE  HelloInv'
<1>1. ASSUME NEW p \in Pages, OpenPage(p) PROVE HelloInv'
  BY <1>1 DEF OpenPage, HelloInv, TypeOK
<1>2. ASSUME NEW p \in Pages, ConnectionMoves(p) PROVE HelloInv'
  <2>1. PICK s \in {"connected", "reconnecting", "disconnected"} :
          /\ conn' = [conn EXCEPT ![p] = s]
          /\ hello' = [hello EXCEPT ![p] = IF conn[p] = "connecting" /\ s = "connected"
                                           THEN "sent" ELSE @]
    BY <1>2 DEF ConnectionMoves
  <2>2. ASSUME NEW q \in Pages, q # p PROVE conn'[q] = conn[q] /\ hello'[q] = hello[q]
    BY <2>1, <2>2 DEF TypeOK
  <2>3. conn'[p] = s
    BY <2>1 DEF TypeOK
  <2> QED  BY <2>2, <2>3 DEF HelloInv
<1>3. CASE hello' = hello /\ conn' = conn
  BY <1>3 DEF HelloInv
<1>4. ASSUME NEW p \in Pages, AddUser(p) PROVE HelloInv'
  <2>1. hello[p] = "sent" /\ conn' = conn /\ \A q \in Pages \ {p} : hello'[q] = hello[q]
    BY <1>4 DEF AddUser, TypeOK
  <2> QED  BY <2>1 DEF HelloInv
<1>5. ASSUME NEW p \in Pages, AddConnection(p) PROVE HelloInv'
  BY <1>5 DEF AddConnection, HelloInv, TypeOK
<1>6. CASE Recycle
  <2>1. ASSUME NEW p \in Pages, conn'[p] \in {"closed", "connecting"}
        PROVE  conn'[p] = conn[p] /\ hello'[p] = IF hello[p] \in {"sent", "adding"} THEN "done" ELSE hello[p]
    BY <1>6, <2>1 DEF Recycle
  <2> QED  BY <2>1 DEF HelloInv
<1>7. ASSUME NEW p \in Pages, PageSteps(p) PROVE HelloInv'
  BY <1>1, <1>2, <1>3, <1>7
     DEF PageSteps, ReceiveMessage, SendMessage, SelectChat, Conversation, ConversationArrives
<1>8. CASE HubSteps
  BY <1>3, <1>4, <1>5, <1>8
     DEF HubSteps, RemoveConnection, RemoveUser, LookUp, SendChatMessage, CallReceiver, pageVars
<1> QED
  BY <1>3, <1>6, <1>7, <1>8 DEF Next, Store, vars, pageVars

LEMMA DictionaryStays ==
  ASSUME DictionaryInv, hello' = hello, userKey' = userKey, connectionKey' = connectionKey,
         removing' = removing
  PROVE  DictionaryInv'
BY DEF DictionaryInv, Linked

(* hello is called by a page that nothing in the dictionaries is about.      *)
LEMMA HelloIsCalled ==
  ASSUME TypeOK, HelloInv, DictionaryInv, NEW p \in Pages, ConnectionMoves(p)
  PROVE  DictionaryInv'
<1>1. hello' = hello \/ (conn[p] = "connecting" /\ hello' = [hello EXCEPT ![p] = "sent"])
  <2>1. PICK s \in {"connected", "reconnecting", "disconnected"} :
          hello' = [hello EXCEPT ![p] = IF conn[p] = "connecting" /\ s = "connected" THEN "sent" ELSE hello[p]]
    BY DEF ConnectionMoves
  <2>2. CASE conn[p] = "connecting" /\ s = "connected"
    BY <2>1, <2>2
  <2>3. CASE ~(conn[p] = "connecting" /\ s = "connected")
    <3>1. hello' = [hello EXCEPT ![p] = hello[p]] /\ hello \in [Pages -> {"none", "sent", "adding", "done"}]
      BY <2>1, <2>3 DEF TypeOK
    <3> QED  BY <3>1
  <2> QED  BY <2>2, <2>3
<1>2. userKey' = userKey /\ connectionKey' = connectionKey /\ removing' = removing
  BY DEF ConnectionMoves
<1>3. CASE conn[p] = "connecting" /\ hello' = [hello EXCEPT ![p] = "sent"]
  <2>1. hello[p] = "none" /\ hello'[p] = "sent" /\ \A q \in Pages \ {p} : hello'[q] = hello[q]
    BY <1>3 DEF HelloInv, TypeOK
  <2> QED  BY <1>2, <2>1 DEF DictionaryInv, Linked, TypeOK
<1> QED
  BY <1>1, <1>2, <1>3, DictionaryStays

LEMMA UserIsAdded ==
  ASSUME TypeOK, DictionaryInv, NEW p \in Pages, AddUser(p)
  PROVE  DictionaryInv'
<1>1. hello[p] = "sent" /\ connectionKey' = connectionKey /\ removing' = removing
  BY DEF AddUser
<1>2. CASE UserOf[p] \in DOMAIN userKey
  <2>1. userKey' = userKey /\ hello'[p] = "done" /\ \A q \in Pages \ {p} : hello'[q] = hello[q]
    BY <1>2 DEF AddUser, TypeOK
  <2> QED  BY <1>1, <2>1 DEF DictionaryInv, Linked, TypeOK
<1>3. CASE UserOf[p] \notin DOMAIN userKey
  <2>1. userKey' = With(userKey, UserOf[p], p) /\ hello' = [hello EXCEPT ![p] = "adding"]
    BY <1>3 DEF AddUser
  <2>2. hello'[p] = "adding" /\ \A q \in Pages \ {p} : hello'[q] = hello[q]
    BY <2>1 DEF TypeOK
  <2>3. /\ DOMAIN userKey' = DOMAIN userKey \cup {UserOf[p]} /\ userKey'[UserOf[p]] = p
        /\ \A u \in DOMAIN userKey : userKey'[u] = userKey[u]
    BY <1>3, <2>1 DEF With
  <2>4. \A q \in Pages : Linked(q) => Linked(q)'
    BY <2>3 DEF Linked
  <2>5. Linked(p)'
    BY <2>3 DEF Linked
  <2> QED  BY <1>1, <2>2, <2>3, <2>4, <2>5 DEF DictionaryInv, TypeOK
<1> QED
  BY <1>2, <1>3

LEMMA ConnectionIsAdded ==
  ASSUME TypeOK, DictionaryInv, NEW p \in Pages, AddConnection(p)
  PROVE  DictionaryInv'
<1>1. /\ hello[p] = "adding" /\ hello'[p] = "done" /\ \A q \in Pages \ {p} : hello'[q] = hello[q]
      /\ userKey' = userKey /\ removing' = removing
  BY DEF AddConnection, TypeOK
<1>2. p \notin DOMAIN connectionKey
  BY <1>1 DEF DictionaryInv
<1>3. connectionKey' = With(connectionKey, p, UserOf[p])
  BY <1>2 DEF AddConnection
<1>4. /\ DOMAIN connectionKey' = DOMAIN connectionKey \cup {p} /\ connectionKey'[p] = UserOf[p]
      /\ \A q \in DOMAIN connectionKey : connectionKey'[q] = connectionKey[q]
  BY <1>2, <1>3 DEF With
<1>5. \A q \in Pages : Linked(q) = Linked(q)'
  BY <1>1 DEF Linked
<1> QED
  BY <1>1, <1>4, <1>5 DEF DictionaryInv, TypeOK

LEMMA ConnectionIsRemoved ==
  ASSUME TypeOK, DictionaryInv, NEW p \in Pages, RemoveConnection(p)
  PROVE  DictionaryInv'
<1>1. hello' = hello /\ userKey' = userKey
  BY DEF RemoveConnection, pageVars
<1>2. CASE p \notin DOMAIN connectionKey
  BY <1>1, <1>2, DictionaryStays DEF RemoveConnection
<1>3. CASE p \in DOMAIN connectionKey
  <2>1. /\ connectionKey' = Without(connectionKey, p)
        /\ removing' = removing \cup {<<p, UserOf[p]>>}
        /\ Linked(p) /\ hello[p] = "done"
    BY <1>3 DEF RemoveConnection, DictionaryInv
  <2>2. /\ DOMAIN connectionKey' = DOMAIN connectionKey \ {p}
        /\ \A q \in DOMAIN connectionKey' : connectionKey'[q] = connectionKey[q]
    BY <2>1 DEF Without
  <2>3. \A q \in Pages : Linked(q) = Linked(q)'
    BY <1>1 DEF Linked
  <2>4. \A q \in Pages, u \in Users : <<q, u>> \in removing' => <<q, u>> \in removing \/ (q = p /\ u = UserOf[p])
    BY <2>1
  <2>5. \A u \in DOMAIN userKey : userKey[u] = p => <<userKey[u], u>> \in removing'
    BY <2>1 DEF DictionaryInv
  <2>6. removing \subseteq removing'
    BY <2>1
  <2> QED  BY <1>1, <2>1, <2>2, <2>3, <2>4, <2>5, <2>6 DEF DictionaryInv, TypeOK
<1> QED
  BY <1>2, <1>3

(* No other page can have taken the name in the meantime.                    *)
LEMMA UserIsRemoved ==
  ASSUME TypeOK, DictionaryInv, NEW p \in Pages, NEW user \in Users, RemoveUser(p, user)
  PROVE  DictionaryInv'
<1>1. /\ hello' = hello /\ connectionKey' = connectionKey
      /\ <<p, user>> \in removing /\ removing' = removing \ {<<p, user>>}
      /\ userKey' = Without(userKey, user)
  BY DEF RemoveUser, pageVars
<1>2. user = UserOf[p] /\ hello[p] = "done" /\ p \notin DOMAIN connectionKey /\ Linked(p)
  BY <1>1 DEF DictionaryInv
<1>3. /\ DOMAIN userKey' = DOMAIN userKey \ {user}
      /\ \A u \in DOMAIN userKey' : userKey'[u] = userKey[u]
  BY <1>1 DEF Without
<1>4. \A q \in Pages : Linked(q) /\ q # p => Linked(q)'
  BY <1>2, <1>3 DEF Linked
<1>5. \A q \in Pages, u \in Users : <<q, u>> \in removing' => <<q, u>> \in removing /\ q # p
  BY <1>1, <1>2 DEF DictionaryInv
<1>6. \A u \in DOMAIN userKey' : userKey[u] # p
  BY <1>2, <1>3 DEF DictionaryInv
<1>7. \A u \in DOMAIN userKey' : <<userKey[u], u>> \in removing => <<userKey[u], u>> \in removing'
  BY <1>1, <1>6
<1> QED
  BY <1>1, <1>2, <1>3, <1>4, <1>5, <1>6, <1>7 DEF DictionaryInv, TypeOK

LEMMA DictionariesAreLost ==
  ASSUME TypeOK, Recycle
  PROVE  DictionaryInv'
<1>1. DOMAIN userKey' = {} /\ DOMAIN connectionKey' = {} /\ removing' = {}
  BY DEF Recycle
<1>2. \A p \in Pages : hello'[p] # "adding"
  BY DEF Recycle
<1> QED
  BY <1>1, <1>2 DEF DictionaryInv

LEMMA DictionaryNext ==
  ASSUME TypeOK, HelloInv, DictionaryInv, [Next]_vars
  PROVE  DictionaryInv'
<1>1. ASSUME NEW p \in Pages, PageSteps(p) PROVE DictionaryInv'
  BY <1>1, HelloIsCalled, DictionaryStays
     DEF PageSteps, OpenPage, ReceiveMessage, SendMessage, SelectChat, Conversation, ConversationArrives, hubVars
<1>2. CASE HubSteps
  BY <1>2, UserIsAdded, ConnectionIsAdded, ConnectionIsRemoved, UserIsRemoved, DictionaryStays
     DEF HubSteps, LookUp, SendChatMessage, CallReceiver, pageVars
<1>3. ASSUME NEW m \in Messages, Store(m) PROVE DictionaryInv'
  BY <1>3, DictionaryStays DEF Store, pageVars, hubVars
<1> QED
  BY <1>1, <1>2, <1>3, DictionariesAreLost, DictionaryStays DEF Next, vars, pageVars, hubVars

-----------------------------------------------------------------------------
(* A message is written once and what is published stays published.          *)
WrittenStays ==
    /\ \A m \in Messages : written[m].page \in Pages => written'[m] = written[m]
    /\ published \subseteq published'

LEMMA WhatIsTrueStays ==
  ASSUME WrittenStays
  PROVE  /\ \A m \in Messages, p \in Pages : Shown(m, p) => Shown(m, p)'
         /\ \A m \in Messages, p \in Pages : Kept(m, p) => Kept(m, p)'
         /\ \A e \in Deliveries, p \in Pages : Addressed(e, p) => Addressed(e, p)'
         /\ \A c \in Calls : LookedUp(c) => LookedUp(c)'
<1>1. \A m \in Messages : written[m].page \in Pages => WriterOf(m)' = WriterOf(m)
  BY DEF WrittenStays, WriterOf
<1>2. \A m \in Messages, p \in Pages : Concerns(m, p) => Concerns(m, p)'
  BY <1>1 DEF WrittenStays, Concerns
<1>3. \A m \in Messages, p \in Pages : Shown(m, p) => Shown(m, p)'
  BY <1>1, <1>2 DEF WrittenStays, Shown, Concerns
<1>4. \A m \in Messages, p \in Pages : Kept(m, p) => Kept(m, p)'
  BY <1>2 DEF WrittenStays, Kept
<1>5. \A e \in Deliveries, p \in Pages : Addressed(e, p) => Addressed(e, p)'
  BY <1>1 DEF WrittenStays, Addressed, Deliveries
<1>6. \A c \in Calls : LookedUp(c) => LookedUp(c)'
  BY <1>1 DEF WrittenStays, LookedUp, Calls
<1> QED
  BY <1>3, <1>4, <1>5, <1>6

LEMMA WrittenNext ==
  ASSUME TypeOK, [Next]_vars
  PROVE  WrittenStays
<1>1. ASSUME NEW p \in Pages, NEW m \in Messages, SendMessage(p, m) PROVE WrittenStays
  BY <1>1, PagesAssumption DEF SendMessage, TypeOK, Unwritten, WrittenStays, busVars
<1>2. CASE written' = written /\ published \subseteq published'
  BY <1>2 DEF WrittenStays
<1>3. ASSUME NEW p \in Pages, PageSteps(p) PROVE WrittenStays
  BY <1>1, <1>2, <1>3
     DEF PageSteps, OpenPage, ConnectionMoves, ReceiveMessage, SelectChat, Conversation,
         ConversationArrives, busVars
<1>4. ASSUME NEW c \in calls, SendChatMessage(c) PROVE WrittenStays
  BY <1>2, <1>4 DEF SendChatMessage
<1>5. CASE HubSteps
  BY <1>2, <1>4, <1>5
     DEF HubSteps, AddUser, AddConnection, RemoveConnection, RemoveUser, LookUp, CallReceiver, busVars
<1> QED
  BY <1>2, <1>3, <1>5 DEF Next, Store, Recycle, vars, busVars

(* The parts of MessagesInv that a step leaves alone.                        *)
LEMMA DisplayStays ==
  ASSUME TypeOK, DisplayInv, WrittenStays, display' = display
  PROVE  DisplayInv'
BY WhatIsTrueStays DEF DisplayInv, TypeOK

LEMMA InboxStays ==
  ASSUME TypeOK, InboxInv, WrittenStays, inbox' = inbox
  PROVE  InboxInv'
<1>1. \A p \in Pages : \A i \in 1 .. Len(inbox[p]) : inbox[p][i] \in Deliveries
  BY DEF TypeOK
<1> QED
  BY <1>1, WhatIsTrueStays DEF InboxInv

LEMMA CallsStay ==
  ASSUME TypeOK, CallsInv, WrittenStays, calls' \subseteq calls
  PROVE  CallsInv'
BY WhatIsTrueStays DEF CallsInv, TypeOK

LEMMA AnswersStay ==
  ASSUME TypeOK, AnswersInv, WrittenStays, \A p \in Pages : requests'[p] \subseteq requests[p]
  PROVE  AnswersInv'
<1>1. \A p \in Pages : \A r \in requests[p] : r.answer.messages \subseteq Messages
  BY DEF TypeOK, Requests
<1> QED
  BY <1>1, WhatIsTrueStays DEF AnswersInv

LEMMA PublishedStays ==
  ASSUME TypeOK, PublishedInv, WrittenStays, published' = published
  PROVE  PublishedInv'
BY DEF PublishedInv, TypeOK, WrittenStays

(* A conversation that is fetched has been published, and is its user's.     *)
LEMMA HistoryIsKept ==
  ASSUME TypeOK, MessagesInv, NEW p \in Pages, NEW other, NEW m \in History(UserOf[p], other)
  PROVE  Kept(m, p)
BY DEF TypeOK, MessagesInv, PublishedInv, History, Kept, Concerns

(* display: opening a page, receiving, sending, and a conversation arriving. *)
LEMMA DisplayNext ==
  ASSUME LiveChatInv, WrittenStays, [Next]_vars
  PROVE  DisplayInv'
<1> USE DEF LiveChatInv, MessagesInv
<1>1. ASSUME display' = display PROVE DisplayInv'
  BY <1>1, DisplayStays
<1>2. ASSUME NEW p \in Pages, \A q \in Pages : q # p => display'[q] = display[q],
             \A m \in display'[p] : Shown(m, p)'
      PROVE  DisplayInv'
  BY <1>2, WhatIsTrueStays DEF DisplayInv, TypeOK
<1>3. ASSUME NEW p \in Pages, NEW m \in Messages, Kept(m, p) PROVE Shown(m, p)'
  BY <1>3, WhatIsTrueStays DEF Kept, Shown
<1>4. ASSUME NEW p \in Pages, OpenPage(p) PROVE DisplayInv'
  <2>1. \A m \in display'[p] : Kept(m, p) /\ m \in Messages
    BY <1>4, HistoryIsKept, HistoryType DEF OpenPage, TypeOK
  <2>2. \A q \in Pages : q # p => display'[q] = display[q]
    BY <1>4 DEF OpenPage, TypeOK
  <2> QED  BY <1>2, <1>3, <2>1, <2>2
<1>5. ASSUME NEW p \in Pages, ReceiveMessage(p) PROVE DisplayInv'
  <2>1. PICK e \in Deliveries : e = Head(inbox[p]) /\ Addressed(e, p)
    BY <1>5 DEF ReceiveMessage, TypeOK, InboxInv
  <2>2. e.msg \in Messages /\ Shown(e.msg, p)
    BY <2>1 DEF Deliveries, Addressed, Shown, Concerns
  <2>3. /\ display'[p] \subseteq display[p] \cup {e.msg}
        /\ \A q \in Pages : q # p => display'[q] = display[q]
    BY <1>5, <2>1 DEF ReceiveMessage, TypeOK
  <2>4. \A m \in display'[p] : m \in Messages /\ Shown(m, p)
    BY <2>2, <2>3 DEF DisplayInv, TypeOK
  <2> QED  BY <1>2, <2>3, <2>4, WhatIsTrueStays
<1>6. ASSUME NEW p \in Pages, NEW m \in Messages, SendMessage(p, m) PROVE DisplayInv'
  <2>1. written'[m] = [page |-> p, to |-> selected[p]]
    BY <1>6 DEF SendMessage, TypeOK
  <2>2. Shown(m, p)'
    BY <2>1 DEF Shown, Concerns, WriterOf
  <2>3. display'[p] = display[p] \cup {m} /\ \A q \in Pages : q # p => display'[q] = display[q]
    BY <1>6 DEF SendMessage, TypeOK
  <2>4. \A n \in display[p] : Shown(n, p)'
    BY WhatIsTrueStays DEF DisplayInv, TypeOK
  <2> QED  BY <1>2, <2>2, <2>3, <2>4
<1>7. ASSUME NEW p \in Pages, NEW r \in requests[p], ConversationArrives(p, r) PROVE DisplayInv'
  <2>1. \A m \in r.answer.messages : Kept(m, p) /\ m \in Messages
    BY DEF AnswersInv, TypeOK, Requests
  <2>2. display'[p] = r.answer.messages /\ \A q \in Pages : q # p => display'[q] = display[q]
    BY <1>7 DEF ConversationArrives, TypeOK
  <2> QED  BY <1>2, <1>3, <2>1, <2>2
<1>8. ASSUME NEW p \in Pages, PageSteps(p) PROVE DisplayInv'
  BY <1>1, <1>4, <1>5, <1>6, <1>7, <1>8 DEF PageSteps, ConnectionMoves, SelectChat, Conversation
<1>9. CASE HubSteps
  BY <1>1, <1>9
     DEF HubSteps, AddUser, AddConnection, RemoveConnection, RemoveUser, LookUp, SendChatMessage,
         CallReceiver, pageVars
<1> QED
  BY <1>1, <1>8, <1>9 DEF Next, Store, Recycle, vars, pageVars

(* inbox: it is filled by a call of the receiver and emptied by the page.    *)
LEMMA InboxNext ==
  ASSUME LiveChatInv, WrittenStays, [Next]_vars
  PROVE  InboxInv'
<1> USE DEF LiveChatInv, MessagesInv
<1>1. ASSUME inbox' = inbox PROVE InboxInv'
  BY <1>1, InboxStays
<1>2. \A p \in Pages : \A i \in 1 .. Len(inbox[p]) : inbox[p][i] \in Deliveries /\ Addressed(inbox[p][i], p)
  BY DEF InboxInv, TypeOK
<1>3. ASSUME \A p \in Pages : \A i \in 1 .. Len(inbox'[p]) :
                \E e \in Deliveries : e = inbox'[p][i] /\ Addressed(e, p)
      PROVE  InboxInv'
  BY <1>3, WhatIsTrueStays DEF InboxInv
<1>4. ASSUME NEW p \in Pages, ConnectionMoves(p) PROVE InboxInv'
  <2>1. inbox' = inbox \/ inbox' = [inbox EXCEPT ![p] = <<>>]
    BY <1>4 DEF ConnectionMoves
  <2>2. ASSUME inbox' = [inbox EXCEPT ![p] = <<>>] PROVE InboxInv'
    <3>1. inbox'[p] = <<>> /\ \A q \in Pages : q # p => inbox'[q] = inbox[q]
      BY <2>2 DEF TypeOK
    <3> QED  BY <1>2, <1>3, <3>1
  <2> QED  BY <1>1, <2>1, <2>2
<1>5. ASSUME NEW p \in Pages, ReceiveMessage(p) PROVE InboxInv'
  <2>1. /\ inbox'[p] = Tail(inbox[p]) /\ inbox[p] # <<>> /\ inbox[p] \in Seq(Deliveries)
        /\ \A q \in Pages : q # p => inbox'[q] = inbox[q]
    BY <1>5 DEF ReceiveMessage, TypeOK
  <2>2. \A i \in 1 .. Len(inbox'[p]) : i + 1 \in 1 .. Len(inbox[p]) /\ inbox'[p][i] = inbox[p][i + 1]
    BY <2>1
  <2> QED  BY <1>2, <1>3, <2>1, <2>2
<1>6. ASSUME NEW c \in calls, CallReceiver(c) PROVE InboxInv'
  <2>1. c \in Calls /\ LookedUp(c) /\ c.step = "accepted"
    BY <1>6 DEF CallReceiver, TypeOK, CallsInv
  <2>2. PICK e : e = [msg |-> c.msg, sender |-> c.user]
    OBVIOUS
  <2>3. e \in Deliveries /\ (c.receiver \in Pages => Addressed(e, c.receiver))
    BY <2>1, <2>2 DEF Calls, Deliveries, LookedUp, Addressed
  <2>4. ASSUME c.receiver \in Pages, inbox' = [inbox EXCEPT ![c.receiver] = Append(@, e)]
        PROVE  InboxInv'
    <3>1. PICK r \in Pages : r = c.receiver
      BY <2>4
    <3>2. /\ inbox'[r] = Append(inbox[r], e) /\ inbox[r] \in Seq(Deliveries)
          /\ \A q \in Pages : q # r => inbox'[q] = inbox[q]
      BY <2>4, <3>1 DEF TypeOK
    <3>3. \A i \in 1 .. Len(inbox'[r]) :
             inbox'[r][i] = e \/ (i \in 1 .. Len(inbox[r]) /\ inbox'[r][i] = inbox[r][i])
      BY <2>3, <3>2
    <3>4. \A i \in 1 .. Len(inbox'[r]) : \E x \in Deliveries : x = inbox'[r][i] /\ Addressed(x, r)
      BY <1>2, <2>3, <3>1, <3>3
    <3>5. \A q \in Pages \ {r} : \A i \in 1 .. Len(inbox'[q]) :
             \E x \in Deliveries : x = inbox'[q][i] /\ Addressed(x, q)
      BY <1>2, <3>2
    <3> QED  BY <1>3, <3>4, <3>5
  <2> QED  BY <1>1, <1>6, <2>1, <2>2, <2>4 DEF CallReceiver, Calls
<1>7. ASSUME NEW p \in Pages, PageSteps(p) PROVE InboxInv'
  BY <1>1, <1>4, <1>5, <1>7
     DEF PageSteps, OpenPage, SendMessage, SelectChat, Conversation, ConversationArrives
<1>8. CASE HubSteps
  BY <1>1, <1>6, <1>8
     DEF HubSteps, AddUser, AddConnection, RemoveConnection, RemoveUser, LookUp, SendChatMessage
<1> QED
  BY <1>1, <1>7, <1>8 DEF Next, Store, Recycle, vars

(* calls and published: sendMessageTo.                                       *)
LEMMA CallsNext ==
  ASSUME LiveChatInv, WrittenStays, [Next]_vars
  PROVE  CallsInv' /\ PublishedInv'
<1> USE DEF LiveChatInv, MessagesInv
<1>1. ASSUME calls' \subseteq calls, published' = published PROVE CallsInv' /\ PublishedInv'
  BY <1>1, CallsStay, PublishedStays
<1>2. ASSUME NEW d, calls' \subseteq calls \cup {d}, LookedUp(d)' PROVE CallsInv'
  BY <1>2, WhatIsTrueStays DEF CallsInv, TypeOK
<1>3. ASSUME NEW p \in Pages, NEW m \in Messages, SendMessage(p, m) PROVE CallsInv' /\ PublishedInv'
  <2>1. written'[m].page \in Pages
    BY <1>3 DEF SendMessage, TypeOK
  <2>2. PICK d : d = [msg |-> m, step |-> "sent", user |-> NoUser, receiver |-> NoPage]
    OBVIOUS
  <2>3. calls' \subseteq calls \cup {d} /\ published' = published
    BY <1>3, <2>2 DEF SendMessage, busVars
  <2>4. LookedUp(d)'
    BY <2>1, <2>2, PagesAssumption DEF LookedUp
  <2> QED  BY <1>2, <2>3, <2>4, PublishedStays
<1>4. ASSUME NEW c \in calls, LookUp(c) PROVE CallsInv' /\ PublishedInv'
  <2>1. PICK u, q :
          /\ u = (IF written[c.msg].page \in DOMAIN connectionKey
                  THEN connectionKey[written[c.msg].page] ELSE NoUser)
          /\ q = (IF written[c.msg].to \in DOMAIN userKey
                  THEN userKey[written[c.msg].to] ELSE NoPage)
    OBVIOUS
  <2>2. c \in Calls /\ LookedUp(c)
    BY DEF TypeOK, CallsInv
  <2>3. PICK d : d = [c EXCEPT !.step = "lookedUp", !.user = u, !.receiver = q]
    OBVIOUS
  <2>4. calls' \subseteq calls \cup {d}
    BY <1>4, <2>1, <2>3 DEF LookUp
  <2>5. d.msg = c.msg /\ d.step = "lookedUp" /\ d.user = u /\ d.receiver = q
    BY <2>2, <2>3 DEF Calls
  <2>6. u \in {NoUser, WriterOf(c.msg)}
    BY <2>1 DEF WriterOf, DictionaryInv
  <2>7. q \in Pages => UserOf[q] = written[c.msg].to
    BY <2>1, PagesAssumption DEF DictionaryInv
  <2>8. written' = written /\ published' = published
    BY <1>4 DEF LookUp, busVars
  <2>9. LookedUp(d)'
    BY <2>2, <2>5, <2>6, <2>7, <2>8 DEF LookedUp, WriterOf
  <2> QED  BY <1>2, <2>4, <2>8, <2>9, PublishedStays
<1>5. ASSUME NEW c \in calls, SendChatMessage(c) PROVE CallsInv' /\ PublishedInv'
  <2>1. c \in Calls /\ LookedUp(c) /\ written' = written
    BY <1>5 DEF SendChatMessage, TypeOK, CallsInv
  <2>2. PICK d : d = [c EXCEPT !.step = "accepted"]
    OBVIOUS
  <2>3. d.msg = c.msg /\ d.step = "accepted" /\ d.user = c.user /\ d.receiver = c.receiver
    BY <2>1, <2>2 DEF Calls
  <2>4. ASSUME c.user # NoUser, published' = published \cup {c.msg}, calls' = (calls \ {c}) \cup {d}
        PROVE  CallsInv' /\ PublishedInv'
    <3>1. c.user = WriterOf(c.msg) /\ written[c.msg].page \in Pages
      BY <2>1, <2>4 DEF LookedUp
    <3>2. LookedUp(d)'
      BY <2>1, <2>3, <2>4, <3>1 DEF LookedUp, WriterOf
    <3>3. PublishedInv'
      BY <2>1, <2>4, <3>1 DEF PublishedInv
    <3> QED  BY <1>2, <2>4, <3>2, <3>3
  <2> QED  BY <1>1, <1>5, <2>2, <2>4 DEF SendChatMessage
<1>6. ASSUME NEW p \in Pages, PageSteps(p) PROVE CallsInv' /\ PublishedInv'
  BY <1>1, <1>3, <1>6
     DEF PageSteps, OpenPage, ConnectionMoves, ReceiveMessage, SelectChat, Conversation,
         ConversationArrives, hubVars, busVars
<1>7. CASE HubSteps
  BY <1>1, <1>4, <1>5, <1>7
     DEF HubSteps, AddUser, AddConnection, RemoveConnection, RemoveUser, CallReceiver, busVars
<1> QED
  BY <1>1, <1>6, <1>7 DEF Next, Store, Recycle, vars, hubVars, busVars

(* requests: a chat is selected and its history fetched.                     *)
LEMMA AnswersNext ==
  ASSUME LiveChatInv, WrittenStays, [Next]_vars
  PROVE  AnswersInv'
<1> USE DEF LiveChatInv, MessagesInv
<1>1. ASSUME \A p \in Pages : requests'[p] \subseteq requests[p] PROVE AnswersInv'
  BY <1>1, AnswersStay
<1>2. \A p \in Pages : \A r \in requests[p] : \A m \in r.answer.messages : m \in Messages /\ Kept(m, p)
  BY DEF AnswersInv, TypeOK, Requests
<1>3. ASSUME NEW p \in Pages, NEW s, requests'[p] \subseteq requests[p] \cup {s},
             \A q \in Pages : q # p => requests'[q] = requests[q],
             \A m \in s.answer.messages : m \in Messages /\ Kept(m, p)
      PROVE  AnswersInv'
  BY <1>2, <1>3, WhatIsTrueStays DEF AnswersInv
<1>4. ASSUME NEW p \in Pages, NEW user \in Users, SelectChat(p, user) PROVE AnswersInv'
  <2>1. PICK s : s = [id |-> selects'[p], other |-> user, answer |-> NoAnswer]
    OBVIOUS
  <2>2. /\ requests'[p] = requests[p] \cup {s}
        /\ \A q \in Pages : q # p => requests'[q] = requests[q]
    BY <1>4, <2>1 DEF SelectChat, TypeOK
  <2>3. s.answer.messages = {}
    BY <2>1 DEF NoAnswer
  <2> QED  BY <1>3, <2>2, <2>3
<1>5. ASSUME NEW p \in Pages, NEW r \in requests[p], Conversation(p, r) PROVE AnswersInv'
  <2>1. PICK a \in {[showing |-> r.other, messages |-> History(UserOf[p], r.other)],
                    [showing |-> LogInPage, messages |-> {}]} :
          requests' = [requests EXCEPT ![p] = (@ \ {r}) \cup {[r EXCEPT !.answer = a]}]
    BY <1>5 DEF Conversation
  <2>2. PICK s : s = [r EXCEPT !.answer = a]
    OBVIOUS
  <2>3. s.answer = a
    BY <2>2 DEF TypeOK, Requests
  <2>4. \A m \in a.messages : m \in Messages /\ Kept(m, p)
    BY <2>1, HistoryIsKept, HistoryType
  <2>5. /\ requests'[p] \subseteq requests[p] \cup {s}
        /\ \A q \in Pages : q # p => requests'[q] = requests[q]
    BY <2>1, <2>2 DEF TypeOK
  <2> QED  BY <1>3, <2>3, <2>4, <2>5
<1>6. ASSUME NEW p \in Pages, NEW r \in requests[p], ConversationArrives(p, r) PROVE AnswersInv'
  <2>1. \A q \in Pages : requests'[q] \subseteq requests[q]
    BY <1>6 DEF ConversationArrives, TypeOK
  <2> QED  BY <1>1, <2>1
<1>7. CASE Recycle
  BY <1>1, <1>7 DEF Recycle
<1>8. ASSUME requests' = requests PROVE AnswersInv'
  BY <1>1, <1>8
<1>9. ASSUME NEW p \in Pages, PageSteps(p) PROVE AnswersInv'
  BY <1>4, <1>5, <1>6, <1>8, <1>9 DEF PageSteps, OpenPage, ConnectionMoves, ReceiveMessage, SendMessage
<1>10. CASE HubSteps
  BY <1>8, <1>10
     DEF HubSteps, AddUser, AddConnection, RemoveConnection, RemoveUser, LookUp, SendChatMessage,
         CallReceiver, pageVars
<1> QED
  BY <1>7, <1>8, <1>9, <1>10 DEF Next, Store, vars, pageVars

LEMMA MessagesNext ==
  ASSUME LiveChatInv, [Next]_vars
  PROVE  MessagesInv'
<1>1. WrittenStays
  BY WrittenNext DEF LiveChatInv
<1> QED
  BY <1>1, DisplayNext, InboxNext, CallsNext, AnswersNext DEF MessagesInv

-----------------------------------------------------------------------------
LEMMA LiveChatInvInit ==
  ASSUME Init
  PROVE  LiveChatInv
<1>1. DOMAIN userKey = {} /\ DOMAIN connectionKey = {}
  BY DEF Init
<1>2. \A p \in Pages : Len(inbox[p]) = 0
  BY DEF Init
<1>3. MessagesInv
  BY <1>2 DEF Init, MessagesInv, PublishedInv, DisplayInv, InboxInv, CallsInv, AnswersInv
<1> QED
  BY <1>1, <1>3, TypeInit DEF Init, LiveChatInv, HelloInv, DictionaryInv

THEOREM LiveChatInvariant == Spec => []LiveChatInv
<1>1. Init => LiveChatInv
  BY LiveChatInvInit
<1>2. LiveChatInv /\ [Next]_vars => LiveChatInv'
  BY TypeNext, HelloNext, DictionaryNext, MessagesNext DEF LiveChatInv
<1> QED
  BY <1>1, <1>2, PTL DEF Spec

(* However the unguarded Add and Remove of pages interleave, and wherever    *)
(* the web application restarts, the two dictionaries say the same.          *)
THEOREM DictionariesAgreeAlways == Spec => []DictionariesAgree
<1>1. LiveChatInv => DictionariesAgree
  BY DEF LiveChatInv, TypeOK, DictionaryInv, Linked, DictionariesAgree
<1> QED
  BY <1>1, LiveChatInvariant, PTL

(* A message is shown in its writer's and its receiver's pages only, and     *)
(* receiveMessage names its writer.                                          *)
THEOREM MessagesStayBetweenTheirUsersAlways == Spec => []MessagesStayBetweenTheirUsers
<1>1. LiveChatInv => MessagesStayBetweenTheirUsers
  BY DEF LiveChatInv, MessagesInv, DisplayInv, InboxInv, Shown, Concerns, Addressed, MessagesStayBetweenTheirUsers
<1> QED
  BY <1>1, LiveChatInvariant, PTL

(* The pages of a receiver show nothing that the bus has not accepted.       *)
THEOREM WhatIsReceivedIsKeptAlways == Spec => []WhatIsReceivedIsKept
<1>1. LiveChatInv => WhatIsReceivedIsKept
  BY DEF LiveChatInv, MessagesInv, DisplayInv, Shown, WhatIsReceivedIsKept
<1> QED
  BY <1>1, LiveChatInvariant, PTL

-----------------------------------------------------------------------------
(* A page that waits for the conversation it asked for.                      *)

(* No chat is selected while the conversation of another is being fetched.   *)
AskedOneByOne == \A p \in Pages : \A r, s \in requests[p] : r = s

(* m is in the conversation of the user of p with other. *)
Within(m, p, other) ==
    written[m].page \in Pages /\ {WriterOf(m), written[m].to} = {UserOf[p], other}

(* The page shows what is selected and nothing of another conversation. *)
ShowsSelected(p) ==
    /\ showing[p] \in {selected[p], LogInPage}
    /\ \A m \in display[p] : Within(m, p, selected[p])

(* A request is for the selected chat, and so is its answer. *)
AsksForSelected(p, r) ==
    /\ r.other = selected[p]
    /\ r.answer # NoAnswer => r.answer.showing \in {selected[p], LogInPage}
    /\ \A m \in r.answer.messages : Within(m, p, selected[p])

PageInv(p) ==
    /\ conn[p] = "closed" => requests[p] = {}
    /\ \A r \in requests[p] : AsksForSelected(p, r)
    /\ requests[p] = {} => ShowsSelected(p)

SelectionInv == \A p \in Pages : PageInv(p)

LEMMA WithinStays ==
  ASSUME WrittenStays, NEW p \in Pages, NEW other, NEW m \in Messages, Within(m, p, other)
  PROVE  written'[m].page \in Pages /\ {WriterOf(m)', written'[m].to} = {UserOf[p], other}
BY DEF WrittenStays, Within, WriterOf

(* Pages that a step leaves alone. *)
LEMMA PageStays ==
  ASSUME TypeOK, WrittenStays, NEW p \in Pages, PageInv(p),
         conn'[p] = "closed" => conn[p] = "closed",
         requests'[p] = requests[p], selected'[p] = selected[p],
         showing'[p] = showing[p], display'[p] = display[p]
  PROVE  PageInv(p)'
<1>1. /\ \A m \in display[p] : m \in Messages
      /\ \A r \in requests[p] : \A m \in r.answer.messages : m \in Messages
  BY DEF TypeOK, Requests
<1>2. \A m \in Messages : Within(m, p, selected[p]) => Within(m, p, selected[p])'
  BY WithinStays DEF Within
<1>3. \A r \in requests[p] : AsksForSelected(p, r) => AsksForSelected(p, r)'
  BY <1>1, <1>2 DEF AsksForSelected, NoAnswer
<1>4. ShowsSelected(p) => ShowsSelected(p)'
  BY <1>1, <1>2 DEF ShowsSelected
<1> QED  BY <1>3, <1>4 DEF PageInv

(* What is fetched of a conversation is within it. *)
LEMMA HistoryIsWithin ==
  ASSUME TypeOK, PublishedInv, NEW p \in Pages, NEW other, NEW m \in History(UserOf[p], other)
  PROVE  m \in Messages /\ Within(m, p, other)
BY DEF TypeOK, PublishedInv, History, Within

(* The steps of a page. *)
LEMMA PageInvNext ==
  ASSUME LiveChatInv, WrittenStays, NEW p \in Pages, PageInv(p), PageSteps(p), AskedOneByOne'
  PROVE  PageInv(p)'
<1> USE DEF LiveChatInv, MessagesInv
<1>1. CASE OpenPage(p)
  <2>1. /\ conn'[p] = "connecting" /\ requests'[p] = {} /\ written' = written
        /\ selected'[p] = FirstContact(p) /\ showing'[p] = FirstContact(p)
        /\ \A m \in display'[p] : m \in History(UserOf[p], FirstContact(p))
    BY <1>1 DEF OpenPage, TypeOK, PageInv
  <2>2. \A m \in display'[p] : m \in Messages /\ Within(m, p, FirstContact(p))
    BY <2>1, HistoryIsWithin
  <2>3. ASSUME NEW m \in display'[p] PROVE Within(m, p, selected[p])'
    <3>1. Within(m, p, FirstContact(p))
      BY <2>2
    <3> QED  BY <2>1, <3>1 DEF Within, WriterOf
  <2> HIDE DEF LiveChatInv, MessagesInv
  <2> QED  BY <2>1, <2>3 DEF PageInv, ShowsSelected
<1>2. CASE ConnectionMoves(p)
  BY <1>2, PageStays DEF ConnectionMoves, TypeOK
<1>3. CASE ReceiveMessage(p)
  <2>0. inbox[p] \in Seq(Deliveries) /\ inbox[p] # <<>>
    BY <1>3 DEF ReceiveMessage, TypeOK
  <2>1. PICK e \in Deliveries : e = Head(inbox[p]) /\ Addressed(e, p)
    <3>1. Head(inbox[p]) \in Deliveries /\ Head(inbox[p]) = inbox[p][1] /\ 1 \in 1 .. Len(inbox[p])
      BY <2>0
    <3>2. Addressed(inbox[p][1], p)
      BY <3>1 DEF InboxInv
    <3> QED  BY <3>1, <3>2
  <2>2. e.msg \in Messages /\ Within(e.msg, p, e.sender)
    BY <2>1 DEF Deliveries, Addressed, Within
  <2>3. /\ display'[p] = IF selected[p] = e.sender THEN display[p] \cup {e.msg} ELSE display[p]
        /\ UNCHANGED <<conn, requests, selected, showing, written>>
    BY <1>3, <2>1 DEF ReceiveMessage, TypeOK
  <2>4. ShowsSelected(p) => ShowsSelected(p)'
    BY <2>2, <2>3 DEF ShowsSelected, Within, WriterOf
  <2>5. \A r \in requests[p] : AsksForSelected(p, r) => AsksForSelected(p, r)'
    BY <2>3 DEF AsksForSelected, NoAnswer, Within, WriterOf
  <2> QED  BY <2>3, <2>4, <2>5 DEF PageInv
<1>4. ASSUME NEW m \in Messages, SendMessage(p, m) PROVE PageInv(p)'
  <2>1. /\ display'[p] = display[p] \cup {m} /\ UNCHANGED <<conn, requests, selected, showing>>
        /\ written'[m] = [page |-> p, to |-> selected[p]]
    BY <1>4 DEF SendMessage, TypeOK
  <2>2. Within(m, p, selected[p])'
    BY <2>1 DEF Within, WriterOf
  <2>3. \A n \in Messages : Within(n, p, selected[p]) => Within(n, p, selected[p])'
    BY <2>1, WithinStays DEF Within
  <2>4. ShowsSelected(p) => ShowsSelected(p)'
    BY <2>1, <2>2, <2>3 DEF ShowsSelected, TypeOK
  <2>5. \A r \in requests[p] : AsksForSelected(p, r) => AsksForSelected(p, r)'
    BY <2>1, <2>3 DEF AsksForSelected, NoAnswer, TypeOK, Requests
  <2> QED  BY <2>1, <2>4, <2>5 DEF PageInv
<1>5. ASSUME NEW user \in Users, SelectChat(p, user) PROVE PageInv(p)'
  <2> DEFINE new == [id |-> selects[p] + 1, other |-> user, answer |-> NoAnswer]
  <2>1. /\ requests'[p] = requests[p] \cup {new} /\ selected'[p] = user
        /\ conn'[p] = conn[p] /\ conn[p] # "closed"
    BY <1>5 DEF SelectChat, TypeOK
  <2>2. requests'[p] = {new}
    BY <2>1 DEF AskedOneByOne
  <2>3. ASSUME NEW r, r = new PROVE AsksForSelected(p, r)'
    BY <2>1, <2>3 DEF AsksForSelected, NoAnswer
  <2> QED  BY <2>1, <2>2, <2>3 DEF PageInv
<1>6. ASSUME NEW r \in requests[p], Conversation(p, r) PROVE PageInv(p)'
  <2>1. PICK a \in {[showing |-> r.other, messages |-> History(UserOf[p], r.other)],
                    [showing |-> LogInPage, messages |-> {}]} :
          requests' = [requests EXCEPT ![p] = (requests[p] \ {r}) \cup {[r EXCEPT !.answer = a]}]
    BY <1>6 DEF Conversation
  <2> DEFINE answered == [r EXCEPT !.answer = a]
  <2>2. /\ requests'[p] = (requests[p] \ {r}) \cup {answered}
        /\ UNCHANGED <<conn, selected, showing, display, written>>
    BY <1>6, <2>1 DEF Conversation, TypeOK
  <2>3. r.other = selected[p] /\ answered.other = r.other /\ answered.answer = a
    BY DEF PageInv, AsksForSelected, TypeOK, Requests
  <2>4. a.showing \in {selected[p], LogInPage} /\ \A m \in a.messages : Within(m, p, selected[p])
    BY <2>3, HistoryIsWithin
  <2> HIDE DEF answered
  <2>5. AsksForSelected(p, answered)'
    BY <2>2, <2>3, <2>4 DEF AsksForSelected, Within, WriterOf
  <2>6. \A q \in requests[p] : AsksForSelected(p, q) => AsksForSelected(p, q)'
    BY <2>2 DEF AsksForSelected, NoAnswer, Within, WriterOf
  <2> QED  BY <2>2, <2>5, <2>6 DEF PageInv
<1>7. ASSUME NEW r \in requests[p], ConversationArrives(p, r) PROVE PageInv(p)'
  <2>1. /\ requests'[p] = requests[p] \ {r} /\ r.answer # NoAnswer
        /\ showing'[p] = r.answer.showing /\ display'[p] = r.answer.messages
        /\ UNCHANGED <<conn, selected, written>>
    BY <1>7 DEF ConversationArrives, TypeOK
  <2>2. ShowsSelected(p)'
    BY <2>1 DEF ShowsSelected, PageInv, AsksForSelected, Within, WriterOf
  <2>3. \A q \in requests[p] : AsksForSelected(p, q) => AsksForSelected(p, q)'
    BY <2>1 DEF AsksForSelected, NoAnswer, Within, WriterOf
  <2> QED  BY <2>1, <2>2, <2>3 DEF PageInv
<1> QED  BY <1>1, <1>2, <1>3, <1>4, <1>5, <1>6, <1>7 DEF PageSteps

(* A page's steps change nothing of other pages. *)
LEMMA OtherPages ==
  ASSUME TypeOK, NEW p \in Pages, PageSteps(p), NEW q \in Pages, q # p
  PROVE  /\ conn'[q] = conn[q] /\ requests'[q] = requests[q] /\ selected'[q] = selected[q]
         /\ showing'[q] = showing[q] /\ display'[q] = display[q]
<1> USE DEF TypeOK
<1>1. CASE OpenPage(p) \/ ConnectionMoves(p) \/ ReceiveMessage(p)
  BY <1>1 DEF OpenPage, ConnectionMoves, ReceiveMessage
<1>2. ASSUME NEW m \in Messages, SendMessage(p, m) PROVE display'[q] = display[q]
  BY <1>2 DEF SendMessage
<1>3. ASSUME NEW user \in Users, SelectChat(p, user)
      PROVE  selected'[q] = selected[q] /\ requests'[q] = requests[q]
  BY <1>3 DEF SelectChat
<1>4. ASSUME NEW r \in requests[p], Conversation(p, r) \/ ConversationArrives(p, r)
      PROVE  requests'[q] = requests[q] /\ showing'[q] = showing[q] /\ display'[q] = display[q]
  BY <1>4 DEF Conversation, ConversationArrives
<1> QED  BY <1>1, <1>2, <1>3, <1>4 DEF PageSteps, SendMessage, SelectChat, Conversation, ConversationArrives

LEMMA SelectionNext ==
  ASSUME LiveChatInv, recycles = 0 => SelectionInv, AskedOneByOne', [Next]_vars, recycles' = 0
  PROVE  SelectionInv'
<1>0. TypeOK /\ WrittenStays
  BY WrittenNext DEF LiveChatInv
<1>1. recycles \in Nat /\ ~ Recycle
  BY <1>0, BoundsAssumption DEF TypeOK, Recycle
<1>2. recycles = 0
  BY <1>1 DEF Next, PageSteps, HubSteps, Store, vars, OpenPage, ConnectionMoves, ReceiveMessage,
     SendMessage, SelectChat, Conversation, ConversationArrives, AddUser, AddConnection,
     RemoveConnection, RemoveUser, LookUp, SendChatMessage, CallReceiver, boundVars
<1>3. ASSUME UNCHANGED pageVars PROVE SelectionInv'
  BY <1>0, <1>2, <1>3, PageStays DEF SelectionInv, pageVars
<1>4. ASSUME HubSteps PROVE SelectionInv'
  <2>1. UNCHANGED <<conn, requests, selected, showing, display>>
    BY <1>4 DEF HubSteps, AddUser, AddConnection, RemoveConnection, RemoveUser, LookUp, SendChatMessage,
                CallReceiver, pageVars
  <2> QED  BY <1>0, <1>2, <2>1, PageStays DEF SelectionInv
<1>5. ASSUME NEW p \in Pages, PageSteps(p) PROVE SelectionInv'
  <2>1. PageInv(p)'
    BY <1>0, <1>2, <1>5, PageInvNext DEF SelectionInv
  <2>2. ASSUME NEW q \in Pages, q # p PROVE PageInv(q)'
    BY <1>0, <1>2, <1>5, <2>2, OtherPages, PageStays DEF SelectionInv
  <2> QED  BY <2>1, <2>2 DEF SelectionInv
<1> QED  BY <1>1, <1>3, <1>4, <1>5 DEF Next, Store, vars

(* Where every selection waits for the conversation it asked for, and the web *)
(* application is not restarted (which makes a request fail, and no error      *)
(* handler tells the page), "this function will load and display the chat      *)
(* history": a page that waits for nothing shows the selected conversation,    *)
(* and nothing of any other, whatever was received or written meanwhile.       *)
THEOREM SelectedChatIsShownAlone ==
  Spec /\ []AskedOneByOne =>
    [](recycles = 0 =>
         /\ SelectedChatIsDisplayed
         /\ \A p \in Pages : requests[p] = {} => \A m \in display[p] : Within(m, p, selected[p]))
<1>1. Init => (recycles = 0 => SelectionInv)
  BY DEF Init, SelectionInv, PageInv, ShowsSelected
<1>2. LiveChatInv /\ (recycles = 0 => SelectionInv) /\ AskedOneByOne' /\ [Next]_vars
        => (recycles = 0 => SelectionInv)'
  BY SelectionNext
<1>3. (recycles = 0 => SelectionInv) =>
        (recycles = 0 =>
           /\ SelectedChatIsDisplayed
           /\ \A p \in Pages : requests[p] = {} => \A m \in display[p] : Within(m, p, selected[p]))
  BY DEF SelectionInv, PageInv, ShowsSelected, SelectedChatIsDisplayed
<1> QED  BY <1>1, <1>2, <1>3, LiveChatInvariant, PTL DEF Spec
=============================================================================
