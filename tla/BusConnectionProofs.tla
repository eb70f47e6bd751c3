------------------------- MODULE BusConnectionProofs -------------------------
(* Theorems about BusConnection. *)
EXTENDS BusConnection, TLAPS

USE DEF Calls, Connections

-----------------------------------------------------------------------------
(* Types *)

(* The types of what the web server keeps and of what the bus keeps. *)
ClientTypeOK ==
  /\ pc \in [Calls -> {"waiting"} \cup InProgress \cup Ended]
  /\ using \in [Calls -> Connections \cup {None}]
  /\ \A c \in Calls : pc[c] \in InProgress => using[c] # None
  /\ got \in [Calls -> Calls \cup {None}]
  /\ connections \in [Users -> Connections \cup {None}]
  /\ socket \in [Connections -> {"new", "connected", "lost", "closed"}]

StreamTypeOK ==
  /\ up \in [Connections -> Seq(Parts)] /\ down \in [Connections -> Seq(Parts)]
  /\ upEnd \in [Connections -> {"open", "eof", "reset"}]
  /\ downEnd \in [Connections -> {"open", "eof", "reset"}]
  /\ outOfStep \in [Connections -> BOOLEAN]

ServerTypeOK ==
  /\ thread \in [Connections -> {"none", "readSize", "readBody", "execute", "reply", "ended"}]
  /\ request \in [Connections -> Calls \cup {None}]
  /\ \A k \in Connections : thread[k] \in {"readBody", "execute", "reply"} => request[k] # None
  /\ authenticated \in [Connections -> BOOLEAN]
  /\ running \in BOOLEAN

FaultsTypeOK == faults \in [kills : 0 .. MaxKills, recycles : 0 .. MaxRecycles]

(* The parts together are TypeOK. *)
LEMMA TypeParts ==
  /\ TypeOK <=> ClientTypeOK /\ StreamTypeOK /\ ServerTypeOK /\ FaultsTypeOK
  /\ TypeOK' <=> ClientTypeOK' /\ StreamTypeOK' /\ ServerTypeOK' /\ FaultsTypeOK'
  BY DEF TypeOK, ClientTypeOK, StreamTypeOK, ServerTypeOK, FaultsTypeOK

(* A part is taken from a stream, or written to one. *)
LEMMA TakeOne ==
  ASSUME NEW S, NEW s \in Seq(S), s # <<>>
  PROVE  Head(s) \in S /\ Tail(s) \in Seq(S)
  OBVIOUS

LEMMA AddOne ==
  ASSUME NEW S, NEW s \in Seq(S), NEW x \in S
  PROVE  Append(s, x) \in Seq(S)
  OBVIOUS

LEMMA AppendSecond ==
  ASSUME NEW S, NEW x \in S, NEW y \in S
  PROVE  Append(<<x>>, y) = <<x, y>>
<1>1. <<>> \o <<x, y>> = <<x, y>> /\ <<>> \o <<x, y>> = Append(Append(<<>>, x), y)
  OBVIOUS
<1>2. Append(<<>>, x) = <<x>>
  OBVIOUS
<1>3. QED  BY <1>1, <1>2

LEMMA TypedStream ==
  ASSUME NEW S, NEW f \in [Connections -> Seq(S)], NEW k, NEW s \in Seq(S)
  PROVE  [f EXCEPT ![k] = s] \in [Connections -> Seq(S)]
  OBVIOUS

(* Die keeps the types. *)
LEMMA DieType ==
  ASSUME TypeOK, Die
  PROVE  ClientTypeOK' /\ StreamTypeOK' /\ ServerTypeOK'
<1>0. ClientTypeOK /\ StreamTypeOK /\ ServerTypeOK /\ FaultsTypeOK  BY TypeParts
<1> USE <1>0
<1>1. ClientTypeOK'  BY DEF Die, clientVars, ClientTypeOK
<1>2. StreamTypeOK'  BY DEF Die, StreamTypeOK
<1>3. ServerTypeOK'  BY DEF Die, ServerTypeOK, Serving
<1>4. QED  BY <1>1, <1>2, <1>3

(* The beginnings of calls keep the types. *)
LEMMA BeginType ==
  ASSUME TypeOK, NEW c \in Calls, LogIn(c) \/ Request(c) \/ TurnAway(c) \/ CloseLost(c)
  PROVE  TypeOK'
<1>0. ClientTypeOK /\ StreamTypeOK /\ ServerTypeOK /\ FaultsTypeOK  BY TypeParts
<1> USE <1>0, CallsAssumption
<1>1. ClientTypeOK'
  BY DEF ClientTypeOK, InProgress, Reading, Ended, LogIn, Request, TurnAway, CloseLost, At, GoTo,
         Usable, ConnectionOf
<1>2. StreamTypeOK' /\ ServerTypeOK' /\ FaultsTypeOK'
  BY DEF StreamTypeOK, ServerTypeOK, FaultsTypeOK, LogIn, Request, TurnAway, CloseLost,
         streams, serverVars
<1>3. QED  BY <1>1, <1>2, TypeParts

(* So do the steps of a call in progress. *)
LEMMA CallType ==
  ASSUME TypeOK, NEW c \in Calls, CallStep(c)
  PROVE  TypeOK'
<1>0. ClientTypeOK /\ StreamTypeOK /\ ServerTypeOK /\ FaultsTypeOK  BY TypeParts
<1> USE <1>0, CallsAssumption DEF At, GoTo
<1>1. CASE Connect(c) \/ ConnectFails(c)
  <2>1. ClientTypeOK'
    BY <1>1 DEF ClientTypeOK, InProgress, Reading, Ended, Connect, ConnectFails
  <2>2. StreamTypeOK' /\ FaultsTypeOK'
    BY <1>1 DEF StreamTypeOK, FaultsTypeOK, Connect, ConnectFails, streams
  <2>3. ServerTypeOK'
    BY <1>1 DEF ServerTypeOK, Connect, ConnectFails, serverVars
  <2>4. QED  BY <2>1, <2>2, <2>3, TypeParts
<1>2. CASE WriteSize(c) \/ WriteBody(c)
  <2>1. ClientTypeOK'
    BY <1>2 DEF ClientTypeOK, InProgress, Reading, Ended, WriteSize, WriteBody
  <2>2. using[c] \in Connections
    BY <1>2 DEF ClientTypeOK, InProgress, WriteSize, WriteBody
  <2>3. Part("size", c) \in Parts /\ Part("body", c) \in Parts
    BY DEF Part, Parts
  <2>4. StreamTypeOK'
    <3> DEFINE written(part) == Append(up[using[c]], Part(part, c))
    <3>1. written("size") \in Seq(Parts) /\ written("body") \in Seq(Parts)
      BY <2>2, <2>3 DEF StreamTypeOK
    <3>2. up' = up \/ up' = [up EXCEPT ![using[c]] = written("size")]
                   \/ up' = [up EXCEPT ![using[c]] = written("body")]
      BY <1>2 DEF WriteSize, WriteBody, Write
    <3>3. up' \in [Connections -> Seq(Parts)]
      <4> HIDE DEF written
      <4>1. QED  BY <3>1, <3>2, TypedStream DEF StreamTypeOK
    <3>4. downEnd' \in [Connections -> {"open", "eof", "reset"}]
      BY <1>2 DEF StreamTypeOK, WriteSize, WriteBody, Write
    <3>5. QED  BY <1>2, <3>3, <3>4 DEF StreamTypeOK, WriteSize, WriteBody
  <2>5. ServerTypeOK' /\ FaultsTypeOK'
    BY <1>2 DEF ServerTypeOK, FaultsTypeOK, WriteSize, WriteBody, serverVars
  <2>6. QED  BY <2>1, <2>4, <2>5, TypeParts
<1>3. CASE WriteFails(c) \/ BeginRead(c) \/ ReadGarbage(c) \/ ReadFails(c) \/ Forget(c)
  <2>1. ClientTypeOK'
    BY <1>3 DEF ClientTypeOK, InProgress, Reading, Ended, WriteFails, BeginRead, ReadGarbage,
                ReadFails, Forget, LoseSocket
  <2>2. StreamTypeOK' /\ ServerTypeOK' /\ FaultsTypeOK'
    BY <1>3 DEF StreamTypeOK, ServerTypeOK, FaultsTypeOK, WriteFails, BeginRead, ReadGarbage,
                ReadFails, Forget, streams, serverVars
  <2>3. QED  BY <2>1, <2>2, TypeParts
<1>4. CASE ReadSize(c) \/ ReadSizeOutOfStep(c) \/ ReadWrongType(c)
  <2>1. ClientTypeOK'
    BY <1>4 DEF ClientTypeOK, InProgress, Reading, Ended, ReadSize, ReadSizeOutOfStep, ReadWrongType
  <2>2. StreamTypeOK'
    <3>1. using[c] \in Connections
      BY <1>4 DEF ClientTypeOK, InProgress, Reading, ReadSize, ReadSizeOutOfStep, ReadWrongType
    <3>2. CASE ReadSize(c) \/ ReadWrongType(c)
      <4>1. down' = [down EXCEPT ![using[c]] = Tail(down[using[c]])] /\ down[using[c]] # <<>>
        BY <3>2 DEF ReadSize, ReadWrongType, Consume, Arrives
      <4>2. down' \in [Connections -> Seq(Parts)]
        BY <3>1, <4>1, TakeOne, TypedStream DEF StreamTypeOK
      <4>3. QED  BY <3>2, <4>2 DEF StreamTypeOK, ReadSize, ReadWrongType
    <3>3. CASE ReadSizeOutOfStep(c)
      BY <3>3 DEF StreamTypeOK, ReadSizeOutOfStep
    <3>4. QED  BY <1>4, <3>2, <3>3
  <2>3. ServerTypeOK' /\ FaultsTypeOK'
    BY <1>4 DEF ServerTypeOK, FaultsTypeOK, ReadSize, ReadSizeOutOfStep, ReadWrongType, serverVars
  <2>4. QED  BY <2>1, <2>2, <2>3, TypeParts
<1>5. CASE ReadBody(c)
  <2>1. using[c] \in Connections
    BY <1>5 DEF ClientTypeOK, InProgress, Reading, ReadBody
  <2>2. Head(down[using[c]]) \in Parts /\ Tail(down[using[c]]) \in Seq(Parts)
    BY <1>5, <2>1, TakeOne DEF StreamTypeOK, ReadBody, Arrives
  <2>3. Head(down[using[c]]).call \in Calls
    BY <2>2 DEF Parts
  <2>4. ClientTypeOK'
    BY <1>5, <2>3 DEF ClientTypeOK, InProgress, Reading, Ended, ReadBody, KeepOrClose
  <2>5. StreamTypeOK'
    <3>1. down' \in [Connections -> Seq(Parts)]
      BY <1>5, <2>2, TypedStream DEF StreamTypeOK, ReadBody, Consume
    <3>2. upEnd' \in [Connections -> {"open", "eof", "reset"}]
      BY <1>5 DEF StreamTypeOK, ReadBody, KeepOrClose
    <3>3. QED  BY <1>5, <3>1, <3>2 DEF StreamTypeOK, ReadBody
  <2>6. ServerTypeOK' /\ FaultsTypeOK'
    BY <1>5 DEF ServerTypeOK, FaultsTypeOK, ReadBody, serverVars
  <2>7. QED  BY <2>4, <2>5, <2>6, TypeParts
<1>6. CASE ReadNothing(c)
  BY <1>6 DEF ReadNothing, vars, clientVars, streams, serverVars, TypeOK
<1>7. QED  BY <1>1, <1>2, <1>3, <1>4, <1>5, <1>6 DEF CallStep

(* And those of the thread at the other end. *)
LEMMA ListenType ==
  ASSUME TypeOK, NEW k \in Connections, ListenToClient(k)
  PROVE  TypeOK'
<1>0. ClientTypeOK /\ StreamTypeOK /\ ServerTypeOK /\ FaultsTypeOK  BY TypeParts
<1> USE <1>0, CallsAssumption
<1>1. CASE ListenSize(k) \/ ListenBody(k)
  <2>1. Head(up[k]) \in Parts /\ Tail(up[k]) \in Seq(Parts)
    BY <1>1, TakeOne DEF StreamTypeOK, ListenSize, ListenBody
  <2>2. Head(up[k]).call \in Calls
    BY <2>1 DEF Parts
  <2>3. ServerTypeOK'
    BY <1>1, <2>2 DEF ServerTypeOK, ListenSize, ListenBody
  <2>4. StreamTypeOK'
    <3>1. up' \in [Connections -> Seq(Parts)]
      BY <1>1, <2>1, TypedStream DEF StreamTypeOK, ListenSize, ListenBody
    <3>2. QED  BY <1>1, <3>1 DEF StreamTypeOK, ListenSize, ListenBody
  <2>5. ClientTypeOK' /\ FaultsTypeOK'
    BY <1>1 DEF ClientTypeOK, FaultsTypeOK, ListenSize, ListenBody, clientVars
  <2>6. QED  BY <2>3, <2>4, <2>5, TypeParts
<1>2. CASE ListenGarbage(k) \/ ClientGone(k)
  BY <1>2, DieType, TypeParts DEF ListenGarbage, ClientGone, FaultsTypeOK
<1>3. CASE Execute(k)
  <2>1. ServerTypeOK'  BY <1>3 DEF Execute, ServerTypeOK
  <2>2. ClientTypeOK' /\ StreamTypeOK' /\ FaultsTypeOK'
    BY <1>3 DEF Execute, ClientTypeOK, StreamTypeOK, FaultsTypeOK, clientVars, streams
  <2>3. QED  BY <2>1, <2>2, TypeParts
<1>4. CASE SendToClient(k)
  <2>1. Frame(request[k]) \in Seq(Parts)
    BY <1>4 DEF ServerTypeOK, SendToClient, Frame, Part, Parts
  <2>2. StreamTypeOK'
    BY <1>4, <2>1 DEF StreamTypeOK, SendToClient, Answer
  <2>3. ServerTypeOK'
    BY <1>4 DEF ServerTypeOK, SendToClient, Answer
  <2>4. ClientTypeOK' /\ FaultsTypeOK'
    BY <1>4 DEF ClientTypeOK, FaultsTypeOK, SendToClient, clientVars
  <2>5. QED  BY <2>2, <2>3, <2>4, TypeParts
<1>5. CASE ListenToNothing(k)
  BY <1>5 DEF ListenToNothing, vars, clientVars, streams, serverVars, TypeOK
<1>6. QED  BY <1>1, <1>2, <1>3, <1>4, <1>5 DEF ListenToClient

(* And the faults. *)
LEMMA FaultType ==
  ASSUME TypeOK, Kill \/ StartServer \/ Recycle \/ (\E k \in Connections : Collect(k))
  PROVE  TypeOK'
<1>0. ClientTypeOK /\ StreamTypeOK /\ ServerTypeOK /\ FaultsTypeOK  BY TypeParts
<1> USE <1>0, CallsAssumption, BoundsAssumption
<1>1. CASE Kill
  <2>1. FaultsTypeOK'  BY <1>1 DEF FaultsTypeOK, Kill
  <2>2. QED  BY <1>1, <2>1, DieType, TypeParts DEF Kill
<1>2. CASE StartServer
  BY <1>2, TypeParts DEF StartServer, ClientTypeOK, StreamTypeOK, ServerTypeOK, FaultsTypeOK, clientVars, streams
<1>3. CASE Recycle
  <2>1. ClientTypeOK'
    BY <1>3 DEF Recycle, ClientTypeOK, InProgress, Reading, Ended
  <2>2. StreamTypeOK'  BY <1>3 DEF Recycle, StreamTypeOK
  <2>3. ServerTypeOK' /\ FaultsTypeOK'
    BY <1>3 DEF Recycle, ServerTypeOK, FaultsTypeOK, serverVars
  <2>4. QED  BY <2>1, <2>2, <2>3, TypeParts
<1>4. ASSUME NEW k \in Connections, Collect(k) PROVE TypeOK'
  BY <1>4, TypeParts DEF Collect, ClientTypeOK, StreamTypeOK, ServerTypeOK, FaultsTypeOK, serverVars
<1>5. QED  BY <1>1, <1>2, <1>3, <1>4

(* TypeOK is an invariant. *)
THEOREM BusTypeCorrect == Spec => []TypeOK
<1>1. Init => TypeOK
  BY CallsAssumption, BoundsAssumption DEF Init, TypeOK, InProgress, Reading, Ended, Parts
<1>2. TypeOK /\ [Next]_vars => TypeOK'
  <2> SUFFICES ASSUME TypeOK, [Next]_vars PROVE TypeOK'  OBVIOUS
  <2>1. CASE UNCHANGED vars
    BY <2>1 DEF vars, clientVars, streams, serverVars, TypeOK
  <2>2. CASE Next
    BY <2>1, <2>2, BeginType, CallType, ListenType, FaultType DEF Next
  <2>3. QED  BY <2>1, <2>2
<1>3. QED  BY <1>1, <1>2, PTL DEF Spec

-----------------------------------------------------------------------------
(* Replies stay with their user *)

(* Parts of the calls of the user whose connection k is. *)
OwnParts(k) == {p \in Parts : UserOf[p.call] = UserOf[k]}

(* A call uses a connection of its user, ConnectionManager keeps one for     *)
(* each user, and so nothing on a stream, nor in the thread at its end,      *)
(* comes from another user's call.                                           *)
ConnectionsOwned ==
  /\ \A c \in Calls : using[c] # None => UserOf[using[c]] = UserOf[c]
  /\ \A u \in Users : connections[u] # None => UserOf[connections[u]] = u

StreamsOwned ==
  /\ \A k \in Connections : up[k] \in Seq(OwnParts(k)) /\ down[k] \in Seq(OwnParts(k))
  /\ \A k \in Connections : request[k] # None => UserOf[request[k]] = UserOf[k]

UserInv == ConnectionsOwned /\ StreamsOwned /\ RepliesStayWithTheirUser

(* Requests go out on a connection of their user. *)
LEMMA BeginUser ==
  ASSUME TypeOK, UserInv, NEW c \in Calls, LogIn(c) \/ Request(c) \/ TurnAway(c) \/ CloseLost(c)
  PROVE  UserInv'
<1>1. UserOf[c] \in Users /\ using \in [Calls -> Connections \cup {None}]
  BY CallsAssumption DEF TypeOK
<1>2. ConnectionsOwned'
  BY <1>1 DEF UserInv, ConnectionsOwned, LogIn, Request, TurnAway, CloseLost, GoTo, Usable, ConnectionOf
<1>3. StreamsOwned' /\ RepliesStayWithTheirUser'
  BY DEF UserInv, StreamsOwned, RepliesStayWithTheirUser, LogIn, Request, TurnAway, CloseLost,
         streams, serverVars
<1>4. QED  BY <1>2, <1>3 DEF UserInv

(* What a call writes and reads is its user's. *)
LEMMA CallUser ==
  ASSUME TypeOK, UserInv, NEW c \in Calls, CallStep(c)
  PROVE  UserInv'
<1>1. CASE WriteSize(c) \/ WriteBody(c)
  <2>1. using[c] \in Connections /\ UserOf[using[c]] = UserOf[c]
    BY <1>1 DEF TypeOK, UserInv, ConnectionsOwned, WriteSize, WriteBody, At, InProgress
  <2>2. Part("size", c) \in OwnParts(using[c]) /\ Part("body", c) \in OwnParts(using[c])
    BY <2>1 DEF OwnParts, Part, Parts
  <2>3. \A k \in Connections : up'[k] \in Seq(OwnParts(k))
    <3> SUFFICES ASSUME NEW k \in Connections PROVE up'[k] \in Seq(OwnParts(k))  OBVIOUS
    <3>1. up[k] \in Seq(OwnParts(k)) /\ up \in [Connections -> Seq(Parts)]
      BY DEF TypeOK, UserInv, StreamsOwned
    <3>2. \/ up'[k] = up[k]
          \/ k = using[c] /\ up'[k] = Append(up[k], Part("size", c))
          \/ k = using[c] /\ up'[k] = Append(up[k], Part("body", c))
      BY <1>1, <3>1 DEF WriteSize, WriteBody, Write
    <3>3. CASE up'[k] = up[k]  BY <3>1, <3>3
    <3>4. CASE k = using[c]    BY <2>2, <3>1, <3>2, <3>4, AddOne
    <3>5. QED  BY <3>2, <3>3, <3>4
  <2>4. StreamsOwned'
    BY <1>1, <2>3 DEF UserInv, StreamsOwned, WriteSize, WriteBody, serverVars
  <2>5. ConnectionsOwned' /\ RepliesStayWithTheirUser'
    BY <1>1 DEF UserInv, ConnectionsOwned, RepliesStayWithTheirUser, WriteSize, WriteBody
  <2>6. QED  BY <2>4, <2>5 DEF UserInv
<1>2. CASE ReadSize(c) \/ ReadBody(c) \/ ReadWrongType(c)
  <2>1. using[c] \in Connections /\ UserOf[using[c]] = UserOf[c]
    BY <1>2 DEF TypeOK, UserInv, ConnectionsOwned, ReadSize, ReadBody, ReadWrongType, At,
                InProgress, Reading
  <2>2. down[using[c]] # <<>> /\ down[using[c]] \in Seq(OwnParts(using[c]))
    BY <1>2, <2>1 DEF UserInv, StreamsOwned, ReadSize, ReadBody, ReadWrongType, Arrives
  <2>3. Head(down[using[c]]) \in OwnParts(using[c]) /\ Tail(down[using[c]]) \in Seq(OwnParts(using[c]))
    BY <2>2, TakeOne
  <2>4. \A k \in Connections : down'[k] \in Seq(OwnParts(k))
    BY <1>2, <2>3 DEF TypeOK, UserInv, StreamsOwned, ReadSize, ReadBody, ReadWrongType, Consume
  <2>5. StreamsOwned'
    <3>1. up' = up /\ request' = request
      BY <1>2 DEF ReadSize, ReadBody, ReadWrongType, serverVars
    <3>2. QED  BY <2>4, <3>1 DEF UserInv, StreamsOwned
  <2>6. ConnectionsOwned'
    <3>1. using' = using
      BY <1>2 DEF ReadSize, ReadBody, ReadWrongType
    <3>2. connections' = connections \/ connections' = [connections EXCEPT ![UserOf[c]] = c]
      BY <1>2 DEF ReadSize, ReadBody, ReadWrongType, KeepOrClose
    <3>3. connections \in [Users -> Connections \cup {None}]
      BY DEF TypeOK
    <3>4. QED  BY <3>1, <3>2, <3>3 DEF UserInv, ConnectionsOwned
  <2>7. UserOf[Head(down[using[c]]).call] = UserOf[c]
    BY <2>1, <2>3 DEF OwnParts
  <2>8. RepliesStayWithTheirUser'
    BY <1>2, <2>7 DEF TypeOK, UserInv, RepliesStayWithTheirUser, ReadSize, ReadBody, ReadWrongType
  <2>9. QED  BY <2>5, <2>6, <2>8 DEF UserInv
<1>3. CASE \/ Connect(c) \/ ConnectFails(c) \/ WriteFails(c) \/ BeginRead(c) \/ ReadSizeOutOfStep(c)
           \/ ReadGarbage(c) \/ ReadFails(c) \/ ReadNothing(c) \/ Forget(c)
  <2>1. ConnectionsOwned'
    BY <1>3 DEF TypeOK, UserInv, ConnectionsOwned, Connect, ConnectFails, WriteFails, BeginRead,
       ReadSizeOutOfStep, ReadGarbage, ReadFails, ReadNothing, Forget, vars, clientVars
  <2>2. StreamsOwned'
    BY <1>3 DEF UserInv, StreamsOwned, Connect, ConnectFails, WriteFails, BeginRead,
       ReadSizeOutOfStep, ReadGarbage, ReadFails, ReadNothing, Forget, vars, streams, serverVars
  <2>3. RepliesStayWithTheirUser'
    BY <1>3 DEF UserInv, RepliesStayWithTheirUser, Connect, ConnectFails, WriteFails, BeginRead,
       ReadSizeOutOfStep, ReadGarbage, ReadFails, ReadNothing, Forget, vars, clientVars
  <2>4. QED  BY <2>1, <2>2, <2>3 DEF UserInv
<1>4. QED  BY <1>1, <1>2, <1>3 DEF CallStep

(* The end of the Authentication process loses parts and adds none. *)
LEMMA DieUser ==
  ASSUME TypeOK, UserInv, Die
  PROVE  UserInv'
<1>1. ConnectionsOwned' /\ RepliesStayWithTheirUser'
  BY DEF UserInv, ConnectionsOwned, RepliesStayWithTheirUser, Die, clientVars
<1>2. StreamsOwned'
  BY DEF UserInv, StreamsOwned, Die
<1>3. QED  BY <1>1, <1>2 DEF UserInv

(* A thread of the bus reads and answers on its own connection. *)
LEMMA ListenUser ==
  ASSUME TypeOK, UserInv, NEW k \in Connections, ListenToClient(k)
  PROVE  UserInv'
<1>1. CASE ListenSize(k) \/ ListenBody(k)
  <2>1. up[k] # <<>> /\ up[k] \in Seq(OwnParts(k))
    BY <1>1 DEF UserInv, StreamsOwned, ListenSize, ListenBody
  <2>2. Head(up[k]) \in OwnParts(k) /\ Tail(up[k]) \in Seq(OwnParts(k))
    BY <2>1, TakeOne
  <2>3. UserOf[Head(up[k]).call] = UserOf[k]
    BY <2>2 DEF OwnParts
  <2>4. StreamsOwned'
    <3>0. /\ up' = [up EXCEPT ![k] = Tail(up[k])] /\ down' = down
          /\ request' \in {request, [request EXCEPT ![k] = Head(up[k]).call]}
          /\ DOMAIN up = Connections /\ DOMAIN request = Connections
      BY <1>1 DEF ListenSize, ListenBody, TypeOK
    <3>1. ASSUME NEW j \in Connections, j # k
          PROVE  up'[j] = up[j] /\ request'[j] = request[j]
      BY <3>0, <3>1
    <3>2. up'[k] = Tail(up[k]) /\ request'[k] \in {request[k], Head(up[k]).call}
      BY <3>0
    <3>3. /\ \A j \in Connections : up'[j] \in Seq(OwnParts(j)) /\ down'[j] \in Seq(OwnParts(j))
          /\ \A j \in Connections : request'[j] # None => UserOf[request'[j]] = UserOf[j]
      BY <2>2, <2>3, <3>0, <3>1, <3>2 DEF UserInv, StreamsOwned
    <3>4. QED  BY <3>3 DEF StreamsOwned, OwnParts
  <2>5. ConnectionsOwned' /\ RepliesStayWithTheirUser'
    BY <1>1 DEF UserInv, ConnectionsOwned, RepliesStayWithTheirUser, ListenSize, ListenBody, clientVars
  <2>6. QED  BY <2>4, <2>5 DEF UserInv
<1>2. CASE ListenGarbage(k) \/ ClientGone(k)
  BY <1>2, DieUser DEF ListenGarbage, ClientGone
<1>3. CASE SendToClient(k)
  <2>1. request[k] \in Calls /\ UserOf[request[k]] = UserOf[k]
    BY <1>3 DEF TypeOK, UserInv, StreamsOwned, SendToClient
  <2>2. Frame(request[k]) \in Seq(OwnParts(k))
    BY <2>1 DEF Frame, Part, Parts, OwnParts
  <2>3. down[k] \o Frame(request[k]) \in Seq(OwnParts(k))
    BY <2>2 DEF UserInv, StreamsOwned
  <2>4. \A l \in Connections : down'[l] \in Seq(OwnParts(l))
    BY <1>3, <2>3 DEF TypeOK, UserInv, StreamsOwned, SendToClient, Answer
  <2>5. StreamsOwned'
    BY <1>3, <2>4 DEF UserInv, StreamsOwned, SendToClient
  <2>6. ConnectionsOwned' /\ RepliesStayWithTheirUser'
    BY <1>3 DEF UserInv, ConnectionsOwned, RepliesStayWithTheirUser, SendToClient, clientVars
  <2>7. QED  BY <2>5, <2>6 DEF UserInv
<1>4. CASE Execute(k) \/ ListenToNothing(k)
  BY <1>4 DEF UserInv, ConnectionsOwned, StreamsOwned, RepliesStayWithTheirUser, Execute,
     ListenToNothing, vars, clientVars, streams, serverVars
<1>5. QED  BY <1>1, <1>2, <1>3, <1>4 DEF ListenToClient

(* Faults only lose what there is. *)
LEMMA FaultUser ==
  ASSUME TypeOK, UserInv, Kill \/ StartServer \/ Recycle \/ (\E k \in Connections : Collect(k))
  PROVE  UserInv'
<1>1. CASE Kill  BY <1>1, DieUser DEF Kill
<1>2. CASE StartServer \/ Recycle \/ (\E k \in Connections : Collect(k))
  <2>1. ConnectionsOwned' /\ RepliesStayWithTheirUser'
    BY <1>2 DEF UserInv, ConnectionsOwned, RepliesStayWithTheirUser, StartServer, Recycle, Collect,
       clientVars
  <2>2. StreamsOwned'
    BY <1>2 DEF UserInv, StreamsOwned, StartServer, Recycle, Collect, streams, serverVars
  <2>3. QED  BY <2>1, <2>2 DEF UserInv
<1>3. QED  BY <1>1, <1>2

LEMMA UserInvariant == Spec => []UserInv
<1>1. Init => UserInv
  BY DEF Init, UserInv, ConnectionsOwned, StreamsOwned, RepliesStayWithTheirUser
<1>2. TypeOK /\ UserInv /\ [Next]_vars => UserInv'
  <2> SUFFICES ASSUME TypeOK, UserInv, [Next]_vars PROVE UserInv'  OBVIOUS
  <2>1. CASE UNCHANGED vars
    BY <2>1 DEF vars, clientVars, streams, serverVars, UserInv, ConnectionsOwned, StreamsOwned,
       RepliesStayWithTheirUser
  <2>2. CASE Next
    BY <2>1, <2>2, BeginUser, CallUser, ListenUser, FaultUser DEF Next
  <2>3. QED  BY <2>1, <2>2
<1>3. QED  BY <1>1, <1>2, BusTypeCorrect, PTL DEF Spec

(* However many calls share a stream, whatever fails, no call is given the   *)
(* reply to another user's call.                                             *)
THEOREM BusRepliesStayWithTheirUser == Spec => []RepliesStayWithTheirUser
<1>1. UserInv => RepliesStayWithTheirUser
  BY DEF UserInv
<1>2. QED  BY <1>1, UserInvariant, PTL

-----------------------------------------------------------------------------
(* No reply is given twice *)

Has(s, x)  == \E i \in DOMAIN s : s[i] = x
Once(s, x) == \A i, j \in DOMAIN s : s[i] = x /\ s[j] = x => i = j

(* The head is in the stream; the tail holds less. *)
LEMMA TailHas ==
  ASSUME NEW S, NEW s \in Seq(S), s # <<>>, NEW x
  PROVE  /\ Has(Tail(s), x) => Has(s, x)
         /\ Head(s) = x => Has(s, x)
         /\ Once(s, x) => Once(Tail(s), x)
         /\ Once(s, x) /\ Head(s) = x => ~ Has(Tail(s), x)
<1>1. /\ Len(s) \in Nat \ {0} /\ DOMAIN s = 1 .. Len(s) /\ Head(s) = s[1]
      /\ DOMAIN Tail(s) = 1 .. Len(s) - 1
      /\ \A i \in 1 .. Len(s) - 1 : Tail(s)[i] = s[i + 1]
  OBVIOUS
<1>2. QED  BY <1>1 DEF Has, Once

(* A part written is the last one. *)
LEMMA AppendHas ==
  ASSUME NEW S, NEW s \in Seq(S), NEW y, NEW x
  PROVE  /\ Has(Append(s, y), x) <=> Has(s, x) \/ y = x
         /\ Once(s, x) /\ (y = x => ~ Has(s, x)) => Once(Append(s, y), x)
<1>1. /\ Len(s) \in Nat /\ DOMAIN s = 1 .. Len(s)
      /\ DOMAIN Append(s, y) = 1 .. Len(s) + 1
      /\ \A i \in 1 .. Len(s) : Append(s, y)[i] = s[i]
      /\ Append(s, y)[Len(s) + 1] = y
  OBVIOUS
<1>2. Len(s) + 1 \in 1 .. Len(s) + 1 /\ \A i \in 1 .. Len(s) + 1 : i \in 1 .. Len(s) \/ i = Len(s) + 1
  BY <1>1
<1>3. QED  BY <1>1, <1>2 DEF Has, Once

(* A reply is its size and then its body. *)
LEMMA FrameHas ==
  ASSUME NEW s \in Seq(Parts), NEW d \in Calls, NEW c \in Calls
  PROVE  /\ Has(s \o Frame(d), Part("body", c)) <=> Has(s, Part("body", c)) \/ d = c
         /\ Once(s, Part("body", c)) /\ (d = c => ~ Has(s, Part("body", c)))
              => Once(s \o Frame(d), Part("body", c))
<1>1. s \o Frame(d) = Append(Append(s, Part("size", d)), Part("body", d))
  BY DEF Frame
<1>2. Part("size", d) # Part("body", c) /\ (Part("body", d) = Part("body", c) <=> d = c)
  BY DEF Part
<1>3. Append(s, Part("size", d)) \in Seq(Parts)
  BY AddOne DEF Part, Parts
<1> DEFINE t == Append(s, Part("size", d))
           x == Part("body", c)
<1>4. (Has(t, x) <=> Has(s, x)) /\ (Once(s, x) => Once(t, x))
  BY <1>2, AppendHas
<1>5. /\ Has(Append(t, Part("body", d)), x) <=> Has(t, x) \/ d = c
      /\ Once(t, x) /\ (d = c => ~ Has(t, x)) => Once(Append(t, Part("body", d)), x)
  <2> HIDE DEF t, x
  <2>1. Part("body", d) = x <=> d = c  BY <1>2 DEF x
  <2>2. t \in Seq(Parts)  BY <1>3 DEF t
  <2>3. QED  BY <2>1, <2>2, AppendHas
<1> HIDE DEF x
<1>6. QED  BY <1>1, <1>4, <1>5 DEF x

(* The size of call c's request is on the stream, the thread at its end works *)
(* on it, or the reply is on its way back.                                   *)
Sent(k, c)     == Has(up[k], Part("size", c))
Served(k, c)   == thread[k] \in {"readBody", "execute", "reply"} /\ request[k] = c
Answered(k, c) == Has(down[k], Part("body", c))
UnderWay(k, c) == Sent(k, c) \/ Served(k, c) \/ Answered(k, c)

Written(c) == pc[c] \notin {"waiting", "send"}

(* A call that is under way is so once, on the connection it uses; it is not  *)
(* before its size is written, and not any more once a call has its reply.   *)
PlacedInv ==
  \A k \in Connections, c \in Calls : UnderWay(k, c) => Written(c) /\ using[c] = k

OnceInv ==
  \A k \in Connections, c \in Calls :
    /\ Once(up[k], Part("size", c)) /\ Once(down[k], Part("body", c))
    /\ ~ (Sent(k, c) /\ Served(k, c))
    /\ ~ (Sent(k, c) /\ Answered(k, c))
    /\ ~ (Served(k, c) /\ Answered(k, c))

GivenInv ==
  \A d \in Calls : got[d] # None =>
    Written(got[d]) /\ \A k \in Connections : ~ UnderWay(k, got[d])

ReplyInv == PlacedInv /\ OnceInv /\ GivenInv /\ NoReplyIsGivenTwice

(* A step that only loses what is under way, and gives no reply. *)
Fewer ==
  \A k \in Connections, c \in Calls :
    /\ Sent(k, c)' => Sent(k, c)
    /\ Served(k, c)' => Served(k, c)
    /\ Answered(k, c)' => Answered(k, c)
    /\ Once(up[k], Part("size", c)) => Once(up'[k], Part("size", c))
    /\ Once(down[k], Part("body", c)) => Once(down'[k], Part("body", c))

(* What is written stays written, on the connection it was written on. *)
StaysWritten == \A c \in Calls : Written(c) => Written(c)' /\ using'[c] = using[c]

LEMMA FewerKeeps ==
  ASSUME TypeOK, ReplyInv, Fewer, StaysWritten, got' = got
  PROVE  ReplyInv'
<1>0. got \in [Calls -> Calls \cup {None}]  BY DEF TypeOK
<1>1. \A k \in Connections, c \in Calls : UnderWay(k, c)' => UnderWay(k, c)
  BY DEF Fewer, UnderWay
<1>2. PlacedInv'  BY <1>1 DEF ReplyInv, PlacedInv, StaysWritten
<1>3. OnceInv'    BY DEF ReplyInv, OnceInv, Fewer
<1>4. GivenInv'   BY <1>0, <1>1 DEF ReplyInv, GivenInv, StaysWritten
<1>5. NoReplyIsGivenTwice'  BY DEF ReplyInv, NoReplyIsGivenTwice
<1>6. QED  BY <1>2, <1>3, <1>4, <1>5 DEF ReplyInv

(* What the streams hold of calls is what they hold of their parts. *)
LEMMA StreamsTyped ==
  ASSUME TypeOK
  PROVE  \A k \in Connections : up[k] \in Seq(Parts) /\ down[k] \in Seq(Parts)
BY DEF TypeOK

(* A call begins, or a step of a call that neither writes nor reads. *)
LEMMA QuietCallReply ==
  ASSUME TypeOK, ReplyInv, NEW c \in Calls,
         \/ LogIn(c) \/ Request(c) \/ TurnAway(c) \/ CloseLost(c)
         \/ ConnectFails(c) \/ WriteFails(c) \/ BeginRead(c) \/ ReadSizeOutOfStep(c)
         \/ ReadGarbage(c) \/ ReadFails(c) \/ Forget(c)
  PROVE  ReplyInv'
<1> USE DEF At, GoTo
<1>0. pc \in [Calls -> {"waiting"} \cup InProgress \cup Ended] /\ using \in [Calls -> Connections \cup {None}]
  BY DEF TypeOK
<1>1. got' = got /\ up' = up /\ down' = down /\ thread' = thread /\ request' = request
  BY DEF LogIn, Request, TurnAway, CloseLost, ConnectFails, WriteFails, BeginRead,
         ReadSizeOutOfStep, ReadGarbage, ReadFails, Forget, streams, serverVars
<1>2. Fewer
  BY <1>1 DEF Fewer, Sent, Served, Answered
<1>3. CASE LogIn(c) \/ Request(c) \/ CloseLost(c)
  <2>1. ~ Written(c) /\ \A d \in Calls : d # c => pc'[d] = pc[d] /\ using'[d] = using[d]
    BY <1>0, <1>3 DEF LogIn, Request, CloseLost, Written
  <2>2. StaysWritten  BY <2>1 DEF StaysWritten, Written
  <2>3. QED  BY <1>1, <1>2, <2>2, FewerKeeps
<1>4. CASE \/ TurnAway(c) \/ ConnectFails(c) \/ WriteFails(c) \/ BeginRead(c)
           \/ ReadSizeOutOfStep(c) \/ ReadGarbage(c) \/ ReadFails(c) \/ Forget(c)
  <2>1. using' = using
    BY <1>4 DEF TurnAway, ConnectFails, WriteFails, BeginRead, ReadSizeOutOfStep, ReadGarbage,
                ReadFails, Forget
  <2>2. \E place \in {"turnedAway", "failed", "inReadSize", "inReadBody", "readBody"} :
          pc' = [pc EXCEPT ![c] = place]
    BY <1>4 DEF TurnAway, ConnectFails, WriteFails, BeginRead, ReadSizeOutOfStep, ReadGarbage,
                ReadFails, Forget
  <2>3. StaysWritten  BY <1>0, <2>1, <2>2 DEF StaysWritten, Written
  <2>4. QED  BY <1>1, <1>2, <2>3, FewerKeeps
<1>5. QED  BY <1>3, <1>4

(* The size of a request is written once. *)
LEMMA WriteSizeReply ==
  ASSUME TypeOK, ReplyInv, NEW c \in Calls, WriteSize(c)
  PROVE  ReplyInv'
<1> USE DEF At, GoTo, WriteSize
<1>0. /\ pc \in [Calls -> {"waiting"} \cup InProgress \cup Ended]
      /\ using[c] \in Connections /\ up \in [Connections -> Seq(Parts)]
      /\ got \in [Calls -> Calls \cup {None}]
  BY DEF TypeOK, InProgress
<1>1. ~ Written(c) /\ Written(c)' /\ \A d \in Calls : d # c => (Written(d)' <=> Written(d))
  BY <1>0 DEF Written
<1>2. using' = using /\ got' = got /\ down' = down /\ thread' = thread /\ request' = request
  BY DEF serverVars
<1>3. \A k \in Connections : ~ UnderWay(k, c)
  BY <1>1 DEF ReplyInv, PlacedInv
<1>4. \A d \in Calls : got[d] # c
  BY <1>1, CallsAssumption DEF ReplyInv, GivenInv
<1>5. ASSUME NEW k \in Connections, NEW d \in Calls
      PROVE  /\ Sent(k, d)' => Sent(k, d) \/ (d = c /\ k = using[c])
             /\ Once(up'[k], Part("size", d))
  <2>0. up[k] \in Seq(Parts) /\ Once(up[k], Part("size", d))
    BY StreamsTyped DEF ReplyInv, OnceInv
  <2>1. CASE up'[k] = up[k]
    BY <2>0, <2>1 DEF Sent
  <2>2. CASE k = using[c] /\ up'[k] = Append(up[k], Part("size", c))
    <3>1. Part("size", c) = Part("size", d) <=> c = d
      BY DEF Part
    <3>2. c = d => ~ Has(up[k], Part("size", d))
      BY <1>3 DEF UnderWay, Sent
    <3>3. /\ Has(up'[k], Part("size", d)) <=> Has(up[k], Part("size", d)) \/ c = d
          /\ Once(up'[k], Part("size", d))
      BY <2>0, <2>2, <3>1, <3>2, AppendHas
    <3>4. QED  BY <2>2, <3>3 DEF Sent
  <2>3. QED  BY <1>0, <2>1, <2>2 DEF Write
<1>6. ASSUME NEW k \in Connections, NEW d \in Calls
      PROVE  (Served(k, d)' <=> Served(k, d)) /\ (Answered(k, d)' <=> Answered(k, d))
  BY <1>2 DEF Served, Answered
<1>7. ASSUME NEW k \in Connections, NEW d \in Calls, UnderWay(k, d)'
      PROVE  UnderWay(k, d) \/ (d = c /\ k = using[c])
  BY <1>5, <1>6, <1>7 DEF UnderWay
<1>8. PlacedInv'
  BY <1>1, <1>2, <1>7 DEF ReplyInv, PlacedInv
<1>9. OnceInv'
  BY <1>2, <1>3, <1>5, <1>6 DEF ReplyInv, OnceInv, UnderWay
<1>10. GivenInv'
  BY <1>0, <1>1, <1>2, <1>4, <1>7 DEF ReplyInv, GivenInv
<1>11. NoReplyIsGivenTwice'
  BY <1>2 DEF ReplyInv, NoReplyIsGivenTwice
<1>12. QED  BY <1>8, <1>9, <1>10, <1>11 DEF ReplyInv

(* The body of a request counts for nothing; a connection begins empty, and a *)
(* size or a reply that is read and not returned is lost.                    *)
LEMMA LosingCallReply ==
  ASSUME TypeOK, ReplyInv, NEW c \in Calls,
         WriteBody(c) \/ Connect(c) \/ ReadSize(c) \/ ReadWrongType(c)
  PROVE  ReplyInv'
<1> USE DEF At, GoTo
<1>0. /\ pc \in [Calls -> {"waiting"} \cup InProgress \cup Ended]
      /\ using[c] \in Connections /\ up \in [Connections -> Seq(Parts)]
      /\ down \in [Connections -> Seq(Parts)] /\ DOMAIN thread = Connections
  BY DEF TypeOK, InProgress, Reading, WriteBody, Connect, ReadSize, ReadWrongType
<1>1. got' = got /\ using' = using /\ request' = request
  BY DEF WriteBody, Connect, ReadSize, ReadWrongType, serverVars
<1>2. StaysWritten
  BY <1>0, <1>1 DEF StaysWritten, Written, WriteBody, Connect, ReadSize, ReadWrongType
<1>3. CASE WriteBody(c)
  <2>1. down' = down /\ thread' = thread
    BY <1>3 DEF WriteBody, serverVars
  <2>2. ASSUME NEW k \in Connections, NEW d \in Calls
        PROVE  /\ Has(up'[k], Part("size", d)) => Has(up[k], Part("size", d))
               /\ Once(up[k], Part("size", d)) => Once(up'[k], Part("size", d))
    <3>1. Part("body", c) # Part("size", d)  BY DEF Part
    <3>2. up'[k] = up[k] \/ up'[k] = Append(up[k], Part("body", c))
      BY <1>0, <1>3 DEF WriteBody, Write
    <3>3. up[k] \in Seq(Parts)  BY StreamsTyped
    <3>4. QED  BY <3>1, <3>2, <3>3, AppendHas
  <2>3. Fewer  BY <1>1, <2>1, <2>2 DEF Fewer, Sent, Served, Answered
  <2>4. QED  BY <1>1, <1>2, <2>3, FewerKeeps
<1>4. CASE Connect(c)
  <2>1. Fewer  BY <1>0, <1>1, <1>4 DEF Connect, Fewer, Sent, Served, Answered, streams
  <2>2. QED  BY <1>1, <1>2, <2>1, FewerKeeps
<1>5. CASE ReadSize(c) \/ ReadWrongType(c)
  <2>1. up' = up /\ thread' = thread
    BY <1>5 DEF ReadSize, ReadWrongType, serverVars
  <2>2. down[using[c]] # <<>> /\ down' = [down EXCEPT ![using[c]] = Tail(down[using[c]])]
    BY <1>5 DEF ReadSize, ReadWrongType, Arrives, Consume
  <2>3. ASSUME NEW k \in Connections
        PROVE  down'[k] = down[k] \/ (down[k] # <<>> /\ down'[k] = Tail(down[k]))
    BY <1>0, <2>2
  <2>4. ASSUME NEW k \in Connections, NEW d \in Calls
        PROVE  /\ Has(down'[k], Part("body", d)) => Has(down[k], Part("body", d))
               /\ Once(down[k], Part("body", d)) => Once(down'[k], Part("body", d))
    BY <2>3, TailHas, StreamsTyped
  <2>5. Fewer  BY <1>1, <2>1, <2>4 DEF Fewer, Sent, Served, Answered
  <2>6. QED  BY <1>1, <1>2, <2>5, FewerKeeps
<1>6. QED  BY <1>3, <1>4, <1>5

(* A reply that is returned leaves the stream. *)
LEMMA ReadBodyReply ==
  ASSUME TypeOK, ReplyInv, NEW c \in Calls, ReadBody(c)
  PROVE  ReplyInv'
<1> USE DEF At, GoTo, ReadBody
<1>0. /\ pc \in [Calls -> {"waiting"} \cup InProgress \cup Ended]
      /\ using[c] \in Connections /\ down \in [Connections -> Seq(Parts)]
      /\ got \in [Calls -> Calls \cup {None}]
  BY DEF TypeOK, InProgress, Reading
<1>1. up' = up /\ thread' = thread /\ request' = request /\ using' = using
  BY DEF serverVars
<1> PICK k \in Connections : k = using[c]
  BY <1>0
<1>2. /\ down[k] # <<>> /\ down' = [down EXCEPT ![k] = Tail(down[k])]
      /\ got' = [got EXCEPT ![c] = Head(down[k]).call]
  BY DEF Arrives, Consume
<1>3. PICK given \in Calls : Head(down[k]) = Part("body", given)
  <2>1. Head(down[k]) \in Parts
    BY <1>0, <1>2, TakeOne
  <2>2. Head(down[k]).part = "body"
    BY DEF Arrives
  <2>3. QED  BY <2>1, <2>2 DEF Parts, Part
<1>g. got' = [got EXCEPT ![c] = given]
  <2>1. Head(down[k]).call = given  BY <1>3 DEF Part
  <2>2. QED  BY <1>2, <2>1
<1>4. StaysWritten
  BY <1>0, <1>1 DEF StaysWritten, Written
<1>5. ASSUME NEW l \in Connections, NEW d \in Calls
      PROVE  /\ Has(down'[l], Part("body", d)) => Has(down[l], Part("body", d))
             /\ Once(down[l], Part("body", d)) => Once(down'[l], Part("body", d))
  <2>1. \/ down'[l] = down[l]
        \/ down[l] # <<>> /\ down'[l] = Tail(down[l])
    BY <1>0, <1>2
  <2>2. QED  BY <2>1, TailHas, StreamsTyped
<1>6. Fewer
  BY <1>1, <1>5 DEF Fewer, Sent, Served, Answered
<1>7. ASSUME NEW l \in Connections, NEW d \in Calls, UnderWay(l, d)' PROVE UnderWay(l, d)
  BY <1>6, <1>7 DEF Fewer, UnderWay
<1>8. Answered(k, given)
  BY <1>0, <1>2, <1>3, TailHas DEF Answered
<1>9. Written(given) /\ using[given] = k
  BY <1>0, <1>3, <1>8 DEF ReplyInv, PlacedInv, UnderWay
<1>10. ~ Answered(k, given)'
  <2>1. Once(down[k], Part("body", given))
    BY <1>0, <1>3 DEF ReplyInv, OnceInv
  <2>2. ~ Has(Tail(down[k]), Part("body", given))
    BY <1>0, <1>2, <1>3, <2>1, TailHas
  <2>3. QED  BY <1>0, <1>2, <2>2 DEF Answered
<1>11. ASSUME NEW l \in Connections PROVE ~ UnderWay(l, given)'
  <2>1. ASSUME UnderWay(l, given)' PROVE l = k
    BY <1>3, <1>7, <1>9, <2>1 DEF ReplyInv, PlacedInv
  <2>2. ~ Sent(k, given)' /\ ~ Served(k, given)'
    BY <1>0, <1>3, <1>6, <1>8 DEF ReplyInv, OnceInv, Fewer
  <2>3. QED  BY <1>10, <2>1, <2>2 DEF UnderWay
<1>12. \A d \in Calls : got[d] # given
  BY <1>0, <1>3, <1>8, CallsAssumption DEF ReplyInv, GivenInv, UnderWay
<1>13. PlacedInv'
  BY <1>4, <1>7 DEF ReplyInv, PlacedInv, StaysWritten
<1>14. OnceInv'
  BY <1>6 DEF ReplyInv, OnceInv, Fewer
<1>15. GivenInv'
  <2>1. Written(given)' /\ \A l \in Connections : ~ UnderWay(l, given)'
    BY <1>3, <1>4, <1>9, <1>11 DEF StaysWritten
  <2>2. ASSUME NEW e \in Calls, NEW d \in Calls, got[d] = e
        PROVE  Written(e)' /\ \A l \in Connections : ~ UnderWay(l, e)'
    BY <1>4, <1>7, <2>2, CallsAssumption DEF ReplyInv, GivenInv, StaysWritten
  <2>3. \A d \in Calls : got'[d] = IF d = c THEN given ELSE got[d]
    BY <1>0, <1>g
  <2>4. SUFFICES ASSUME NEW d \in Calls, NEW e, e = got'[d], e # None
                 PROVE  Written(e)' /\ \A l \in Connections : ~ UnderWay(l, e)'
    BY <1>1 DEF GivenInv, Written, UnderWay, Sent, Served, Answered
  <2>5. CASE d = c
    BY <2>1, <2>3, <2>4, <2>5
  <2>6. CASE d # c
    BY <1>0, <2>2, <2>3, <2>4, <2>6
  <2>7. QED  BY <2>5, <2>6
<1>16. NoReplyIsGivenTwice'
  BY <1>0, <1>g, <1>12 DEF ReplyInv, NoReplyIsGivenTwice
<1>17. QED  BY <1>13, <1>14, <1>15, <1>16 DEF ReplyInv

(* The end of the Authentication process loses all that was sent or served.  *)
LEMMA DieReply ==
  ASSUME TypeOK, ReplyInv, Die
  PROVE  ReplyInv'
<1>1. got' = got /\ pc' = pc /\ using' = using /\ down' = down /\ up' = [k \in Connections |-> <<>>]
  BY DEF Die, clientVars
<1>2. \A k \in Connections : thread'[k] \notin {"readBody", "execute", "reply"}
  BY DEF Die, Serving
<1>3. StaysWritten  BY <1>1 DEF StaysWritten, Written
<1>4. \A x : \A k \in Connections : ~ Has(up'[k], x) /\ Once(up'[k], x)
  BY <1>1 DEF Has, Once
<1>5. Fewer  BY <1>1, <1>2, <1>4 DEF Fewer, Sent, Served, Answered
<1>6. QED  BY <1>1, <1>3, <1>5, FewerKeeps

(* The thread takes the size: the call is no longer on the stream.           *)
LEMMA ListenSizeReply ==
  ASSUME TypeOK, ReplyInv, NEW k \in Connections, ListenSize(k)
  PROVE  ReplyInv'
<1> USE DEF ListenSize
<1>0. /\ up \in [Connections -> Seq(Parts)] /\ up[k] \in Seq(Parts) /\ DOMAIN thread = Connections
      /\ DOMAIN request = Connections /\ got \in [Calls -> Calls \cup {None}]
  BY DEF TypeOK
<1>1. pc' = pc /\ using' = using /\ got' = got /\ down' = down /\ up[k] # <<>>
  BY DEF clientVars
<1>2. PICK e \in Calls : Head(up[k]) = Part("size", e)
  <2>1. Head(up[k]) \in Parts
    BY <1>0, <1>1, TakeOne
  <2>2. QED  BY <2>1 DEF Parts, Part
<1>3. Head(up[k]).call = e
  BY <1>2 DEF Part
<1>4. /\ up' = [up EXCEPT ![k] = Tail(up[k])] /\ request' = [request EXCEPT ![k] = e]
      /\ thread' = [thread EXCEPT ![k] = "readBody"]
  BY <1>3
<1>5. Sent(k, e) /\ ~ Answered(k, e) /\ Written(e) /\ using[e] = k
  <2>1. Sent(k, e)  BY <1>0, <1>1, <1>2, TailHas DEF Sent
  <2>2. QED  BY <2>1 DEF ReplyInv, OnceInv, PlacedInv, UnderWay
<1>6. ASSUME NEW l \in Connections, NEW c \in Calls
      PROVE  /\ Sent(l, c)' => Sent(l, c) /\ ~ (l = k /\ c = e)
             /\ Once(up'[l], Part("size", c))
  <2>1. Once(up[l], Part("size", c))
    BY DEF ReplyInv, OnceInv
  <2>2. CASE l # k
    BY <1>0, <1>4, <2>1, <2>2 DEF Sent
  <2>3. CASE l = k
    <3>1. up'[k] = Tail(up[k])
      BY <1>0, <1>4
    <3>2. /\ Has(Tail(up[k]), Part("size", c)) => Has(up[k], Part("size", c))
          /\ Once(Tail(up[k]), Part("size", c))
          /\ Head(up[k]) = Part("size", c) => ~ Has(Tail(up[k]), Part("size", c))
      BY <1>0, <1>1, <2>1, <2>3, TailHas
    <3>3. QED  BY <1>2, <2>3, <3>1, <3>2 DEF Sent
  <2>4. QED  BY <2>2, <2>3
<1>7. ASSUME NEW l \in Connections, NEW c \in Calls
      PROVE  /\ Served(l, c)' => Served(l, c) \/ (l = k /\ c = e)
             /\ Served(l, c)' /\ l = k => c = e
             /\ Answered(l, c)' <=> Answered(l, c)
  BY <1>0, <1>1, <1>4 DEF Served, Answered
<1>8. ASSUME NEW l \in Connections, NEW c \in Calls, UnderWay(l, c)' PROVE UnderWay(l, c)
  BY <1>5, <1>6, <1>7, <1>8 DEF UnderWay
<1>9. PlacedInv'
  BY <1>1, <1>8 DEF ReplyInv, PlacedInv, Written
<1>10. OnceInv'
  <2> SUFFICES ASSUME NEW l \in Connections, NEW c \in Calls
               PROVE  /\ ~ (Sent(l, c)' /\ Served(l, c)') /\ ~ (Sent(l, c)' /\ Answered(l, c)')
                      /\ ~ (Served(l, c)' /\ Answered(l, c)')
    BY <1>1, <1>6 DEF ReplyInv, OnceInv
  <2>1. /\ ~ (Sent(l, c) /\ Served(l, c)) /\ ~ (Sent(l, c) /\ Answered(l, c))
        /\ ~ (Served(l, c) /\ Answered(l, c))
    BY DEF ReplyInv, OnceInv
  <2>2. QED  BY <1>5, <1>6, <1>7, <2>1
<1>11. GivenInv'
  BY <1>0, <1>1, <1>8 DEF ReplyInv, GivenInv, Written
<1>12. NoReplyIsGivenTwice'
  BY <1>1 DEF ReplyInv, NoReplyIsGivenTwice
<1>13. QED  BY <1>9, <1>10, <1>11, <1>12 DEF ReplyInv

(* The thread replies: it does not work on the call any more. *)
LEMMA SendReply ==
  ASSUME TypeOK, ReplyInv, NEW k \in Connections, SendToClient(k)
  PROVE  ReplyInv'
<1> USE DEF SendToClient, Answer
<1>0. /\ down \in [Connections -> Seq(Parts)] /\ DOMAIN thread = Connections
      /\ got \in [Calls -> Calls \cup {None}]
  BY DEF TypeOK
<1>1. pc' = pc /\ using' = using /\ got' = got /\ up' = up /\ request' = request
  BY DEF clientVars
<1>2. PICK e \in Calls : e = request[k]
  BY DEF TypeOK
<1>3. Served(k, e) /\ ~ Answered(k, e) /\ ~ Sent(k, e)
  <2>1. Served(k, e)  BY <1>2 DEF Served
  <2>2. QED  BY <2>1 DEF ReplyInv, OnceInv
<1>4. ASSUME NEW l \in Connections, NEW c \in Calls
      PROVE  /\ Answered(l, c)' => Answered(l, c) \/ (l = k /\ c = e)
             /\ Once(down'[l], Part("body", c))
  <2>1. Once(down[l], Part("body", c)) /\ down[l] \in Seq(Parts)
    BY <1>0 DEF ReplyInv, OnceInv
  <2>2. CASE l # k
    BY <1>0, <2>1, <2>2 DEF Answered
  <2>3. CASE l = k
    <3>1. down'[k] = down[k] \o Frame(e)
      BY <1>0, <1>2
    <3>2. e = c => ~ Has(down[k], Part("body", c))
      BY <1>3 DEF Answered
    <3>3. /\ Has(down[k] \o Frame(e), Part("body", c)) => Has(down[k], Part("body", c)) \/ e = c
          /\ Once(down[k] \o Frame(e), Part("body", c))
      BY <2>1, <2>3, <3>2, FrameHas
    <3>4. QED  BY <2>3, <3>1, <3>3 DEF Answered
  <2>4. QED  BY <2>2, <2>3
<1>5. ASSUME NEW l \in Connections, NEW c \in Calls
      PROVE  /\ Sent(l, c)' <=> Sent(l, c)
             /\ Served(l, c)' => Served(l, c) /\ l # k
  BY <1>0, <1>1 DEF Served, Sent
<1>6. ASSUME NEW l \in Connections, NEW c \in Calls, UnderWay(l, c)' PROVE UnderWay(l, c)
  BY <1>3, <1>4, <1>5, <1>6 DEF UnderWay
<1>7. PlacedInv'
  BY <1>1, <1>6 DEF ReplyInv, PlacedInv, Written
<1>8. OnceInv'
  <2> SUFFICES ASSUME NEW l \in Connections, NEW c \in Calls
               PROVE  /\ ~ (Sent(l, c)' /\ Served(l, c)') /\ ~ (Sent(l, c)' /\ Answered(l, c)')
                      /\ ~ (Served(l, c)' /\ Answered(l, c)')
    BY <1>1, <1>4 DEF ReplyInv, OnceInv
  <2>1. /\ ~ (Sent(l, c) /\ Served(l, c)) /\ ~ (Sent(l, c) /\ Answered(l, c))
        /\ ~ (Served(l, c) /\ Answered(l, c))
    BY DEF ReplyInv, OnceInv
  <2>2. QED  BY <1>3, <1>4, <1>5, <2>1
<1>9. GivenInv'
  BY <1>0, <1>1, <1>6 DEF ReplyInv, GivenInv, Written
<1>10. NoReplyIsGivenTwice'
  BY <1>1 DEF ReplyInv, NoReplyIsGivenTwice
<1>11. QED  BY <1>7, <1>8, <1>9, <1>10 DEF ReplyInv

(* The other steps of the thread, and the faults. *)
LEMMA ServerReply ==
  ASSUME TypeOK, ReplyInv,
         \/ \E k \in Connections : ListenToClient(k) \/ Collect(k)
         \/ Kill \/ StartServer \/ Recycle
  PROVE  ReplyInv'
<1>1. CASE Kill \/ \E k \in Connections : ListenGarbage(k) \/ ClientGone(k)
  BY <1>1, DieReply DEF Kill, ListenGarbage, ClientGone
<1>2. ASSUME NEW k \in Connections, ListenBody(k) PROVE ReplyInv'
  <2>1. /\ up \in [Connections -> Seq(Parts)] /\ DOMAIN thread = Connections
    BY DEF TypeOK
  <2>2. /\ pc' = pc /\ using' = using /\ got' = got /\ down' = down /\ request' = request
        /\ up[k] # <<>> /\ up' = [up EXCEPT ![k] = Tail(up[k])]
        /\ thread[k] = "readBody" /\ thread' = [thread EXCEPT ![k] = "execute"]
    BY <1>2 DEF ListenBody, clientVars
  <2>3. ASSUME NEW l \in Connections, NEW c \in Calls
        PROVE  /\ Has(up'[l], Part("size", c)) => Has(up[l], Part("size", c))
               /\ Once(up[l], Part("size", c)) => Once(up'[l], Part("size", c))
    <3>1. up'[l] = up[l] \/ (up[l] # <<>> /\ up'[l] = Tail(up[l]))
      BY <2>1, <2>2
    <3>2. QED  BY <3>1, TailHas, StreamsTyped
  <2>4. Fewer  BY <2>1, <2>2, <2>3 DEF Fewer, Sent, Served, Answered
  <2>5. StaysWritten  BY <2>2 DEF StaysWritten, Written
  <2>6. QED  BY <2>2, <2>4, <2>5, FewerKeeps
<1>3. ASSUME NEW k \in Connections, Execute(k) PROVE ReplyInv'
  <2>1. DOMAIN thread = Connections
    BY DEF TypeOK
  <2>2. Fewer
    BY <1>3, <2>1 DEF Execute, Fewer, Sent, Served, Answered, streams
  <2>3. StaysWritten /\ got' = got
    BY <1>3 DEF Execute, StaysWritten, Written, clientVars
  <2>4. QED  BY <2>2, <2>3, FewerKeeps
<1>4. CASE StartServer \/ Recycle \/ \E k \in Connections : ListenToNothing(k) \/ Collect(k)
  <2>1. /\ up' = up /\ down' = down /\ thread' = thread /\ request' = request
        /\ got' = got /\ using' = using
    BY <1>4 DEF StartServer, Recycle, ListenToNothing, Collect, vars, clientVars, streams, serverVars
  <2>2. pc' = pc \/ pc' = [c \in Calls |-> IF pc[c] \in InProgress THEN "failed" ELSE pc[c]]
    BY <1>4 DEF StartServer, Recycle, ListenToNothing, Collect, vars, clientVars
  <2>3. Fewer  BY <2>1 DEF Fewer, Sent, Served, Answered
  <2>4. StaysWritten  BY <2>1, <2>2 DEF StaysWritten, Written
  <2>5. QED  BY <2>1, <2>3, <2>4, FewerKeeps
<1>5. QED  BY <1>1, <1>2, <1>3, <1>4, ListenSizeReply, SendReply DEF ListenToClient

(* However many calls share a stream and however they fail, every reply is    *)
(* given to one call at most.                                                *)
THEOREM BusNoReplyIsGivenTwice == Spec => []NoReplyIsGivenTwice
<1>1. Init => ReplyInv
  BY DEF Init, ReplyInv, PlacedInv, OnceInv, GivenInv, NoReplyIsGivenTwice, UnderWay, Sent, Served,
         Answered, Has, Once
<1>2. TypeOK /\ ReplyInv /\ [Next]_vars => ReplyInv'
  <2> SUFFICES ASSUME TypeOK, ReplyInv, [Next]_vars PROVE ReplyInv'  OBVIOUS
  <2>1. ASSUME UNCHANGED vars PROVE ReplyInv'
    BY <2>1 DEF vars, clientVars, streams, serverVars, ReplyInv, PlacedInv, OnceInv, GivenInv,
       NoReplyIsGivenTwice, UnderWay, Sent, Served, Answered, Written
  <2>2. ASSUME NEW c \in Calls, CallStep(c) PROVE ReplyInv'
    BY <2>1, <2>2, QuietCallReply, LosingCallReply, WriteSizeReply, ReadBodyReply
       DEF CallStep, ReadNothing
  <2>3. CASE Next
    BY <2>1, <2>2, <2>3, QuietCallReply, ServerReply DEF Next
  <2>4. QED  BY <2>1, <2>3
<1>3. ReplyInv => NoReplyIsGivenTwice
  BY DEF ReplyInv
<1>4. QED  BY <1>1, <1>2, <1>3, BusTypeCorrect, PTL DEF Spec

-----------------------------------------------------------------------------
(* Kept connections *)

(* The connection kept for a user is that of a log in that is over; a log in *)
(* uses its own, a request one whose log in is over; and what a look-up is   *)
(* about to remove the entry of, it has closed.                              *)
KeptInv ==
  /\ \A u \in Users : connections[u] # None => pc[connections[u]] = "returned"
  /\ \A c \in LogIns : pc[c] \in InProgress => using[c] = c
  /\ \A c \in Requests : pc[c] \in InProgress => pc[using[c]] = "returned"
  /\ \A c \in Calls : At(c, "forget") => c \in Requests /\ socket[using[c]] = "closed"

(* Where calls go, and what stays: a call that has returned stays so, and a  *)
(* closed socket closed.                                                     *)
LEMMA KeptStep ==
  ASSUME TypeOK, KeptInv, [Next]_vars
  PROVE  KeptInv'
<1> USE DEF At, GoTo
<1>0. /\ pc \in [Calls -> {"waiting"} \cup InProgress \cup Ended]
      /\ using \in [Calls -> Connections \cup {None}] /\ DOMAIN socket = Connections
      /\ connections \in [Users -> Connections \cup {None}] /\ UserOf \in [Calls -> Users]
      /\ \A c \in Calls : pc[c] \in InProgress => using[c] \in Connections
  BY CallsAssumption DEF TypeOK
<1>1. CASE UNCHANGED <<pc, using, connections, socket>>
  BY <1>1 DEF KeptInv
<1>2. ASSUME NEW c \in Calls, pc[c] # "returned", NEW place, pc' = [pc EXCEPT ![c] = place],
             using' = using, connections' = connections, place # "forget",
             place \in InProgress => pc[c] \in InProgress,
             \A k \in Connections : socket[k] = "closed" => socket'[k] = "closed"
      PROVE  KeptInv'
  <2>1. pc'[c] = place /\ \A d \in Calls : d # c => pc'[d] = pc[d]
    BY <1>0, <1>2
  <2>2. \A d \in Calls : pc[d] = "returned" => pc'[d] = "returned"
    BY <1>2, <2>1
  <2>3. \A d \in Calls : pc'[d] \in InProgress => pc[d] \in InProgress
    BY <1>2, <2>1
  <2>4. \A u \in Users : connections'[u] # None => pc'[connections'[u]] = "returned"
    BY <1>0, <1>2, <2>2 DEF KeptInv
  <2>5. \A d \in LogIns : pc'[d] \in InProgress => using'[d] = d
    BY <1>2, <2>3 DEF KeptInv
  <2>6. \A d \in Requests : pc'[d] \in InProgress => pc'[using'[d]] = "returned"
    BY <1>0, <1>2, <2>2, <2>3 DEF KeptInv
  <2>7. ASSUME NEW d \in Calls, pc'[d] = "forget"
        PROVE  d \in Requests /\ socket'[using'[d]] = "closed"
    <3>1. pc[d] = "forget"
      BY <1>2, <2>1, <2>7
    <3>2. using[d] \in Connections
      BY <1>0, <3>1 DEF InProgress
    <3>3. QED  BY <1>2, <3>1, <3>2 DEF KeptInv
  <2>8. QED  BY <2>4, <2>5, <2>6, <2>7 DEF KeptInv
<1>3. ASSUME NEW c \in Calls, LogIn(c) \/ Request(c) \/ TurnAway(c) \/ CloseLost(c)
      PROVE  KeptInv'
  <2>1. /\ pc[c] = "waiting" /\ connections' = connections
        /\ \A d \in Calls : d # c => pc'[d] = pc[d] /\ using'[d] = using[d]
    BY <1>0, <1>3 DEF LogIn, Request, TurnAway, CloseLost
  <2>2. \A k \in Connections : socket[k] = "closed" => socket'[k] = "closed"
    BY <1>0, <1>3 DEF LogIn, Request, TurnAway, CloseLost
  <2>3. \A d \in Calls : pc[d] = "returned" => pc'[d] = "returned"
    BY <2>1
  <2>4. /\ c \in LogIns /\ pc'[c] \in InProgress => using'[c] = c
        /\ c \in Requests /\ pc'[c] \in InProgress =>
             using'[c] \in Connections /\ pc[using'[c]] = "returned"
        /\ pc'[c] = "forget" => c \in Requests /\ socket'[using'[c]] = "closed"
    <3>1. CASE LogIn(c)
      BY <1>0, <3>1, CallsAssumption DEF LogIn
    <3>2. CASE Request(c)
      <4>1. PICK k \in Connections : k = connections[UserOf[c]]
        BY <1>0, <3>2 DEF Request, Usable, ConnectionOf
      <4>2. pc[k] = "returned"
        BY <1>0, <4>1, CallsAssumption DEF KeptInv
      <4>3. pc'[c] = "send" /\ using'[c] = k /\ c \in Requests
        BY <1>0, <3>2, <4>1 DEF Request, ConnectionOf
      <4>4. QED  BY <4>2, <4>3, CallsAssumption
    <3>3. CASE TurnAway(c)
      BY <1>0, <3>3 DEF TurnAway, InProgress, Reading
    <3>4. CASE CloseLost(c)
      <4>1. PICK k \in Connections : k = connections[UserOf[c]]
        BY <1>0, <3>4 DEF CloseLost, ConnectionOf
      <4>2. using'[c] = k /\ c \in Requests /\ pc[k] = "returned" /\ socket'[k] = "closed"
        BY <1>0, <3>4, <4>1 DEF CloseLost, ConnectionOf, KeptInv
      <4>3. QED  BY <4>2, CallsAssumption
    <3>5. QED  BY <1>3, <3>1, <3>2, <3>3, <3>4
  <2>5. \A u \in Users : connections'[u] # None => pc'[connections'[u]] = "returned"
    BY <1>0, <2>1, <2>3 DEF KeptInv
  <2>6. \A d \in LogIns : pc'[d] \in InProgress => using'[d] = d
    BY <2>1, <2>4 DEF KeptInv
  <2>7. ASSUME NEW d \in Requests, pc'[d] \in InProgress PROVE pc'[using'[d]] = "returned"
    <3>1. CASE d = c  BY <2>3, <2>4, <2>7, <3>1
    <3>2. CASE d # c
      <4>1. pc[d] \in InProgress /\ using'[d] = using[d]
        BY <2>1, <2>7, <3>2
      <4>2. QED  BY <1>0, <2>3, <4>1 DEF KeptInv
    <3>3. QED  BY <3>1, <3>2
  <2>8. ASSUME NEW d \in Calls, pc'[d] = "forget"
        PROVE  d \in Requests /\ socket'[using'[d]] = "closed"
    <3>1. CASE d = c  BY <2>4, <2>8, <3>1
    <3>2. CASE d # c
      <4>1. pc[d] = "forget" /\ using'[d] = using[d] /\ using[d] \in Connections
        BY <1>0, <2>1, <2>8, <3>2 DEF InProgress
      <4>2. QED  BY <2>2, <4>1 DEF KeptInv
    <3>3. QED  BY <3>1, <3>2
  <2>9. QED  BY <2>5, <2>6, <2>7, <2>8 DEF KeptInv
<1>4. ASSUME NEW c \in Calls, Forget(c) PROVE KeptInv'
  <2>1. /\ pc' = [pc EXCEPT ![c] = "turnedAway"] /\ using' = using /\ socket' = socket
        /\ pc[c] = "forget" /\ connections' = [connections EXCEPT ![UserOf[c]] = None]
    BY <1>4 DEF Forget
  <2>2. pc'[c] = "turnedAway" /\ \A d \in Calls : d # c => pc'[d] = pc[d]
    BY <1>0, <2>1
  <2>3. /\ \A d \in Calls : pc[d] = "returned" => pc'[d] = "returned"
        /\ \A d \in Calls : pc'[d] \in InProgress => pc[d] \in InProgress /\ d # c /\ pc'[d] = pc[d]
    BY <2>1, <2>2 DEF InProgress, Reading
  <2>4. \A u \in Users : connections'[u] # None => connections'[u] = connections[u]
    BY <1>0, <2>1
  <2>5. \A u \in Users : connections'[u] # None => pc'[connections'[u]] = "returned"
    BY <1>0, <2>3, <2>4 DEF KeptInv
  <2>6. /\ \A d \in LogIns : pc'[d] \in InProgress => using'[d] = d
        /\ \A d \in Requests : pc'[d] \in InProgress => pc'[using'[d]] = "returned"
    BY <1>0, <2>1, <2>3 DEF KeptInv
  <2>7. \A d \in Calls : pc'[d] = "forget" => d \in Requests /\ socket'[using'[d]] = "closed"
    BY <2>1, <2>2 DEF KeptInv
  <2>8. QED  BY <2>5, <2>6, <2>7 DEF KeptInv
<1>5. ASSUME NEW c \in Calls, ReadBody(c) PROVE KeptInv'
  <2>1. /\ pc' = [pc EXCEPT ![c] = "returned"] /\ using' = using /\ pc[c] = "inReadBody"
        /\ connections' = connections \/ connections' = [connections EXCEPT ![UserOf[c]] = c]
        /\ \A k \in Connections : socket[k] = "closed" => socket'[k] = "closed"
    BY <1>0, <1>5 DEF ReadBody, KeepOrClose
  <2>2. pc'[c] = "returned" /\ \A d \in Calls : d # c => pc'[d] = pc[d]
    BY <1>0, <2>1
  <2>3. /\ \A d \in Calls : pc[d] = "returned" => pc'[d] = "returned"
        /\ \A d \in Calls : pc'[d] \in InProgress => pc[d] \in InProgress /\ pc'[d] = pc[d]
    BY <2>1, <2>2 DEF InProgress, Reading
  <2>4. \A u \in Users : connections'[u] = connections[u] \/ connections'[u] = c
    BY <1>0, <2>1
  <2>5. \A u \in Users : connections'[u] # None => pc'[connections'[u]] = "returned"
    BY <1>0, <2>2, <2>3, <2>4 DEF KeptInv
  <2>6. /\ \A d \in LogIns : pc'[d] \in InProgress => using'[d] = d
        /\ \A d \in Requests : pc'[d] \in InProgress => pc'[using'[d]] = "returned"
    BY <1>0, <2>1, <2>3 DEF KeptInv
  <2>7. ASSUME NEW d \in Calls, pc'[d] = "forget"
        PROVE  d \in Requests /\ socket'[using'[d]] = "closed"
    <3>1. pc[d] = "forget" /\ using[d] \in Connections
      BY <1>0, <2>2, <2>7 DEF InProgress
    <3>2. QED  BY <2>1, <3>1 DEF KeptInv
  <2>8. QED  BY <2>5, <2>6, <2>7 DEF KeptInv
<1>6. ASSUME NEW c \in Calls, CallStep(c), ~ Forget(c), ~ ReadBody(c) PROVE KeptInv'
  <2>1. CASE ReadNothing(c)
    BY <1>1, <2>1 DEF ReadNothing, vars, clientVars
  <2>2. CASE Connect(c)
    <3>1. pc' = [pc EXCEPT ![c] = "send"] /\ pc[c] = "send" /\ using' = using /\ connections' = connections
      BY <1>0, <2>2 DEF Connect
    <3>2. \A k \in Connections : socket[k] = "closed" => socket'[k] = "closed"
      BY <1>0, <2>2 DEF Connect
    <3>3. QED  BY <1>2, <3>1, <3>2 DEF InProgress
  <2>3. CASE ~ Connect(c) /\ ~ ReadNothing(c)
    <3>1. \E place \in {"failed", "sendBody", "readSize", "readBody", "inReadSize", "inReadBody"} :
            pc' = [pc EXCEPT ![c] = place]
      BY <1>6, <2>3 DEF CallStep, ConnectFails, WriteSize, WriteBody, WriteFails, BeginRead, ReadSize,
         ReadSizeOutOfStep, ReadWrongType, ReadGarbage, ReadFails
    <3>2. pc[c] \in InProgress /\ pc[c] # "returned" /\ using' = using /\ connections' = connections
      BY <1>6, <2>3 DEF CallStep, ConnectFails, WriteSize, WriteBody, WriteFails, BeginRead, ReadSize,
         ReadSizeOutOfStep, ReadWrongType, ReadGarbage, ReadFails, InProgress, Reading
    <3>3. \A k \in Connections : socket[k] = "closed" => socket'[k] = "closed"
      BY <1>0, <1>6, <2>3 DEF CallStep, ConnectFails, WriteSize, WriteBody, WriteFails, BeginRead,
         ReadSize, ReadSizeOutOfStep, ReadWrongType, ReadGarbage, ReadFails, LoseSocket
    <3>4. QED  BY <1>2, <3>1, <3>2, <3>3
  <2>4. QED  BY <2>1, <2>2, <2>3
<1>7. ASSUME NEW k \in Connections, ListenToClient(k) PROVE KeptInv'
  BY <1>1, <1>7 DEF ListenToClient, ListenSize, ListenBody, ListenGarbage, Execute, SendToClient,
     ClientGone, ListenToNothing, Die, vars, clientVars
<1>8. ASSUME NEW k \in Connections, Collect(k) PROVE KeptInv'
  <2>1. /\ pc' = pc /\ using' = using /\ connections' = connections
        /\ \A l \in Connections : socket[l] = "closed" => socket'[l] = "closed"
    BY <1>0, <1>8 DEF Collect
  <2>2. \A c \in Calls : pc[c] = "forget" => using[c] \in Connections
    BY <1>0 DEF InProgress
  <2>3. QED  BY <2>1, <2>2 DEF KeptInv
<1>9. CASE Kill \/ StartServer \/ UNCHANGED vars
  BY <1>1, <1>9 DEF Kill, StartServer, Die, vars, clientVars
<1>10. CASE Recycle
  <2>1. /\ \A c \in Calls : pc'[c] \notin InProgress
        /\ \A u \in Users : connections'[u] = None
    BY <1>10 DEF Recycle, InProgress, Reading
  <2>2. QED  BY <2>1, CallsAssumption DEF KeptInv, InProgress
<1>11. QED  BY <1>3, <1>4, <1>5, <1>6, <1>7, <1>8, <1>9, <1>10 DEF Next

LEMMA KeptInvariant == Spec => []KeptInv
<1>1. Init => KeptInv
  BY DEF Init, KeptInv, At, InProgress, Reading
<1>2. QED  BY <1>1, KeptStep, BusTypeCorrect, PTL DEF Spec

(* As long as the web server's process lives, a connected connection of a    *)
(* user is not closed, and it is forgotten only by a look-up of his that had *)
(* closed an earlier connection: whatever the users' sessions and hubs do at *)
(* once, and however often the Authentication process dies.                  *)
THEOREM BusLiveConnectionsAreKept == Spec => LiveConnectionsAreKept
<1> DEFINE Kept == \A u \in Users :
             LET k == connections[u] IN
             k # None /\ socket[k] = "connected" /\ faults' = faults =>
               /\ socket'[k] # "closed"
               /\ \/ connections'[u] # None
                  \/ \E c \in Requests : At(c, "forget") /\ UserOf[c] = u /\ using[c] # k
<1>1. TypeOK /\ KeptInv /\ [Next]_vars => Kept \/ UNCHANGED vars
  <2> SUFFICES ASSUME TypeOK, KeptInv, Next, NEW u \in Users, NEW k, k = connections[u],
                      k # None, socket[k] = "connected", faults' = faults
               PROVE  /\ socket'[k] # "closed"
                      /\ \/ connections'[u] # None
                         \/ \E c \in Requests : At(c, "forget") /\ UserOf[c] = u /\ using[c] # k
    OBVIOUS
  <2>0. /\ connections \in [Users -> Connections \cup {None}] /\ DOMAIN socket = Connections
        /\ k \in Connections /\ pc[k] = "returned"
        /\ DOMAIN faults = {"kills", "recycles"} /\ faults.recycles \in Nat
    BY BoundsAssumption DEF TypeOK, KeptInv
  <2>1. ASSUME NEW c \in Calls, Forget(c)
        PROVE  /\ socket' = socket
               /\ \/ connections'[u] # None
                  \/ \E d \in Requests : At(d, "forget") /\ UserOf[d] = u /\ using[d] # k
    <3>1. c \in Requests /\ socket[using[c]] = "closed" /\ At(c, "forget")
      BY <2>1 DEF Forget, KeptInv
    <3>2. using[c] # k
      BY <3>1
    <3>3. connections'[u] # connections[u] => UserOf[c] = u
      BY <2>0, <2>1 DEF Forget
    <3>4. QED  BY <2>1, <3>1, <3>2, <3>3 DEF Forget
  <2>2. ASSUME NEW c \in Calls, ReadBody(c)
        PROVE  socket'[k] # "closed" /\ connections'[u] # None
    <3>1. c # k
      BY <2>0, <2>2 DEF ReadBody, At
    <3>2. QED  BY <2>0, <2>2, <3>1, CallsAssumption DEF ReadBody, KeepOrClose
  <2>3. ~ Recycle
    BY <2>0 DEF Recycle
  <2>4. ASSUME NEW c \in Calls, CallStep(c), ~ Forget(c), ~ ReadBody(c)
        PROVE  socket'[k] # "closed" /\ connections' = connections
    BY <2>0, <2>4 DEF CallStep, Connect, ConnectFails, WriteSize, WriteBody, WriteFails, BeginRead,
       ReadSize, ReadSizeOutOfStep, ReadWrongType, ReadGarbage, ReadFails, ReadNothing, LoseSocket,
       vars, clientVars
  <2>5. ASSUME NEW c \in Calls, LogIn(c) \/ Request(c) \/ TurnAway(c) \/ CloseLost(c)
        PROVE  socket'[k] # "closed" /\ connections' = connections
    <3>1. CASE CloseLost(c)
      <4>1. ConnectionOf(UserOf[c]) # k
        BY <3>1 DEF CloseLost, Usable
      <4>2. QED  BY <2>0, <3>1, <4>1 DEF CloseLost
    <3>2. QED  BY <2>5, <3>1 DEF LogIn, Request, TurnAway
  <2>6. ASSUME NEW l \in Connections, ListenToClient(l) \/ Collect(l)
        PROVE  socket'[k] # "closed" /\ connections' = connections
    BY <2>0, <2>6 DEF ListenToClient, ListenSize, ListenBody, ListenGarbage, Execute, SendToClient,
       ClientGone, ListenToNothing, Die, Collect, vars, clientVars
  <2>7. CASE Kill \/ StartServer \/ UNCHANGED vars
    BY <2>7 DEF Kill, StartServer, Die, vars, clientVars
  <2>8. QED  BY <2>1, <2>2, <2>3, <2>4, <2>5, <2>6, <2>7 DEF Next
<1>2. QED  BY <1>1, KeptInvariant, BusTypeCorrect, PTL DEF Spec, LiveConnectionsAreKept

-----------------------------------------------------------------------------
(* Requests of a user that do not overlap *)

(* Two requests of one user are never in progress at once; log ins of his,   *)
(* in other sessions, may be.                                                *)
RequestsDoNotOverlap ==
  \A c, d \in Requests :
    UserOf[c] = UserOf[d] /\ pc[c] \in InProgress /\ pc[d] \in InProgress => c = d

(* All the requests of a user come from the pages of one session, or all     *)
(* from one client of the chat hub.                                          *)
OneLaneEach == \A c, d \in Requests : UserOf[c] = UserOf[d] => LaneOf[c] = LaneOf[d]

(* Then they do not overlap. *)
THEOREM BusRequestsDoNotOverlap == OneLaneEach => (Spec => []RequestsDoNotOverlap)
<1> SUFFICES ASSUME OneLaneEach PROVE Spec => []RequestsDoNotOverlap  OBVIOUS
<1>1. Init => RequestsDoNotOverlap
  BY DEF Init, RequestsDoNotOverlap, InProgress, Reading
<1>2. TypeOK /\ RequestsDoNotOverlap /\ [Next]_vars => RequestsDoNotOverlap'
  <2> SUFFICES ASSUME TypeOK, RequestsDoNotOverlap, [Next]_vars PROVE RequestsDoNotOverlap'  OBVIOUS
  <2>0. pc \in [Calls -> {"waiting"} \cup InProgress \cup Ended]  BY DEF TypeOK
  <2>1. ASSUME NEW c \in Calls, LogIn(c) \/ Request(c) \/ TurnAway(c) \/ CloseLost(c)
        PROVE  RequestsDoNotOverlap'
    <3>1. LaneFree(c) /\ \E place : pc' = [pc EXCEPT ![c] = place]
      BY <2>1 DEF LogIn, Request, TurnAway, CloseLost, GoTo
    <3>2. \A d \in Calls : d # c => pc'[d] = pc[d]
      BY <2>0, <3>1
    <3>3. \A d \in Requests : c \in Requests /\ UserOf[d] = UserOf[c] => pc[d] \notin InProgress
      BY <3>1 DEF LaneFree, OneLaneEach
    <3>4. QED  BY <3>2, <3>3 DEF RequestsDoNotOverlap
  <2>2. ASSUME \A c \in Calls : pc'[c] \in InProgress => pc[c] \in InProgress
        PROVE  RequestsDoNotOverlap'
    BY <2>2 DEF RequestsDoNotOverlap
  <2>3. ASSUME NEW c \in Calls, CallStep(c)
        PROVE  pc[c] \in InProgress /\ \A d \in Calls : d # c => pc'[d] = pc[d]
    BY <2>0, <2>3 DEF CallStep, Connect, ConnectFails, WriteSize, WriteBody, WriteFails, BeginRead,
       ReadSize, ReadSizeOutOfStep, ReadBody, ReadWrongType, ReadGarbage, ReadFails, ReadNothing,
       Forget, At, GoTo, InProgress, Reading, vars, clientVars
  <2>4. ASSUME NEW k \in Connections, ListenToClient(k) \/ Collect(k) PROVE pc' = pc
    BY <2>4 DEF ListenToClient, ListenSize, ListenBody, ListenGarbage, Execute, SendToClient,
       ClientGone, ListenToNothing, Collect, Die, vars, clientVars
  <2>5. CASE Kill \/ StartServer \/ Recycle
    <3>1. \A c \in Calls : pc'[c] = pc[c] \/ pc'[c] = "failed"
      BY <2>5 DEF Kill, StartServer, Recycle, Die, clientVars
    <3>2. QED  BY <2>2, <3>1 DEF InProgress, Reading
  <2>6. CASE UNCHANGED vars
    BY <2>2, <2>6 DEF vars, clientVars
  <2>7. QED  BY <2>1, <2>2, <2>3, <2>4, <2>5, <2>6 DEF Next
<1>3. QED  BY <1>1, <1>2, BusTypeCorrect, PTL DEF Spec

(* Where an exchange of call c is on connection k.  Nothing is under way.    *)
Idle(k) == up[k] = <<>> /\ down[k] = <<>> /\ thread[k] \notin {"readBody", "execute", "reply"}

(* Nothing is, and no thread serves the connection.                          *)
Lost(k) == Idle(k) /\ thread[k] # "readSize"

(* The size is written; the request is and the reply is not read; the size   *)
(* of the reply is read.                                                     *)
HalfAsked(k, c) ==
  \/ Lost(k)
  \/ thread[k] = "readSize" /\ up[k] = <<Part("size", c)>> /\ down[k] = <<>>
  \/ thread[k] = "readBody" /\ request[k] = c /\ up[k] = <<>> /\ down[k] = <<>>

Working(k, c) ==
  \/ thread[k] = "readSize" /\ up[k] = Frame(c) /\ down[k] = <<>>
  \/ thread[k] = "readBody" /\ request[k] = c /\ up[k] = <<Part("body", c)>> /\ down[k] = <<>>
  \/ thread[k] \in {"execute", "reply"} /\ request[k] = c /\ up[k] = <<>> /\ down[k] = <<>>

Replied(k, c) ==
  up[k] = <<>> /\ down[k] = Frame(c) /\ thread[k] \notin {"readBody", "execute", "reply"}

Asked(k, c) == Lost(k) \/ Working(k, c) \/ Replied(k, c)

HalfRead(k, c) ==
  /\ up[k] = <<>> /\ down[k] = <<Part("body", c)>>
  /\ thread[k] \notin {"readBody", "execute", "reply"}

(* A call and the stream it uses are at the same point of the exchange.      *)
InPhase(k, c) ==
  /\ At(c, "send") => Idle(k)
  /\ At(c, "sendBody") => HalfAsked(k, c)
  /\ pc[c] \in {"readSize", "inReadSize"} => Asked(k, c)
  /\ pc[c] \in {"readBody", "inReadBody"} => HalfRead(k, c)

PhaseInv == \A k \in Connections, c \in Calls : using[c] = k => InPhase(k, c)

(* Every stream carries at most one exchange, whether its call goes on or    *)
(* has been broken off; a connection that can be used again carries none.    *)
Orderly(k) == Idle(k) \/ \E c \in Calls : HalfAsked(k, c) \/ Asked(k, c) \/ HalfRead(k, c)
Unused(k)  == \A c \in Calls : using[c] = k => pc[c] \notin InProgress

StreamInv ==
  \A k \in Connections :
    /\ ~ outOfStep[k]
    /\ Orderly(k)
    /\ socket[k] = "connected" /\ Unused(k) => Idle(k)

(* Only the log in that makes a connection uses it before it is connected.   *)
NewInv ==
  /\ \A k \in Connections : socket[k] = "new" =>
       /\ Lost(k)
       /\ \A u \in Users : connections[u] # k
       /\ \A c \in Calls : using[c] = k /\ pc[c] \in InProgress => c = k /\ At(c, "send")
  /\ \A c \in LogIns : At(c, "waiting") => socket[c] = "new"

SessionInv == PhaseInv /\ StreamInv /\ NewInv /\ CallsGetTheirOwnReply

(* Two calls in progress do not use one connection: a log in has its own,    *)
(* and what requests use comes from a log in that is over.                   *)
LEMMA OneCallEach ==
  ASSUME TypeOK, ConnectionsOwned, KeptInv, RequestsDoNotOverlap,
         NEW c \in Calls, NEW d \in Calls, pc[c] \in InProgress, pc[d] \in InProgress,
         using[c] = using[d]
  PROVE  c = d
<1>0. using[c] # None /\ using[d] # None /\ "returned" \notin InProgress
  BY DEF TypeOK, InProgress, Reading
<1>1. CASE c \in Requests /\ d \in Requests
  BY <1>0, <1>1 DEF ConnectionsOwned, RequestsDoNotOverlap
<1>2. CASE c \in LogIns \/ d \in LogIns
  BY <1>0, <1>2 DEF KeptInv
<1>3. QED  BY <1>1, <1>2

(* A step that leaves every exchange on k where the caller takes it to be.   *)
Keeps(k) ==
  /\ Idle(k) => Idle(k)'
  /\ Lost(k) => Lost(k)'
  /\ \A c \in Calls :
       /\ HalfAsked(k, c) => HalfAsked(k, c)'
       /\ Asked(k, c) => Asked(k, c)'
       /\ HalfRead(k, c) => HalfRead(k, c)'

(* A connection none of whose streams change.                                *)
LEMMA StillKeeps ==
  ASSUME NEW k, up'[k] = up[k], down'[k] = down[k], request'[k] = request[k], thread'[k] = thread[k]
  PROVE  Keeps(k)
BY DEF Keeps, Idle, Lost, HalfAsked, Asked, Working, Replied, HalfRead

(* The end of the Authentication process loses every exchange that has not   *)
(* been answered.                                                            *)
LEMMA DieKeeps ==
  ASSUME TypeOK, Die, NEW k \in Connections
  PROVE  Keeps(k)
<1>1. up'[k] = <<>> /\ down'[k] = down[k]
  BY DEF Die
<1>2. thread'[k] \notin {"readSize", "readBody", "execute", "reply"}
  BY DEF Die, Serving
<1>3. QED  BY <1>1, <1>2 DEF Keeps, Idle, Lost, HalfAsked, Asked, Working, Replied, HalfRead

(* The thread takes one exchange from one point to the next.                 *)
LEMMA ListenKeeps ==
  ASSUME TypeOK, NEW k \in Connections, ListenToClient(k), NEW l \in Connections
  PROVE  Keeps(l)
<1>0. /\ DOMAIN up = Connections /\ DOMAIN down = Connections
      /\ DOMAIN thread = Connections /\ DOMAIN request = Connections
      /\ down[k] \in Seq(Parts)
  BY DEF TypeOK
<1>1. CASE ListenGarbage(k) \/ ClientGone(k)
  BY <1>1, DieKeeps DEF ListenGarbage, ClientGone
<1>2. CASE ListenToNothing(k)
  BY <1>2, StillKeeps DEF ListenToNothing, vars, streams, serverVars
<1>3. CASE l # k /\ (ListenSize(k) \/ ListenBody(k) \/ Execute(k) \/ SendToClient(k))
  <2>1. /\ up'[l] = up[l] /\ down'[l] = down[l]
        /\ request'[l] = request[l] /\ thread'[l] = thread[l]
    BY <1>0, <1>3 DEF ListenSize, ListenBody, Execute, SendToClient, Answer, streams
  <2>2. QED  BY <2>1, StillKeeps
<1>4. CASE l = k /\ ListenSize(k)
  <2>1. /\ thread[k] = "readSize" /\ up[k] # <<>> /\ up'[k] = Tail(up[k]) /\ down' = down
        /\ request'[k] = Head(up[k]).call /\ thread'[k] = "readBody"
    BY <1>0, <1>4 DEF ListenSize
  <2>2. ASSUME NEW c \in Calls, HalfAsked(k, c) PROVE HalfAsked(k, c)'
    <3>1. up[k] = <<Part("size", c)>> /\ down[k] = <<>>
      BY <2>1, <2>2 DEF HalfAsked, Lost, Idle
    <3>2. Tail(up[k]) = <<>> /\ Head(up[k]).call = c
      BY <3>1 DEF Part
    <3>3. QED  BY <2>1, <3>1, <3>2 DEF HalfAsked
  <2>3. ASSUME NEW c \in Calls, Asked(k, c) PROVE Asked(k, c)'
    <3>1. up[k] = Frame(c) /\ down[k] = <<>>
      BY <2>1, <2>3 DEF Asked, Working, Replied, Lost, Idle
    <3>2. Tail(up[k]) = <<Part("body", c)>> /\ Head(up[k]).call = c
      BY <3>1 DEF Part, Frame
    <3>3. QED  BY <2>1, <3>1, <3>2 DEF Asked, Working
  <2>4. QED  BY <1>4, <2>1, <2>2, <2>3 DEF Keeps, Idle, Lost, HalfRead
<1>5. CASE l = k /\ ListenBody(k)
  <2>1. /\ thread[k] = "readBody" /\ up[k] # <<>> /\ up'[k] = Tail(up[k]) /\ down' = down
        /\ request'[k] = request[k] /\ thread'[k] = "execute"
    BY <1>0, <1>5 DEF ListenBody
  <2>2. ASSUME NEW c \in Calls, Asked(k, c) PROVE Asked(k, c)'
    <3>1. up[k] = <<Part("body", c)>> /\ down[k] = <<>> /\ request[k] = c
      BY <2>1, <2>2 DEF Asked, Working, Replied, Lost, Idle
    <3>2. Tail(up[k]) = <<>>
      BY <3>1
    <3>3. QED  BY <2>1, <3>1, <3>2 DEF Asked, Working
  <2>3. QED  BY <1>5, <2>1, <2>2 DEF Keeps, Idle, Lost, HalfRead, HalfAsked
<1>6. CASE l = k /\ Execute(k)
  <2>1. /\ thread[k] = "execute" /\ thread'[k] = "reply"
        /\ up' = up /\ down' = down /\ request' = request
    BY <1>0, <1>6 DEF Execute, streams
  <2>2. QED  BY <1>6, <2>1 DEF Keeps, Idle, Lost, HalfAsked, Asked, Working, Replied, HalfRead
<1>7. CASE l = k /\ SendToClient(k)
  <2>1. /\ thread[k] = "reply" /\ thread'[k] \in {"readSize", "ended"}
        /\ up' = up /\ down'[k] = down[k] \o Frame(request[k])
    BY <1>0, <1>7 DEF SendToClient, Answer
  <2>2. ASSUME NEW c \in Calls, Asked(k, c) PROVE Asked(k, c)'
    <3>1. up[k] = <<>> /\ down[k] = <<>> /\ request[k] = c
      BY <2>1, <2>2 DEF Asked, Working, Replied, Lost, Idle
    <3>2. down'[k] = Frame(c)
      BY <2>1, <3>1 DEF Frame
    <3>3. QED  BY <2>1, <3>1, <3>2 DEF Asked, Replied
  <2>3. QED  BY <1>7, <2>1, <2>2 DEF Keeps, Idle, Lost, HalfRead, HalfAsked
<1>8. QED  BY <1>1, <1>2, <1>3, <1>4, <1>5, <1>6, <1>7 DEF ListenToClient

(* A step of the bus: the web server's side does not change.                 *)
LEMMA ServerSession ==
  ASSUME TypeOK, SessionInv, \A k \in Connections : Keeps(k), UNCHANGED <<clientVars, outOfStep>>
  PROVE  SessionInv'
<1>0. /\ pc' = pc /\ using' = using /\ got' = got /\ connections' = connections
      /\ socket' = socket /\ outOfStep' = outOfStep
  BY DEF clientVars
<1>1. PhaseInv'
  BY <1>0 DEF SessionInv, PhaseInv, InPhase, Keeps, At
<1>2. StreamInv'
  <2>1. \A k \in Connections : Orderly(k)'
    BY DEF SessionInv, StreamInv, Orderly, Keeps
  <2>2. \A k \in Connections : Unused(k)' => Unused(k)
    BY <1>0 DEF Unused
  <2>3. QED  BY <1>0, <2>1, <2>2 DEF SessionInv, StreamInv, Keeps
<1>3. NewInv'
  BY <1>0 DEF SessionInv, NewInv, Keeps, At
<1>4. CallsGetTheirOwnReply'
  BY <1>0 DEF SessionInv, CallsGetTheirOwnReply
<1>5. QED  BY <1>1, <1>2, <1>3, <1>4 DEF SessionInv

(* The web server loses its memory, or a connection is finalized.            *)
LEMMA RecycleSession ==
  ASSUME TypeOK, SessionInv, Recycle \/ (\E k \in Connections : Collect(k))
  PROVE  SessionInv'
<1>0. /\ pc \in [Calls -> {"waiting"} \cup InProgress \cup Ended] /\ DOMAIN socket = Connections
      /\ up' = up /\ down' = down /\ thread' = thread /\ request' = request
      /\ outOfStep' = outOfStep /\ using' = using /\ got' = got
  BY DEF TypeOK, Recycle, Collect, serverVars
<1>1. \A k \in Connections : Keeps(k)
  BY <1>0, StillKeeps
<1>2. \A k \in Connections : Orderly(k)'
  BY <1>1 DEF SessionInv, StreamInv, Orderly, Keeps
<1>3. CASE Recycle
  <2>1. /\ \A c \in Calls : pc'[c] \notin InProgress /\ (pc'[c] = pc[c] \/ pc'[c] = "failed")
        /\ \A k \in Connections : socket'[k] # "connected" /\ (socket'[k] = "new" <=> socket[k] = "new")
        /\ \A u \in Users : connections'[u] = None
    BY <1>3 DEF Recycle, InProgress, Reading
  <2>2. PhaseInv'
    BY <2>1 DEF PhaseInv, InPhase, At, InProgress, Reading
  <2>3. StreamInv'
    BY <1>0, <1>2, <2>1 DEF SessionInv, StreamInv
  <2>4. NewInv'
    BY <1>1, <2>1, CallsAssumption DEF SessionInv, NewInv, Keeps, At
  <2>5. CallsGetTheirOwnReply'
    BY <1>0, <2>1 DEF SessionInv, CallsGetTheirOwnReply
  <2>6. QED  BY <2>2, <2>3, <2>4, <2>5 DEF SessionInv
<1>4. ASSUME NEW k \in Connections, Collect(k) PROVE SessionInv'
  <2>1. /\ pc' = pc /\ connections' = connections /\ socket[k] # "new"
        /\ \A l \in Connections : socket'[l] = IF l = k THEN "closed" ELSE socket[l]
    BY <1>0, <1>4 DEF Collect
  <2>2. PhaseInv'
    BY <1>0, <1>1, <2>1 DEF SessionInv, PhaseInv, InPhase, Keeps, At
  <2>3. StreamInv'
    <3>1. \A l \in Connections : Unused(l)' => Unused(l)
      BY <1>0, <2>1 DEF Unused
    <3>2. QED  BY <1>0, <1>1, <1>2, <2>1, <3>1 DEF SessionInv, StreamInv, Keeps
  <2>4. NewInv'
    BY <1>0, <1>1, <2>1 DEF SessionInv, NewInv, Keeps, At
  <2>5. CallsGetTheirOwnReply'
    BY <1>0, <2>1 DEF SessionInv, CallsGetTheirOwnReply
  <2>6. QED  BY <2>2, <2>3, <2>4, <2>5 DEF SessionInv
<1>5. QED  BY <1>3, <1>4

(* A call begins: its connection is a new one, or an idle one of its user's. *)
LEMMA BeginSession ==
  ASSUME TypeOK, ConnectionsOwned, KeptInv, RequestsDoNotOverlap', SessionInv, NEW c \in Calls,
         LogIn(c) \/ Request(c) \/ TurnAway(c) \/ CloseLost(c)
  PROVE  SessionInv'
<1> USE DEF At, GoTo
<1>0. /\ pc \in [Calls -> {"waiting"} \cup InProgress \cup Ended]
      /\ using \in [Calls -> Connections \cup {None}] /\ DOMAIN socket = Connections
      /\ connections \in [Users -> Connections \cup {None}]
      /\ UserOf \in [Calls -> Users] /\ pc[c] = "waiting" /\ pc[c] \notin InProgress
  BY CallsAssumption DEF TypeOK, LogIn, Request, TurnAway, CloseLost, InProgress, Reading
<1>1. /\ up' = up /\ down' = down /\ thread' = thread /\ request' = request
      /\ outOfStep' = outOfStep /\ got' = got /\ connections' = connections
  BY DEF LogIn, Request, TurnAway, CloseLost, streams, serverVars
<1>2. /\ \A d \in Calls : d # c => pc'[d] = pc[d] /\ using'[d] = using[d]
      /\ \A k \in Connections : socket'[k] = socket[k] \/ (socket'[k] = "closed" /\ socket[k] # "new")
  <2>1. CASE LogIn(c) \/ Request(c) \/ TurnAway(c)
    BY <1>0, <2>1 DEF LogIn, Request, TurnAway
  <2>2. CASE CloseLost(c)
    <3>1. connections[UserOf[c]] \in Connections
      BY <1>0, <2>2 DEF CloseLost, ConnectionOf
    <3>2. socket[connections[UserOf[c]]] # "new"
      BY <1>0, <3>1 DEF SessionInv, NewInv
    <3>3. QED  BY <1>0, <2>2, <3>2 DEF CloseLost, ConnectionOf
  <2>3. QED  BY <2>1, <2>2
<1>3. \A k \in Connections : Keeps(k)
  BY <1>1, StillKeeps
<1>4. \A k \in Connections : Orderly(k)'
  BY <1>3 DEF SessionInv, StreamInv, Orderly, Keeps
<1>5. ASSUME NEW k \in Connections, Unused(k)' PROVE Unused(k)
  BY <1>0, <1>2, <1>5 DEF Unused
<1>6. StreamInv'
  BY <1>1, <1>2, <1>3, <1>4, <1>5 DEF SessionInv, StreamInv, Keeps
<1>7. ASSUME NEW k \in Connections, NEW d \in Calls, d # c, using'[d] = k PROVE InPhase(k, d)'
  <2>1. InPhase(k, d)
    BY <1>2, <1>7 DEF SessionInv, PhaseInv
  <2>2. QED  BY <1>2, <1>3, <1>7, <2>1 DEF InPhase, Keeps
<1>8. ASSUME \A k \in Connections : using'[c] = k => InPhase(k, c)'
      PROVE  PhaseInv'
  BY <1>7, <1>8 DEF PhaseInv
<1>9. ASSUME pc'[c] # "waiting",
              \A k \in Connections : socket[k] = "new" /\ using'[c] = k /\ pc'[c] \in InProgress
                                       => c = k /\ pc'[c] = "send"
       PROVE  NewInv'
  <2>1. ASSUME NEW k \in Connections, socket'[k] = "new"
        PROVE  /\ Lost(k)' /\ \A u \in Users : connections'[u] # k
               /\ \A d \in Calls : using'[d] = k /\ pc'[d] \in InProgress => d = k /\ pc'[d] = "send"
    BY <1>1, <1>2, <1>3, <1>9, <2>1 DEF SessionInv, NewInv, Keeps
  <2>2. \A d \in LogIns : pc'[d] = "waiting" => socket'[d] = "new"
    BY <1>2, <1>9 DEF SessionInv, NewInv
  <2>3. QED  BY <2>1, <2>2 DEF NewInv
<1>10. ASSUME pc'[c] # "returned" PROVE CallsGetTheirOwnReply'
  BY <1>1, <1>2, <1>10 DEF SessionInv, CallsGetTheirOwnReply
<1>11. CASE LogIn(c)
  <2>1. pc'[c] = "send" /\ using'[c] = c /\ c \in LogIns
    BY <1>0, <1>11 DEF LogIn
  <2>2. Idle(c)'
    BY <1>0, <1>3, <2>1 DEF SessionInv, NewInv, Keeps, Lost
  <2>3. InPhase(c, c)'
    BY <2>1, <2>2 DEF InPhase
  <2>4. QED  BY <1>6, <1>8, <1>9, <1>10, <2>1, <2>3 DEF SessionInv
<1>12. CASE Request(c)
  <2>1. PICK k \in Connections : k = connections[UserOf[c]] /\ socket[k] = "connected"
    BY <1>0, <1>12 DEF Request, Usable, ConnectionOf
  <2>2. pc'[c] = "send" /\ using'[c] = k /\ c \notin LogIns
    BY <1>0, <1>12, <2>1, CallsAssumption DEF Request, ConnectionOf
  <2>3. Unused(k)
    <3> SUFFICES ASSUME NEW d \in Calls, using[d] = k, pc[d] \in InProgress PROVE FALSE
      BY DEF Unused
    <3>1. d # c
      BY <1>0
    <3>2. UserOf[d] = UserOf[c] /\ k # None
      BY <1>0, <2>1, CallsAssumption DEF ConnectionsOwned
    <3>3. pc'[d] \in InProgress /\ pc'[c] \in InProgress /\ pc[k] = "returned"
      BY <1>0, <1>2, <2>1, <2>2, <3>1, <3>2 DEF InProgress, KeptInv
    <3>4. CASE d \in LogIns
      BY <3>3, <3>4 DEF KeptInv, InProgress, Reading
    <3>5. CASE d \in Requests
      BY <2>2, <3>1, <3>2, <3>3, <3>5 DEF RequestsDoNotOverlap
    <3>6. QED  BY <3>4, <3>5
  <2>4. Idle(k)'
    BY <1>3, <2>1, <2>3 DEF SessionInv, StreamInv, Keeps
  <2>5. InPhase(k, c)'
    BY <2>2, <2>4 DEF InPhase
  <2>6. QED  BY <1>6, <1>8, <1>9, <1>10, <2>1, <2>2, <2>5 DEF SessionInv
<1>13. CASE TurnAway(c) \/ CloseLost(c)
  <2>1. \/ pc'[c] = "turnedAway"
        \/ /\ pc'[c] = "forget" /\ c \notin LogIns
           /\ socket[using'[c]] # "new" /\ using'[c] \in Connections
    <3>1. CASE TurnAway(c)
      BY <1>0, <3>1 DEF TurnAway
    <3>2. CASE CloseLost(c)
      <4>1. PICK k \in Connections : k = connections[UserOf[c]]
        BY <1>0, <3>2 DEF CloseLost, ConnectionOf
      <4>2. socket[k] # "new"
        BY <1>0, <4>1 DEF SessionInv, NewInv
      <4>3. pc'[c] = "forget" /\ using'[c] = k
        BY <1>0, <3>2, <4>1 DEF CloseLost, ConnectionOf
      <4>4. c \notin LogIns
        BY <3>2, CallsAssumption DEF CloseLost
      <4>5. QED  BY <4>1, <4>2, <4>3, <4>4
    <3>3. QED  BY <1>13, <3>1, <3>2
  <2>2. \A k \in Connections : InPhase(k, c)'
    BY <2>1 DEF InPhase
  <2>3. QED  BY <1>6, <1>8, <1>9, <1>10, <2>1, <2>2 DEF SessionInv, InProgress, Reading
<1>14. QED  BY <1>11, <1>12, <1>13

(* A call in progress goes on: only its own connection changes, and no other *)
(* call in progress uses that one.                                           *)
LEMMA CallSession ==
  ASSUME TypeOK, ConnectionsOwned, KeptInv, RequestsDoNotOverlap, SessionInv,
         NEW c \in Calls, pc[c] \in InProgress,
         NEW k \in Connections, using[c] = k,
         NEW place \in (InProgress \ {"forget"}) \cup Ended,
         pc' = [pc EXCEPT ![c] = place], using' = using, outOfStep' = outOfStep,
         \A l \in Connections \ {k} : Keeps(l) /\ socket'[l] = socket[l],
         Orderly(k)', InPhase(k, c)',
         socket'[k] = "connected" /\ place \notin InProgress => Idle(k)',
         socket'[k] = "new" => socket[k] = "new" /\ Lost(k)' /\ place \notin InProgress,
         \/ connections' = connections
         \/ connections' = [connections EXCEPT ![UserOf[c]] = None]
         \/ connections' = [connections EXCEPT ![UserOf[c]] = c] /\ c = k /\ socket[k] # "new",
         \/ place # "returned" /\ got' = got
         \/ got' = [got EXCEPT ![c] = c]
  PROVE  SessionInv'
<1>0. /\ pc \in [Calls -> {"waiting"} \cup InProgress \cup Ended]
      /\ connections \in [Users -> Connections \cup {None}] /\ got \in [Calls -> Calls \cup {None}]
      /\ UserOf \in [Calls -> Users] /\ place # "waiting" /\ place # "forget"
  BY CallsAssumption DEF TypeOK, InProgress, Reading, Ended
<1>1. pc'[c] = place /\ \A d \in Calls : d # c => pc'[d] = pc[d]
  BY <1>0
<1>2. ASSUME NEW d \in Calls, d # c, pc[d] \in InProgress
      PROVE  using[d] \in Connections /\ using[d] # k
  BY <1>2, OneCallEach DEF TypeOK
<1>3. PhaseInv'
  <2> SUFFICES ASSUME NEW l \in Connections, NEW d \in Calls, using[d] = l PROVE InPhase(l, d)'
    BY DEF PhaseInv
  <2>1. CASE d = c
    BY <2>1
  <2>2. CASE d # c /\ pc[d] \in InProgress
    <3>1. InPhase(l, d) /\ Keeps(l)
      BY <1>2, <2>2 DEF SessionInv, PhaseInv
    <3>2. QED  BY <1>1, <2>2, <3>1 DEF InPhase, Keeps, At
  <2>3. CASE d # c /\ pc[d] \notin InProgress
    BY <1>1, <2>3 DEF InPhase, At, InProgress, Reading
  <2>4. QED  BY <2>1, <2>2, <2>3
<1>4. StreamInv'
  <2> SUFFICES ASSUME NEW l \in Connections
               PROVE  /\ ~ outOfStep'[l] /\ Orderly(l)'
                      /\ socket'[l] = "connected" /\ Unused(l)' => Idle(l)'
    BY DEF StreamInv
  <2>1. CASE l = k
    BY <1>1, <2>1 DEF SessionInv, StreamInv, Unused
  <2>2. CASE l # k
    <3>1. Unused(l)' => Unused(l)
      BY <1>1, <2>2 DEF Unused
    <3>2. Orderly(l)'
      BY <2>2 DEF SessionInv, StreamInv, Orderly, Keeps
    <3>3. QED  BY <2>2, <3>1, <3>2 DEF SessionInv, StreamInv, Keeps
  <2>3. QED  BY <2>1, <2>2
<1>5. NewInv'
  <2>1. ASSUME NEW l \in Connections, socket'[l] = "new"
        PROVE  socket[l] = "new" /\ Lost(l)'
    BY <2>1 DEF SessionInv, NewInv, Keeps
  <2>2. ASSUME NEW l \in Connections, socket'[l] = "new", NEW u \in Users
        PROVE  connections'[u] # l
    BY <1>0, <2>1, <2>2, CallsAssumption DEF SessionInv, NewInv
  <2>3. ASSUME NEW l \in Connections, socket'[l] = "new", NEW d \in Calls, using[d] = l,
               pc'[d] \in InProgress
        PROVE  d = l /\ pc'[d] = "send"
    BY <1>1, <2>1, <2>3 DEF SessionInv, NewInv, At
  <2>4. ASSUME NEW d \in LogIns, pc'[d] = "waiting" PROVE socket'[d] = "new"
    BY <1>0, <1>1, <2>4 DEF SessionInv, NewInv, At
  <2>5. QED  BY <2>1, <2>2, <2>3, <2>4 DEF NewInv, At
<1>6. CallsGetTheirOwnReply'
  BY <1>0, <1>1 DEF SessionInv, CallsGetTheirOwnReply
<1>7. QED  BY <1>3, <1>4, <1>5, <1>6 DEF SessionInv

(* Alone on its stream, a call is never hindered by another one.             *)
LEMMA NoOthers ==
  ASSUME TypeOK, ConnectionsOwned, KeptInv, RequestsDoNotOverlap, NEW c \in Calls,
         pc[c] \in InProgress, NEW places \in SUBSET InProgress
  PROVE  Others(c, places) = {}
BY OneCallEach DEF Others

(* What is on the stream is what the call is about to read.                  *)
LEMMA ReadsInStep ==
  ASSUME TypeOK, SessionInv, NEW c \in Calls, NEW k \in Connections, using[c] = k
  PROVE  /\ At(c, "inReadSize") /\ down[k] # <<>> =>
              Arrives(c, "size") /\ down[k] = Frame(c) /\ Replied(k, c)
         /\ At(c, "inReadBody") => down[k] = <<Part("body", c)>> /\ HalfRead(k, c)
         /\ ~ outOfStep[k]
<1>1. InPhase(k, c) /\ ~ outOfStep[k]
  BY DEF SessionInv, PhaseInv, StreamInv
<1>2. ASSUME At(c, "inReadSize"), down[k] # <<>>
      PROVE  Arrives(c, "size") /\ down[k] = Frame(c) /\ Replied(k, c)
  <2>1. Replied(k, c) /\ down[k] = Frame(c)
    BY <1>1, <1>2 DEF InPhase, At, Asked, Lost, Idle, Working, Replied
  <2>2. Head(down[k]).part = "size"
    BY <2>1 DEF Frame, Part
  <2>3. QED  BY <1>1, <1>2, <2>1, <2>2 DEF Arrives
<1>3. QED  BY <1>1, <1>2 DEF InPhase, HalfRead, At

(* A step that neither writes nor reads.                                     *)
LEMMA QuietSession ==
  ASSUME TypeOK, ConnectionsOwned, KeptInv, RequestsDoNotOverlap, SessionInv, NEW c \in Calls,
         ConnectFails(c) \/ WriteFails(c) \/ BeginRead(c) \/ ReadFails(c) \/ Forget(c)
  PROVE  SessionInv'
<1> USE DEF At, GoTo
<1>0. /\ pc[c] \in InProgress /\ using[c] \in Connections /\ DOMAIN socket = Connections
      /\ pc \in [Calls -> {"waiting"} \cup InProgress \cup Ended]
  BY DEF TypeOK, InProgress, Reading, ConnectFails, WriteFails, BeginRead, ReadFails, Forget
<1> PICK k \in Connections : using[c] = k
  BY <1>0
<1>1. /\ using' = using /\ got' = got /\ up' = up /\ down' = down /\ thread' = thread
      /\ request' = request /\ outOfStep' = outOfStep
  BY DEF ConnectFails, WriteFails, BeginRead, ReadFails, Forget, streams, serverVars
<1>2. \A l \in Connections : Keeps(l)
  BY <1>1, StillKeeps
<1>3. Orderly(k)'
  BY <1>2 DEF SessionInv, StreamInv, Orderly, Keeps
<1>4. InPhase(k, c) /\ (socket[k] = "new" => Lost(k))
  BY DEF SessionInv, PhaseInv, NewInv
<1>5. Others(c, Reading) = {} /\ Others(c, {"send", "sendBody"}) = {}
  BY <1>0, NoOthers DEF InProgress
<1>6. CASE ConnectFails(c) \/ WriteFails(c) \/ ReadFails(c) \/ Forget(c)
  <2>1. PICK place \in {"failed", "turnedAway"} : pc' = [pc EXCEPT ![c] = place]
    BY <1>6 DEF ConnectFails, WriteFails, ReadFails, Forget
  <2>2. place \in (InProgress \ {"forget"}) \cup Ended /\ place \notin InProgress /\ place # "returned"
    BY DEF InProgress, Reading, Ended
  <2>3. pc'[c] = place
    BY <1>0, <2>1
  <2>4. InPhase(k, c)'
    BY <2>3 DEF InPhase
  <2>5. /\ \A l \in Connections \ {k} : socket'[l] = socket[l]
        /\ socket'[k] # "connected" /\ (socket'[k] = "new" => socket[k] = "new")
    <3>1. CASE ConnectFails(c)
      BY <3>1 DEF ConnectFails
    <3>2. CASE WriteFails(c) \/ ReadFails(c)
      BY <1>0, <1>5, <3>2 DEF WriteFails, ReadFails, LoseSocket
    <3>3. CASE Forget(c)
      BY <3>3 DEF Forget, KeptInv
    <3>4. QED  BY <1>6, <3>1, <3>2, <3>3
  <2>6. connections' = connections \/ connections' = [connections EXCEPT ![UserOf[c]] = None]
    BY <1>6 DEF ConnectFails, WriteFails, ReadFails, Forget
  <2>7. QED  BY <1>0, <1>1, <1>2, <1>3, <1>4, <2>1, <2>2, <2>4, <2>5, <2>6, CallSession DEF Keeps
<1>7. CASE BeginRead(c)
  <2>1. PICK place \in Reading : pc' = [pc EXCEPT ![c] = place]
                                 /\ (place = "inReadSize" <=> pc[c] = "readSize")
    BY <1>5, <1>7 DEF BeginRead, Reading
  <2>2. place \in (InProgress \ {"forget"}) \cup Ended /\ place # "returned" /\ place \in InProgress
    BY DEF InProgress, Reading, Ended
  <2>3. pc'[c] = place
    BY <1>0, <2>1
  <2>4. InPhase(k, c)'
    BY <1>2, <1>4, <1>7, <2>1, <2>3 DEF InPhase, Keeps, BeginRead, Reading
  <2>5. socket' = socket /\ connections' = connections /\ socket[k] # "new"
    BY <1>0, <1>7 DEF BeginRead, SessionInv, NewInv
  <2>6. QED  BY <1>0, <1>1, <1>2, <1>3, <2>1, <2>2, <2>4, <2>5, CallSession
<1>8. QED  BY <1>6, <1>7

(* The connection is made, and a request written: an exchange begins.        *)
LEMMA WriteSession ==
  ASSUME TypeOK, ConnectionsOwned, KeptInv, RequestsDoNotOverlap, SessionInv, NEW c \in Calls,
         Connect(c) \/ WriteSize(c) \/ WriteBody(c)
  PROVE  SessionInv'
<1> USE DEF At, GoTo
<1>0. /\ pc[c] \in InProgress /\ using[c] \in Connections
      /\ DOMAIN socket = Connections /\ DOMAIN thread = Connections /\ DOMAIN up = Connections
      /\ pc \in [Calls -> {"waiting"} \cup InProgress \cup Ended]
      /\ thread \in [Connections -> {"none", "readSize", "readBody", "execute", "reply", "ended"}]
  BY DEF TypeOK, InProgress, Reading, Connect, WriteSize, WriteBody
<1> PICK k \in Connections : using[c] = k
  BY <1>0
<1>1. /\ using' = using /\ got' = got /\ connections' = connections /\ down' = down
      /\ request' = request /\ outOfStep' = outOfStep
  BY DEF Connect, WriteSize, WriteBody, streams, serverVars
<1>2. ASSUME NEW l \in Connections \ {k} PROVE Keeps(l) /\ socket'[l] = socket[l]
  <2>1. up'[l] = up[l] /\ thread'[l] = thread[l] /\ socket'[l] = socket[l]
    BY <1>0 DEF Connect, WriteSize, WriteBody, Write, streams, serverVars
  <2>2. QED  BY <1>1, <2>1, StillKeeps
<1>3. InPhase(k, c)
  BY DEF SessionInv, PhaseInv
<1>4. CASE Connect(c)
  <2>1. /\ pc[c] = "send" /\ pc' = pc /\ socket'[k] = "connected" /\ thread'[k] = "readSize"
        /\ up' = up
    BY <1>0, <1>4 DEF Connect, streams
  <2>2. Idle(k)'
    BY <1>1, <1>3, <2>1 DEF InPhase, Idle
  <2>3. Orderly(k)' /\ InPhase(k, c)'
    BY <2>1, <2>2 DEF Orderly, InPhase
  <2>4. pc' = [pc EXCEPT ![c] = "send"] /\ "send" \in (InProgress \ {"forget"}) \cup Ended
    BY <1>0, <2>1 DEF InProgress
  <2>5. QED  BY <1>0, <1>1, <1>2, <2>1, <2>2, <2>3, <2>4, CallSession
<1>5. CASE WriteSize(c)
  <2>1. /\ pc[c] = "send" /\ pc' = [pc EXCEPT ![c] = "sendBody"]
        /\ socket' = socket /\ socket[k] = "connected" /\ thread' = thread
    BY <1>5 DEF WriteSize, serverVars
  <2>2. up'[k] = IF Serving(k) THEN Append(up[k], Part("size", c)) ELSE up[k]
    BY <1>0, <1>5 DEF WriteSize, Write
  <2>3. Idle(k)
    BY <1>3, <2>1 DEF InPhase
  <2>4. HalfAsked(k, c)'
    <3>1. Serving(k) => thread[k] = "readSize" /\ up'[k] = <<Part("size", c)>>
      BY <2>2, <2>3 DEF Serving, Idle
    <3>2. ~ Serving(k) => thread[k] # "readSize" /\ up'[k] = <<>>
      BY <2>2, <2>3 DEF Serving, Idle
    <3>3. QED  BY <1>1, <2>1, <2>3, <3>1, <3>2 DEF HalfAsked, Lost, Idle
  <2>5. Orderly(k)' /\ InPhase(k, c)'
    BY <1>0, <2>1, <2>4 DEF Orderly, InPhase
  <2>6. "sendBody" \in (InProgress \ {"forget"}) \cup Ended /\ "sendBody" \in InProgress
    BY DEF InProgress
  <2>7. QED  BY <1>0, <1>1, <1>2, <2>1, <2>5, <2>6, CallSession
<1>6. CASE WriteBody(c)
  <2>1. /\ pc[c] = "sendBody" /\ pc' = [pc EXCEPT ![c] = "readSize"]
        /\ socket' = socket /\ socket[k] = "connected" /\ thread' = thread
    BY <1>6 DEF WriteBody, serverVars
  <2>2. up'[k] = IF Serving(k) THEN Append(up[k], Part("body", c)) ELSE up[k]
    BY <1>0, <1>6 DEF WriteBody, Write
  <2>3. HalfAsked(k, c)
    BY <1>3, <2>1 DEF InPhase
  <2>4. Asked(k, c)'
    <3>1. CASE Lost(k)
      <4>1. ~ Serving(k)
        BY <3>1 DEF Lost, Idle, Serving
      <4>2. QED  BY <1>1, <2>1, <2>2, <3>1, <4>1 DEF Asked, Lost, Idle
    <3>2. CASE thread[k] = "readSize" /\ up[k] = <<Part("size", c)>> /\ down[k] = <<>>
      <4>1. Part("size", c) \in Parts /\ Part("body", c) \in Parts
        BY DEF Part, Parts
      <4>2. Append(<<Part("size", c)>>, Part("body", c)) = Frame(c)
        BY <4>1, AppendSecond DEF Frame
      <4>3. up'[k] = Frame(c)
        BY <2>2, <3>2, <4>2 DEF Serving
      <4>4. QED  BY <1>1, <2>1, <3>2, <4>3 DEF Asked, Working
    <3>3. CASE thread[k] = "readBody" /\ request[k] = c /\ up[k] = <<>> /\ down[k] = <<>>
      <4>1. up'[k] = <<Part("body", c)>>
        BY <2>2, <3>3 DEF Serving
      <4>2. QED  BY <1>1, <2>1, <3>3, <4>1 DEF Asked, Working
    <3>4. QED  BY <2>3, <3>1, <3>2, <3>3 DEF HalfAsked
  <2>5. Orderly(k)' /\ InPhase(k, c)'
    BY <1>0, <2>1, <2>4 DEF Orderly, InPhase
  <2>6. "readSize" \in (InProgress \ {"forget"}) \cup Ended /\ "readSize" \in InProgress
    BY DEF InProgress
  <2>7. QED  BY <1>0, <1>1, <1>2, <2>1, <2>5, <2>6, CallSession
<1>7. QED  BY <1>4, <1>5, <1>6

(* The reply is read: the exchange ends, and the call has its own.           *)
LEMMA ReadSession ==
  ASSUME TypeOK, ConnectionsOwned, KeptInv, RequestsDoNotOverlap, SessionInv, NEW c \in Calls,
         \/ ReadSize(c) \/ ReadSizeOutOfStep(c) \/ ReadBody(c) \/ ReadWrongType(c)
         \/ ReadGarbage(c)
  PROVE  SessionInv'
<1> USE DEF At, GoTo
<1>0. /\ pc[c] \in InProgress /\ using[c] \in Connections
      /\ DOMAIN socket = Connections /\ DOMAIN down = Connections
      /\ pc \in [Calls -> {"waiting"} \cup InProgress \cup Ended]
  BY DEF TypeOK, InProgress, Reading, ReadSize, ReadSizeOutOfStep, ReadBody, ReadWrongType, ReadGarbage
<1> PICK k \in Connections : using[c] = k
  BY <1>0
<1>1. /\ pc[c] = "inReadSize" /\ down[k] # <<>> =>
            Arrives(c, "size") /\ down[k] = Frame(c) /\ Replied(k, c)
      /\ pc[c] = "inReadBody" => down[k] = <<Part("body", c)>> /\ HalfRead(k, c)
      /\ ~ outOfStep[k]
  BY ReadsInStep
<1>2. ~ ReadSizeOutOfStep(c) /\ ~ ReadGarbage(c)
  BY <1>1 DEF ReadSizeOutOfStep, ReadGarbage
<1>3. ~ ReadWrongType(c)
  <2> SUFFICES ASSUME ReadWrongType(c) PROVE FALSE  OBVIOUS
  <2>1. Head(down[k]).call = c
    BY <1>1 DEF ReadWrongType, Part
  <2>2. QED  BY <2>1 DEF ReadWrongType
<1>4. /\ using' = using /\ up' = up /\ thread' = thread /\ request' = request
      /\ outOfStep' = outOfStep /\ down' = [down EXCEPT ![k] = Tail(down[k])]
  BY <1>2, <1>3 DEF ReadSize, ReadBody, Consume, serverVars
<1>5. ASSUME NEW l \in Connections \ {k} PROVE Keeps(l)
  BY <1>0, <1>4, StillKeeps
<1>6. socket[k] # "new"
  BY <1>0, <1>2, <1>3 DEF SessionInv, NewInv, ReadSize, ReadBody
<1>7. CASE ReadSize(c)
  <2>1. /\ pc' = [pc EXCEPT ![c] = "readBody"] /\ socket' = socket /\ connections' = connections
        /\ got' = got /\ Replied(k, c) /\ down[k] = Frame(c)
    BY <1>1, <1>7 DEF ReadSize, Arrives
  <2>2. down'[k] = <<Part("body", c)>>
    BY <1>0, <1>4, <2>1 DEF Frame
  <2>3. HalfRead(k, c)'
    BY <1>4, <2>1, <2>2 DEF HalfRead, Replied
  <2>4. Orderly(k)' /\ InPhase(k, c)'
    BY <1>0, <2>1, <2>3 DEF Orderly, InPhase
  <2>5. "readBody" \in (InProgress \ {"forget"}) \cup Ended /\ "readBody" \in InProgress
    BY DEF InProgress
  <2>6. QED  BY <1>0, <1>4, <1>5, <1>6, <2>1, <2>4, <2>5, CallSession
<1>8. CASE ReadBody(c)
  <2>1. /\ pc[c] = "inReadBody" /\ pc' = [pc EXCEPT ![c] = "returned"]
        /\ down[k] = <<Part("body", c)>> /\ HalfRead(k, c)
        /\ got' = [got EXCEPT ![c] = Head(down[k]).call]
    BY <1>1, <1>8 DEF ReadBody
  <2>2. got' = [got EXCEPT ![c] = c]
    <3>1. Head(down[k]).call = c
      BY <2>1 DEF Part
    <3>2. QED  BY <2>1, <3>1
  <2>3. down'[k] = <<>>
    BY <1>0, <1>4, <2>1
  <2>4. Idle(k)'
    BY <1>4, <2>1, <2>3 DEF Idle, HalfRead
  <2>5. Orderly(k)' /\ InPhase(k, c)'
    BY <1>0, <2>1, <2>4 DEF Orderly, InPhase
  <2>6. "returned" \in (InProgress \ {"forget"}) \cup Ended /\ "returned" \notin InProgress
    BY DEF InProgress, Reading, Ended
  <2>7. c \in LogIns => c = k
    BY <1>0 DEF KeptInv
  <2>8. /\ \A l \in Connections \ {k} : socket'[l] = socket[l]
        /\ socket'[k] # "new"
        /\ \/ connections' = connections
           \/ connections' = [connections EXCEPT ![UserOf[c]] = c] /\ c = k
    BY <1>0, <1>6, <1>8, <2>7 DEF ReadBody, KeepOrClose
  <2>9. QED  BY <1>0, <1>4, <1>5, <1>6, <2>1, <2>2, <2>4, <2>5, <2>6, <2>8, CallSession
<1>9. QED  BY <1>2, <1>3, <1>7, <1>8

(* SessionInv is inductive as long as the requests of a user do not overlap. *)
LEMMA SessionStep ==
  ASSUME TypeOK, ConnectionsOwned, KeptInv, RequestsDoNotOverlap, RequestsDoNotOverlap', SessionInv, [Next]_vars
  PROVE  SessionInv'
<1>1. CASE UNCHANGED vars
  <2>1. \A k \in Connections : Keeps(k)
    BY <1>1, StillKeeps DEF vars, streams, serverVars
  <2>2. QED  BY <1>1, <2>1, ServerSession DEF vars, streams
<1>2. ASSUME NEW c \in Calls, CallStep(c) PROVE SessionInv'
  BY <1>1, <1>2, QuietSession, WriteSession, ReadSession DEF CallStep, ReadNothing
<1>3. ASSUME NEW k \in Connections, ListenToClient(k) PROVE SessionInv'
  <2>1. \A l \in Connections : Keeps(l)
    BY <1>3, ListenKeeps
  <2>2. UNCHANGED <<clientVars, outOfStep>>
    BY <1>3 DEF ListenToClient, ListenSize, ListenBody, ListenGarbage, Execute, SendToClient,
       ClientGone, ListenToNothing, Die, vars, streams
  <2>3. QED  BY <2>1, <2>2, ServerSession
<1>4. CASE Kill \/ StartServer
  <2>1. \A l \in Connections : Keeps(l)
    BY <1>4, DieKeeps, StillKeeps DEF Kill, StartServer, streams
  <2>2. UNCHANGED <<clientVars, outOfStep>>
    BY <1>4 DEF Kill, StartServer, Die, streams
  <2>3. QED  BY <2>1, <2>2, ServerSession
<1>5. QED  BY <1>1, <1>2, <1>3, <1>4, BeginSession, RecycleSession DEF Next

LEMMA SessionInvariant == Spec /\ []RequestsDoNotOverlap => []SessionInv
<1>1. Init => SessionInv
  BY CallsAssumption DEF Init, SessionInv, PhaseInv, InPhase, StreamInv, Orderly, Idle, NewInv, Lost,
     CallsGetTheirOwnReply, At, InProgress, Reading
<1>2. TypeOK /\ UserInv /\ KeptInv /\ RequestsDoNotOverlap /\ RequestsDoNotOverlap' /\ SessionInv /\ [Next]_vars
        => SessionInv'
  BY SessionStep DEF UserInv
<1>3. QED  BY <1>1, <1>2, BusTypeCorrect, UserInvariant, KeptInvariant, PTL DEF Spec

(* As long as the requests of a user do not overlap, the response a call     *)
(* returns is the response to its own request.                               *)
THEOREM BusCallsGetTheirOwnReply == Spec /\ []RequestsDoNotOverlap => []CallsGetTheirOwnReply
<1>1. SessionInv => CallsGetTheirOwnReply
  BY DEF SessionInv
<1>2. QED  BY <1>1, SessionInvariant, PTL

(* Then listenToClient also finds, where it expects the body of a request,   *)
(* never the beginning of another one.                                       *)
THEOREM BusFramesArriveWhole == Spec /\ []RequestsDoNotOverlap => []FramesArriveWhole
<1>1. SessionInv => FramesArriveWhole
  <2> SUFFICES ASSUME SessionInv, NEW k \in Connections, thread[k] = "readBody", up[k] # <<>>
               PROVE  Head(up[k]) = Part("body", request[k])
    BY DEF FramesArriveWhole
  <2>1. \E c \in Calls : up[k] = <<Part("body", c)>> /\ request[k] = c
    BY DEF SessionInv, StreamInv, Orderly, Idle, Lost, HalfAsked, Asked, Working, Replied, HalfRead
  <2>2. QED  BY <2>1
<1>2. QED  BY <1>1, SessionInvariant, PTL
=============================================================================
