--------------------------- MODULE BusConnection ---------------------------
(***************************************************************************)
(* The web server's calls to the bus.  Every log in makes a                *)
(* ServiceBusConnection of its own; if it is accepted, ConnectionManager   *)
(* keeps the connection for the user and all his later requests, from the  *)
(* pages of any of his sessions and from the chat hub, use that one        *)
(* stream.  At the other end one thread of the Authentication process      *)
(* (ClientConnection.listenToClient) reads a request, executes it, replies *)
(* and reads the next.                                                     *)
(*                                                                         *)
(* A message is two writes, its size and its body; a stream is the         *)
(* sequence of the parts written and not yet read.  A connection is named  *)
(* by the log in that made it.                                             *)
(***************************************************************************)
EXTENDS Naturals, Sequences

CONSTANTS
  LogIns,         \* sendLogIn and sendNewAccountInfo calls
  Requests,       \* calls on a user's connection
  Users,
  UserOf,         \* whose call it is
  LaneOf,         \* calls of one lane never overlap: the pages of a session, one hub client
  None,           \* no connection, no call
  MaxKills,       \* bound: times the Authentication process is killed
  MaxRecycles     \* bound: times the web server loses its memory

Calls       == LogIns \cup Requests
Connections == LogIns

ASSUME CallsAssumption ==
  /\ LogIns \cap Requests = {}
  /\ None \notin Calls
  /\ UserOf \in [Calls -> Users]
  /\ DOMAIN LaneOf = Calls
ASSUME BoundsAssumption == MaxKills \in Nat /\ MaxRecycles \in Nat

VARIABLES
  pc,             \* per call: where it is
  using,          \* per call: the connection it uses
  got,            \* per call: the call whose reply it was given
  connections,    \* ConnectionManager.connections
  socket,         \* per connection: the web server's socket
  up,             \* per connection: parts written by the web server
  upEnd,          \* per connection: how the web server's side ended
  down,           \* per connection: parts written by the bus
  downEnd,        \* per connection: how the bus's side ended
  outOfStep,      \* per connection: a read began in the middle of a reply
  thread,         \* per connection: where its listenToClient is
  request,        \* per connection: the request read last
  authenticated,  \* per connection: ClientConnection.authenticated
  running,        \* the Authentication process runs
  faults          \* how often each kind of fault has happened

clientVars == <<pc, using, got, connections, socket>>
streams    == <<up, upEnd, down, downEnd, outOfStep>>
serverVars == <<thread, request, authenticated, running>>
vars       == <<clientVars, streams, serverVars, faults>>

-----------------------------------------------------------------------------
Ended      == {"returned", "failed", "turnedAway"}
Reading    == {"inReadSize", "inReadBody"}
InProgress == {"send", "sendBody", "readSize", "readBody", "forget"} \cup Reading

Part(part, call) == [part |-> part, call |-> call]
Frame(call)      == <<Part("size", call), Part("body", call)>>
Parts            == [part : {"size", "body"}, call : Calls]

TypeOK ==
  /\ pc \in [Calls -> {"waiting"} \cup InProgress \cup Ended]
  /\ using \in [Calls -> Connections \cup {None}]
  /\ \A c \in Calls : pc[c] \in InProgress => using[c] # None
  /\ got \in [Calls -> Calls \cup {None}]
  /\ connections \in [Users -> Connections \cup {None}]
  /\ socket \in [Connections -> {"new", "connected", "lost", "closed"}]
  /\ up \in [Connections -> Seq(Parts)] /\ down \in [Connections -> Seq(Parts)]
  /\ upEnd \in [Connections -> {"open", "eof", "reset"}]
  /\ downEnd \in [Connections -> {"open", "eof", "reset"}]
  /\ outOfStep \in [Connections -> BOOLEAN]
  /\ thread \in [Connections -> {"none", "readSize", "readBody", "execute", "reply", "ended"}]
  /\ request \in [Connections -> Calls \cup {None}]
  /\ \A k \in Connections : thread[k] \in {"readBody", "execute", "reply"} => request[k] # None
  /\ authenticated \in [Connections -> BOOLEAN]
  /\ running \in BOOLEAN
  /\ faults \in [kills : 0 .. MaxKills, recycles : 0 .. MaxRecycles]

Init ==
  /\ pc = [c \in Calls |-> "waiting"]
  /\ using = [c \in Calls |-> None]
  /\ got = [c \in Calls |-> None]
  /\ connections = [u \in Users |-> None]
  /\ socket = [k \in Connections |-> "new"]
  /\ up = [k \in Connections |-> <<>>]
  /\ down = [k \in Connections |-> <<>>]
  /\ upEnd = [k \in Connections |-> "open"]
  /\ downEnd = [k \in Connections |-> "open"]
  /\ outOfStep = [k \in Connections |-> FALSE]
  /\ thread = [k \in Connections |-> "none"]
  /\ request = [k \in Connections |-> None]
  /\ authenticated = [k \in Connections |-> FALSE]
  /\ running = TRUE
  /\ faults = [kills |-> 0, recycles |-> 0]

At(c, place)   == pc[c] = place
GoTo(c, place) == pc' = [pc EXCEPT ![c] = place]

Serving(k) == thread[k] \in {"readSize", "readBody", "execute", "reply"}

(* Other calls at some place of the connection c uses. *)
Others(c, places) == {d \in Calls \ {c} : using[d] = using[c] /\ pc[d] \in places}

-----------------------------------------------------------------------------
(* Mutants *)

LaneFreeAlways(c) == TRUE

ConnectionOfAnyone(u) ==
  IF \A v \in Users : connections[v] = None THEN None
  ELSE CHOOSE k \in Connections : \E v \in Users : connections[v] = k

UsableUnchecked(k) == k = None \/ socket[k] = "connected"

KeepOrForget(c) ==
  /\ connections' = [connections EXCEPT ![UserOf[c]] = IF authenticated[c] THEN c ELSE None]
  /\ socket' = [socket EXCEPT ![c] = IF authenticated[c] THEN @ ELSE "closed"]
  /\ upEnd' = [upEnd EXCEPT ![c] = IF authenticated[c] THEN @ ELSE "eof"]

AnswerTwice(k) ==
  /\ down' = [down EXCEPT ![k] = @ \o Frame(request[k]) \o Frame(request[k])]
  /\ thread' = [thread EXCEPT ![k] = IF authenticated[k] THEN "readSize" ELSE "ended"]
  /\ downEnd' = [downEnd EXCEPT ![k] = IF authenticated[k] THEN @ ELSE "eof"]

AnswerUnlessRefused(k) ==
  /\ down' = [down EXCEPT ![k] = IF authenticated[k] THEN @ \o Frame(request[k]) ELSE @]
  /\ thread' = [thread EXCEPT ![k] = IF authenticated[k] THEN "readSize" ELSE "ended"]
  /\ downEnd' = [downEnd EXCEPT ![k] = IF authenticated[k] THEN @ ELSE "eof"]

-----------------------------------------------------------------------------
(* Calls of the web server *)

(* ASP.NET runs the requests of a session one at a time. *)
LaneFree(c) == \A d \in Calls : LaneOf[d] = LaneOf[c] => pc[d] \notin InProgress

(* sendLogIn, sendNewAccountInfo: a new connection object. *)
LogIn(c) ==
  /\ c \in LogIns /\ At(c, "waiting") /\ LaneFree(c)
  /\ using' = [using EXCEPT ![c] = c]
  /\ GoTo(c, "send")
  /\ UNCHANGED <<got, connections, socket, streams, serverVars, faults>>

(* getConnectionObject finds the user's connection, and finds it connected. *)
ConnectionOf(u) == connections[u]
Usable(k) == k # None /\ socket[k] = "connected"

Request(c) ==
  /\ c \in Requests /\ At(c, "waiting") /\ LaneFree(c)
  /\ Usable(ConnectionOf(UserOf[c]))
  /\ using' = [using EXCEPT ![c] = ConnectionOf(UserOf[c])]
  /\ GoTo(c, "send")
  /\ UNCHANGED <<got, connections, socket, streams, serverVars, faults>>

(* It finds none: a page redirects to the log in, the hub meets the null. *)
TurnAway(c) ==
  /\ c \in Requests /\ At(c, "waiting") /\ LaneFree(c)
  /\ ConnectionOf(UserOf[c]) = None
  /\ GoTo(c, "turnedAway")
  /\ UNCHANGED <<using, got, connections, socket, streams, serverVars, faults>>

(* It finds one that is not connected any more and closes it; then it        *)
(* removes the user's entry, and turns the call away.                        *)
CloseLost(c) ==
  LET k == ConnectionOf(UserOf[c]) IN
  /\ c \in Requests /\ At(c, "waiting") /\ LaneFree(c)
  /\ k # None /\ ~ Usable(k)
  /\ socket' = [socket EXCEPT ![k] = "closed"]
  /\ using' = [using EXCEPT ![c] = k]
  /\ GoTo(c, "forget")
  /\ UNCHANGED <<got, connections, streams, serverVars, faults>>

Forget(c) ==
  /\ At(c, "forget")
  /\ connections' = [connections EXCEPT ![UserOf[c]] = None]
  /\ GoTo(c, "turnedAway")
  /\ UNCHANGED <<using, got, socket, streams, serverVars, faults>>

(* send connects a new socket; the bus accepts and starts a thread. *)
Connect(c) ==
  /\ At(c, "send") /\ socket[using[c]] = "new"
  /\ running
  /\ socket' = [socket EXCEPT ![using[c]] = "connected"]
  /\ thread' = [thread EXCEPT ![using[c]] = "readSize"]
  /\ UNCHANGED <<pc, using, got, connections, streams, request, authenticated, running, faults>>

(* The bus does not listen, or the socket, once connected, cannot connect a  *)
(* second time: Connect throws.                                              *)
ConnectFails(c) ==
  /\ At(c, "send")
  /\ \/ socket[using[c]] = "new" /\ ~ running
     \/ socket[using[c]] \in {"lost", "closed"}
  /\ GoTo(c, "failed")
  /\ UNCHANGED <<using, got, connections, socket, streams, serverVars, faults>>

(* A part goes to the thread that reads the stream; without one it is lost   *)
(* and the answer is a reset.                                                *)
Write(c, part) ==
  IF Serving(using[c])
  THEN up' = [up EXCEPT ![using[c]] = Append(@, Part(part, c))] /\ UNCHANGED downEnd
  ELSE downEnd' = [downEnd EXCEPT ![using[c]] = "reset"] /\ UNCHANGED up

WriteSize(c) ==
  /\ At(c, "send") /\ socket[using[c]] = "connected"
  /\ Write(c, "size")
  /\ GoTo(c, "sendBody")
  /\ UNCHANGED <<using, got, connections, socket, upEnd, down, outOfStep, serverVars, faults>>

WriteBody(c) ==
  /\ At(c, "sendBody") /\ socket[using[c]] = "connected"
  /\ Write(c, "body")
  /\ GoTo(c, "readSize")
  /\ UNCHANGED <<using, got, connections, socket, upEnd, down, outOfStep, serverVars, faults>>

(* A write or a read throws and the socket notices that it is disconnected. *)
LoseSocket(c) ==
  socket' = [socket EXCEPT ![using[c]] = IF @ = "connected" THEN "lost" ELSE @]

(* The other side has gone (IOException), another call has found that out,   *)
(* or another call is writing (NotSupportedException from SslStream).        *)
WriteFails(c) ==
  /\ \/ At(c, "send") /\ socket[using[c]] = "connected"
     \/ At(c, "sendBody")
  /\ \/ (downEnd[using[c]] # "open" \/ socket[using[c]] # "connected") /\ LoseSocket(c)
     \/ Others(c, {"send", "sendBody"}) # {} /\ UNCHANGED socket
  /\ GoTo(c, "failed")
  /\ UNCHANGED <<using, got, connections, streams, serverVars, faults>>

(* readUntilEOF calls Read, which refuses a second reader. *)
BeginRead(c) ==
  /\ pc[c] \in {"readSize", "readBody"}
  /\ IF Others(c, Reading) # {} THEN GoTo(c, "failed")
     ELSE GoTo(c, IF At(c, "readSize") THEN "inReadSize" ELSE "inReadBody")
  /\ UNCHANGED <<using, got, connections, socket, streams, serverVars, faults>>

Consume(c) == down' = [down EXCEPT ![using[c]] = Tail(@)]

(* The next part of the stream is the one Read is for. *)
Arrives(c, part) ==
  /\ ~ outOfStep[using[c]]
  /\ down[using[c]] # <<>>
  /\ Head(down[using[c]]).part = part

ReadSize(c) ==
  /\ At(c, "inReadSize") /\ Arrives(c, "size")
  /\ Consume(c)
  /\ GoTo(c, "readBody")
  /\ UNCHANGED <<using, got, connections, socket, up, upEnd, downEnd, outOfStep, serverVars, faults>>

(* The first bytes of a body, which another call was about to read, pass for *)
(* a size; from here on no reader finds the beginning of a reply.            *)
ReadSizeOutOfStep(c) ==
  /\ At(c, "inReadSize") /\ down[using[c]] # <<>>
  /\ ~ Arrives(c, "size")
  /\ outOfStep' = [outOfStep EXCEPT ![using[c]] = TRUE]
  /\ GoTo(c, "readBody")
  /\ UNCHANGED <<using, got, connections, socket, up, upEnd, down, downEnd, serverVars, faults>>

(* An accepted log in's connection is kept, replacing an earlier one of the  *)
(* user; a refused one's is closed.                                          *)
KeepOrClose(c) ==
  IF authenticated[c]
  THEN /\ connections' = [connections EXCEPT ![UserOf[c]] = c]
       /\ UNCHANGED <<socket, upEnd>>
  ELSE /\ socket' = [socket EXCEPT ![c] = "closed"]
       /\ upEnd' = [upEnd EXCEPT ![c] = "eof"]
       /\ UNCHANGED connections

ReadBody(c) ==
  /\ At(c, "inReadBody") /\ Arrives(c, "body")
  /\ Consume(c)
  /\ got' = [got EXCEPT ![c] = Head(down[using[c]]).call]
  /\ GoTo(c, "returned")
  /\ \/ c \in LogIns /\ KeepOrClose(c)
     \/ c \in Requests /\ UNCHANGED <<connections, socket, upEnd>>
  /\ UNCHANGED <<using, up, downEnd, outOfStep, serverVars, faults>>

(* The reply of another call is not always of the type the caller casts to. *)
ReadWrongType(c) ==
  /\ At(c, "inReadBody") /\ Arrives(c, "body")
  /\ c \in Requests /\ Head(down[using[c]]).call # c
  /\ Consume(c)
  /\ GoTo(c, "failed")
  /\ UNCHANGED <<using, got, connections, socket, up, upEnd, downEnd, outOfStep, serverVars, faults>>

(* What was read is no serialized object: Deserialize throws. *)
ReadGarbage(c) ==
  /\ At(c, "inReadBody") /\ outOfStep[using[c]]
  /\ GoTo(c, "failed")
  /\ UNCHANGED <<using, got, connections, socket, streams, serverVars, faults>>

(* An IOException, which the catch of SocketException lets pass. *)
ReadFails(c) ==
  /\ pc[c] \in Reading
  /\ downEnd[using[c]] = "reset" \/ socket[using[c]] # "connected"
  /\ LoseSocket(c)
  /\ GoTo(c, "failed")
  /\ UNCHANGED <<using, got, connections, streams, serverVars, faults>>

(* At the end of the stream Read returns 0 and the loop goes round. *)
ReadNothing(c) ==
  /\ pc[c] \in Reading
  /\ down[using[c]] = <<>> /\ downEnd[using[c]] = "eof"
  /\ UNCHANGED vars

-----------------------------------------------------------------------------
(* The Authentication process *)

(* The process ends: an exception leaves a listenToClient thread, or it is   *)
(* killed.  The web server sees its connections reset, or only ended.        *)
Die ==
  \E end \in {"eof", "reset"} :
    /\ running' = FALSE
    /\ thread' = [k \in Connections |-> IF Serving(k) THEN "ended" ELSE thread[k]]
    /\ downEnd' = [k \in Connections |-> IF Serving(k) THEN end ELSE downEnd[k]]
    /\ up' = [k \in Connections |-> <<>>]
    /\ request' = [k \in Connections |-> None]
    /\ UNCHANGED <<clientVars, upEnd, down, outOfStep, authenticated>>

ListenSize(k) ==
  /\ thread[k] = "readSize" /\ up[k] # <<>>
  /\ Head(up[k]).part = "size"
  /\ up' = [up EXCEPT ![k] = Tail(@)]
  /\ request' = [request EXCEPT ![k] = Head(up[k]).call]
  /\ thread' = [thread EXCEPT ![k] = "readBody"]
  /\ UNCHANGED <<clientVars, upEnd, down, downEnd, outOfStep, authenticated, running, faults>>

ListenBody(k) ==
  /\ thread[k] = "readBody" /\ up[k] # <<>>
  /\ Head(up[k]) = Part("body", request[k])
  /\ up' = [up EXCEPT ![k] = Tail(@)]
  /\ thread' = [thread EXCEPT ![k] = "execute"]
  /\ UNCHANGED <<clientVars, upEnd, down, downEnd, outOfStep, request, authenticated, running, faults>>

(* Another message begins where the body should be.  As soon as as many      *)
(* bytes have come as the size says, Deserialize throws.                     *)
ListenGarbage(k) ==
  /\ thread[k] = "readBody" /\ up[k] # <<>>
  /\ Head(up[k]) # Part("body", request[k])
  /\ \E i \in DOMAIN up[k] : up[k][i].part = "body"
  /\ Die
  /\ UNCHANGED faults

(* executeRequest.  Only the two log in requests touch authenticated; for    *)
(* the others the thread waits for the service to answer.                    *)
Execute(k) ==
  /\ thread[k] = "execute"
  /\ \/ /\ request[k] \in LogIns
        /\ \E accepted \in BOOLEAN : authenticated' = [authenticated EXCEPT ![k] = accepted]
     \/ request[k] \in Requests /\ UNCHANGED authenticated
  /\ thread' = [thread EXCEPT ![k] = "reply"]
  /\ UNCHANGED <<clientVars, streams, request, running, faults>>

(* sendToClient, then terminateConnection unless the client has logged in.   *)
(* What reaches a socket the web server has closed is answered by a reset.   *)
Answer(k) ==
  /\ down' = [down EXCEPT ![k] = @ \o Frame(request[k])]
  /\ thread' = [thread EXCEPT ![k] = IF authenticated[k] THEN "readSize" ELSE "ended"]
  /\ downEnd' = [downEnd EXCEPT ![k] = IF authenticated[k] THEN @ ELSE "eof"]

SendToClient(k) ==
  /\ thread[k] = "reply"
  /\ Answer(k)
  /\ upEnd' = [upEnd EXCEPT ![k] = IF @ = "eof" THEN "reset" ELSE @]
  /\ UNCHANGED <<clientVars, up, outOfStep, request, authenticated, running, faults>>

(* The client has gone: a write or, after a reset, a read throws an          *)
(* IOException; no catch block of the thread handles it.                     *)
ClientGone(k) ==
  /\ \/ thread[k] = "reply" /\ upEnd[k] # "open"
     \/ thread[k] \in {"readSize", "readBody"} /\ upEnd[k] = "reset"
  /\ Die
  /\ UNCHANGED faults

(* At the end of the stream Read returns 0 and the loop goes round. *)
ListenToNothing(k) ==
  /\ thread[k] \in {"readSize", "readBody"}
  /\ up[k] = <<>> /\ upEnd[k] = "eof"
  /\ UNCHANGED vars

-----------------------------------------------------------------------------
(* Faults *)

Kill ==
  /\ running /\ faults.kills < MaxKills
  /\ faults' = [faults EXCEPT !.kills = @ + 1]
  /\ Die

StartServer ==
  /\ ~ running
  /\ running' = TRUE
  /\ UNCHANGED <<clientVars, streams, thread, request, authenticated, faults>>

(* The web server's process is replaced: its calls, its sessions and its     *)
(* connections are gone.                                                     *)
Recycle ==
  /\ faults.recycles < MaxRecycles
  /\ faults' = [faults EXCEPT !.recycles = @ + 1]
  /\ pc' = [c \in Calls |-> IF pc[c] \in InProgress THEN "failed" ELSE pc[c]]
  /\ connections' = [u \in Users |-> None]
  /\ socket' = [k \in Connections |-> IF socket[k] = "new" THEN "new" ELSE "closed"]
  /\ \E end \in {"eof", "reset"} :
       upEnd' = [k \in Connections |-> IF socket[k] = "connected" THEN end ELSE upEnd[k]]
  /\ UNCHANGED <<using, got, up, down, downEnd, outOfStep, serverVars>>

(* The garbage collector finalizes a connection nobody refers to any more,   *)
(* which closes its socket.                                                  *)
Collect(k) ==
  /\ socket[k] \in {"connected", "lost"}
  /\ \A u \in Users : connections[u] # k
  /\ \A c \in Calls : using[c] = k => pc[c] \notin InProgress
  /\ socket' = [socket EXCEPT ![k] = "closed"]
  /\ upEnd' = [upEnd EXCEPT ![k] = "eof"]
  /\ UNCHANGED <<pc, using, got, connections, up, down, downEnd, outOfStep, serverVars, faults>>

-----------------------------------------------------------------------------
CallStep(c) ==
  \/ Connect(c) \/ ConnectFails(c) \/ WriteSize(c) \/ WriteBody(c) \/ WriteFails(c)
  \/ BeginRead(c) \/ ReadSize(c) \/ ReadSizeOutOfStep(c) \/ ReadBody(c) \/ ReadWrongType(c)
  \/ ReadGarbage(c) \/ ReadFails(c) \/ ReadNothing(c) \/ Forget(c)

ListenToClient(k) ==
  \/ ListenSize(k) \/ ListenBody(k) \/ ListenGarbage(k) \/ Execute(k) \/ SendToClient(k)
  \/ ClientGone(k) \/ ListenToNothing(k)

Finished == \A c \in Calls : pc[c] \in Ended

Next ==
  \/ \E c \in Calls : LogIn(c) \/ Request(c) \/ TurnAway(c) \/ CloseLost(c) \/ CallStep(c)
  \/ \E k \in Connections : ListenToClient(k) \/ Collect(k)
  \/ Kill \/ StartServer \/ Recycle
  \/ Finished /\ UNCHANGED vars

Spec == Init /\ [][Next]_vars

(* Both processes keep running their threads, and services answer. *)
FairSpec ==
  /\ Spec
  /\ \A c \in Calls : WF_vars(CallStep(c))
  /\ \A k \in Connections : WF_vars(ListenToClient(k))

-----------------------------------------------------------------------------
(* Properties *)

(* The response a call returns is the response to its own request.  The      *)
(* replies carry nothing that says which request they answer: it is only the *)
(* order on the stream that matches them, across reconnections, broken calls *)
(* and replaced connections.                                                 *)
CallsGetTheirOwnReply == \A c \in Calls : pc[c] = "returned" => got[c] = c

(* Where listenToClient expects the body of a request, no other request      *)
(* begins: Deserialize never ends the process.                               *)
FramesArriveWhole ==
  \A k \in Connections :
    thread[k] = "readBody" /\ up[k] # <<>> => Head(up[k]) = Part("body", request[k])

(* "The connection object if the user has been properly authenticated        *)
(* recently. null otherwise" (ConnectionManager.cs:88) is not what another   *)
(* session of the user can count on: between the look-up that closes a lost  *)
(* connection and the removal of the entry he may log in, and it is the new  *)
(* connection that is removed.  That is the only way: as long as the web     *)
(* server's process lives, a user's connected connection is never closed     *)
(* under him, and is forgotten only by a look-up that had closed an earlier  *)
(* one; log ins, refused ones too, and all his other calls leave him one.    *)
LiveConnectionsAreKept ==
  [][\A u \in Users :
       LET k == connections[u] IN
       k # None /\ socket[k] = "connected" /\ faults' = faults =>
         /\ socket'[k] # "closed"
         /\ \/ connections'[u] # None
            \/ \E c \in Requests : At(c, "forget") /\ UserOf[c] = u /\ using[c] # k]_vars

(* However many calls of a user use his stream at once, whatever they lose   *)
(* or mistake for their own, none is given the reply to another user's call. *)
RepliesStayWithTheirUser ==
  \A c \in Calls : got[c] # None => UserOf[got[c]] = UserOf[c]

(* Nor are two calls given the same reply. *)
NoReplyIsGivenTwice ==
  \A c, d \in Calls : got[c] # None /\ got[c] = got[d] => c = d

(* Every call that has begun ends, with a reply or an exception, whatever is *)
(* killed or recycled meanwhile.  The exception is a call whose stream has   *)
(* ended without a reset, with a process: Read returns 0 to it for ever.     *)
Starved(c) ==
  /\ faults.kills + faults.recycles > 0
  /\ pc[c] \in Reading /\ down[using[c]] = <<>> /\ downEnd[using[c]] = "eof"

EveryCallEnds ==
  \A c \in Calls : pc[c] \in InProgress ~> (pc[c] \in Ended \/ Starved(c))

(* listenToClient "listens for message requests/commands for as long as the  *)
(* connection remains open": once the web server has closed it, its thread   *)
(* ends.                                                                     *)
ThreadEndsWithConnection ==
  \A k \in Connections : (socket[k] = "closed" /\ thread[k] # "none") ~> thread[k] = "ended"
=============================================================================
