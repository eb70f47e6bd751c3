------------------------- MODULE SignalRConnection -------------------------
(***************************************************************************)
(* The connection of a chat page to the web server: the client library of  *)
(* SignalR (jquery.signalR-2.2.2.js) as the page loads it, from start() to *)
(* stop(), with its transports, timers, reconnects and hub invocations.    *)
(* JavaScript runs one callback at a time: an action is one callback (a    *)
(* timer, an event of a socket, an answer to a request, a click).          *)
(***************************************************************************)
EXTENDS Integers, Sequences, FiniteSets, Functions

CONSTANTS
    Transports,     \* the transports negotiation selects, in the order tried
    Browsers,       \* for each kind of browser, the transports it has not:
                    \* their start calls onFailed before it returns
    FrameTimers,    \* bound: timers of foreverFrame's reconnect that are set
    Invocations,    \* calls of hub methods
    MaxMessages,    \* bound: messages from the server
    MaxFaults       \* bound: channels lost while connected, and sleeps

Kinds == {"webSockets", "serverSentEvents", "foreverFrame", "longPolling"}

\* foreverFrame refuses every browser that has event sources.
ASSUME TransportsAssumption ==
    /\ Transports \in Seq(Kinds)
    /\ Browsers \subseteq SUBSET Kinds
    /\ \A b \in Browsers : "foreverFrame" \in b <=> "serverSentEvents" \notin b

ASSUME BoundsAssumption == MaxMessages \in Nat /\ MaxFaults \in Nat

VARIABLES
    state,          \* connection.state
    deferral,       \* the deferred object start() returned
    negotiate,      \* the request to /negotiate
    unsupported,    \* the transports this browser has not
    attempt,        \* position of connection.transport in Transports, or 0
    init,           \* the flags of the InitHandler
    channel,        \* connection.socket, eventSource or pollXhr
    silent,         \* nothing comes through the channel any more
    slept,          \* lastActiveAt is longer ago than reconnectWindow
    timers,         \* the timers that are set
    handle,         \* transportTimeoutHandle is the timer "connect"
    monitoring,     \* keepAliveData.monitoring
    arrived,        \* number of messages that have come
    buffer,         \* connectingMessageBuffer
    delivered,      \* the messages given to the page
    callbacks,      \* invocationCallbacks: id -> invocation
    outcome,        \* what became of an invocation
    answer,         \* the invocation whose result it was given
    wire,           \* <<id, invocation>> on the socket, to be answered
    posts,          \* the same, each a request to /send
    faults

connVars == <<state, deferral, negotiate, unsupported, attempt, init>>
channelVars == <<channel, silent, slept, timers, handle, monitoring>>
messageVars == <<arrived, buffer, delivered>>
hubVars == <<callbacks, outcome, answer, wire, posts>>
vars == <<connVars, channelVars, messageVars, hubVars, faults>>

NamedTimers == {"connect", "reconnect", "attempt", "stop", "beat", "poll", "fire"}
Timers == NamedTimers \cup FrameTimers

ASSUME FrameTimersAssumption == FrameTimers \cap NamedTimers = {}

\* connection.transport
transport == IF attempt = 0 THEN "none" ELSE Transports[attempt]

NoCallbacks == <<>>

Init ==
    /\ state = "disconnected"
    /\ deferral = "none"
    /\ negotiate = "none"
    /\ unsupported \in Browsers
    /\ attempt = 0
    /\ init = [startRequested |-> FALSE, startCompleted |-> FALSE,
               connectionStopped |-> FALSE]
    /\ channel = "none"
    /\ silent = FALSE
    /\ slept = FALSE
    /\ timers = {}
    /\ handle = FALSE
    /\ monitoring = FALSE
    /\ arrived = 0
    /\ buffer = <<>>
    /\ delivered = <<>>
    /\ callbacks = NoCallbacks
    /\ outcome = [i \in Invocations |-> "none"]
    /\ answer = [i \in Invocations |-> {}]
    /\ wire = {}
    /\ posts = {}
    /\ faults = 0

-----------------------------------------------------------------------------
(* Mutants of definitions below.                                           *)

CandidatesPastTheEnd(i) ==
    {j \in i .. Len(Transports) + 1 :
        /\ j = Len(Transports) + 1 \/ Transports[j] \notin unsupported
        /\ \A k \in i .. j - 1 : Transports[k] \in unsupported}

TransportClearsNothing == {}

NeverClearsStop == {}

NeverArmsStop == {}

ForgetsInvocations == callbacks' = <<>> /\ UNCHANGED outcome

ClearsOnEveryTransport ==
    /\ state' = "reconnecting"
    /\ callbacks' = <<>>
    /\ outcome' = [i \in Invocations |->
                      IF outcome[i] \in {"pending", "lost"} /\ i \in Range(callbacks)
                      THEN "rejected" ELSE outcome[i]]

NoTransportsLeft(i, cleared) ==
    IF \A j \in i .. Len(Transports) : Transports[j] \in unsupported
    THEN /\ timers' = timers \ cleared
         /\ UNCHANGED <<state, deferral, unsupported, attempt, init, channel, silent, slept, handle,
                        monitoring, messageVars, hubVars>>
    ELSE /\ attempt' \in {j \in i .. Len(Transports) :
                            /\ Transports[j] \notin unsupported
                            /\ \A k \in i .. j - 1 : Transports[k] \in unsupported}
         /\ handle' = (attempt' = i)
         /\ channel' = "opening"
         /\ silent' = FALSE
         /\ timers' = (timers \ cleared) \cup {"connect"}
         /\ UNCHANGED <<state, deferral, unsupported, init, slept, monitoring, messageVars,
                        hubVars>>

OpensConnected ==
    /\ channel = "opening"
    /\ transport # "longPolling"
    /\ channel' = "open"
    /\ state' = "connected"
    /\ UNCHANGED <<deferral, negotiate, unsupported, attempt, init, silent, slept, timers, handle,
                   monitoring, messageVars, hubVars, faults>>

StartedWithoutDraining ==
    /\ init.startRequested /\ ~init.startCompleted /\ ~init.connectionStopped
    /\ init' = [init EXCEPT !.startCompleted = TRUE]
    /\ state' = "connected"
    /\ monitoring' = (transport # "longPolling")
    /\ timers' = timers \cup {"beat"}
    /\ slept' = FALSE
    /\ deferral' = IF deferral = "pending" THEN "resolved" ELSE deferral
    /\ UNCHANGED <<negotiate, unsupported, attempt, channel, silent, handle, messageVars, hubVars,
                   faults>>

-----------------------------------------------------------------------------
(* Pieces of the handlers.                                                 *)

\* callbacks is the sequence of the ids 0, 1, ...; a callback that has been
\* called is deleted.
Deleted == "deleted"

Reject == deferral' = IF deferral = "pending" THEN "rejected" ELSE deferral

\* clearInvocationCallbacks: every callback is called with an error, and ids
\* start at 0 again. An invocation that threw has no promise to be rejected.
ClearInvocationCallbacks ==
    /\ callbacks' = NoCallbacks
    /\ outcome' = [i \in Invocations |->
                      IF outcome[i] \in {"pending", "lost"} /\ i \in Range(callbacks)
                      THEN "rejected" ELSE outcome[i]]

\* The timers a transport's stop() clears: foreverFrame has no handle of its own.
StopClears ==
    [webSockets       |-> {"reconnect"},
     serverSentEvents |-> {"reconnect", "attempt"},
     foreverFrame     |-> {},
     longPolling      |-> {"poll", "fire"}]

TransportStop == IF attempt = 0 THEN {} ELSE StopClears[transport]

ClearsConnect == IF handle THEN {"connect"} ELSE {}
ClearsStop == IF state = "reconnecting" THEN {"stop"} ELSE {}

\* stop(), called by the timers fired, if by any that it would not clear. rearmed
\* is the heartbeat that a callback sets after its stop().
StopLeaving(fired, rearmed) ==
    /\ state' = "disconnected"
    /\ negotiate' = "none"
    /\ attempt' = 0
    /\ init' = [init EXCEPT !.connectionStopped = TRUE]
    /\ channel' = "none"
    /\ silent' = FALSE
    /\ slept' = FALSE
    /\ timers' = (timers \ (fired \cup TransportStop \cup ClearsConnect \cup ClearsStop
                            \cup {"beat"})) \cup rearmed
    /\ monitoring' = FALSE
    /\ buffer' = <<>>
    /\ ClearInvocationCallbacks
    /\ wire' = {}
    /\ UNCHANGED <<unsupported, handle, arrived, delivered, answer, posts>>

Stop == StopLeaving({}, {})

KeepDeferral == UNCHANGED deferral

-----------------------------------------------------------------------------
(* From start() to connected.                                              *)

\* start(), called when the document is ready, waits for the page to load.
StartWaitsForLoad ==
    /\ deferral = "none"
    /\ deferral' = "pending"
    /\ UNCHANGED <<state, negotiate, unsupported, attempt, init, channelVars, messageVars,
                   hubVars, faults>>

\* start() when the page has loaded, or the handler of its load event.
Start ==
    /\ deferral \in {"none", "pending"}
    /\ state = "disconnected"
    /\ deferral' = "pending"
    /\ state' = "connecting"
    /\ negotiate' = "open"
    /\ UNCHANGED <<unsupported, attempt, init, channelVars, messageVars, hubVars, faults>>

NegotiateFails ==
    /\ negotiate = "open"
    /\ Reject
    /\ Stop
    /\ UNCHANGED faults

\* The start() is refused and nothing else: the connection stays connecting.
NegotiateIncompatible ==
    /\ negotiate = "open"
    /\ negotiate' = "done"
    /\ Reject
    /\ UNCHANGED <<state, unsupported, attempt, init, channelVars, messageVars, hubVars, faults>>

\* initialize(transports, i): the first transport from i on whose start does
\* not fail at once. The starts that fail at once are nested, and each sets
\* transportTimeoutHandle when it returns: the last to do so is the first tried.
\* Candidates has that transport as its only member, or none.
Candidates(i) ==
    {j \in i .. Len(Transports) :
        /\ Transports[j] \notin unsupported
        /\ \A k \in i .. j - 1 : Transports[k] \in unsupported}

InitializeFrom(i, cleared) ==
    IF Candidates(i) = {}
    THEN /\ Reject
         /\ Stop
    ELSE /\ attempt' \in Candidates(i)
         /\ handle' = (attempt' = i)
         /\ channel' = "opening"
         /\ silent' = FALSE
         /\ timers' = (timers \ cleared) \cup {"connect"}
         /\ UNCHANGED <<state, deferral, unsupported, init, slept, monitoring, messageVars,
                        hubVars>>

Negotiated ==
    /\ negotiate = "open"
    /\ InitializeFrom(1, {})
    /\ negotiate' = IF Candidates(1) = {} THEN "none" ELSE "done"
    /\ UNCHANGED faults

\* transportFailed, for the transport being started.
TransportFailed ==
    \/ /\ ~init.startRequested
       /\ InitializeFrom(attempt + 1, TransportStop \cup ClearsConnect)
       /\ negotiate' = IF Candidates(attempt + 1) = {} THEN "none" ELSE negotiate
    \/ /\ init.startRequested
       /\ ~init.startCompleted
       /\ Reject
       /\ Stop

\* The timer set when the transport was started. It is still set after the
\* transport has connected if transportTimeoutHandle is another timer.
ConnectTimeout ==
    /\ "connect" \in timers
    /\ \/ ~init.startCompleted /\ ~init.connectionStopped /\ TransportFailed
       \/ /\ init.startCompleted \/ init.connectionStopped
          /\ timers' = timers \ {"connect"}
          /\ UNCHANGED <<connVars, channel, silent, slept, handle, monitoring,
                         messageVars, hubVars>>
    /\ UNCHANGED faults

\* The channel, or the connecting poll, ends before the start is complete.
ChannelFails ==
    /\ channel \in {"opening", "open"}
    /\ ~init.startCompleted
    /\ TransportFailed
    /\ UNCHANGED faults

\* onopen of a socket, "open" of an event source: also ends a reconnect.
ChannelOpens ==
    /\ channel = "opening"
    /\ transport # "longPolling"
    /\ channel' = "open"
    /\ state' = IF state = "reconnecting" THEN "connected" ELSE state
    /\ timers' = timers \ (StopClears[transport] \cup ClearsStop)
    /\ UNCHANGED <<deferral, negotiate, unsupported, attempt, init, silent, slept, handle,
                   monitoring, messageVars, hubVars, faults>>

\* The first message says Initialized: the start request is sent.
InitReceived ==
    /\ attempt # 0
    /\ channel = IF transport = "longPolling" THEN "opening" ELSE "open"
    /\ ~init.startRequested
    /\ ~init.connectionStopped
    /\ init' = [init EXCEPT !.startRequested = TRUE]
    /\ channel' = "open"
    /\ timers' = timers \ ClearsConnect
    /\ UNCHANGED <<state, deferral, negotiate, unsupported, attempt, silent, slept, handle,
                   monitoring, messageVars, hubVars, faults>>

StartRequestOpen ==
    init.startRequested /\ ~init.startCompleted /\ ~init.connectionStopped

StartRequestFails ==
    /\ StartRequestOpen
    /\ Reject
    /\ Stop
    /\ UNCHANGED faults

\* "started": connected, and the messages that came before are drained.
Started ==
    /\ StartRequestOpen
    /\ init' = [init EXCEPT !.startCompleted = TRUE]
    /\ state' = "connected"
    /\ monitoring' = (transport # "longPolling")
    /\ timers' = timers \cup {"beat"}
    /\ slept' = FALSE
    /\ delivered' = delivered \o buffer
    /\ buffer' = <<>>
    /\ deferral' = IF deferral = "pending" THEN "resolved" ELSE deferral
    /\ UNCHANGED <<negotiate, unsupported, attempt, channel, silent, handle, arrived, hubVars,
                   faults>>

-----------------------------------------------------------------------------
(* Losing the channel and getting it back.                                 *)

Fault == faults < MaxFaults /\ faults' = faults + 1

\* transportLogic.reconnect has one timer; foreverFrame sets another one each
\* time, and keeps none of their handles.
ReconnectTimers ==
    IF transport = "foreverFrame" THEN FrameTimers \ timers ELSE {"reconnect"}

\* A transport's reconnect: arm the timer, unless the page has slept for so
\* long that the server has given it up. rearmed: see StopLeaving.
Reconnect(rearmed) ==
    IF "reconnect" \in timers
    THEN UNCHANGED <<connVars, timers, slept, silent, monitoring, handle, messageVars, hubVars,
                     channel>>
    ELSE IF slept
    THEN StopLeaving({}, rearmed) /\ KeepDeferral
    ELSE /\ \E t \in ReconnectTimers : timers' = timers \cup {t}
         /\ UNCHANGED <<connVars, channel, silent, slept, handle, monitoring, messageVars, hubVars>>

\* ensureReconnectingState: on a change, hub connections give up what they
\* invoked over a socket, and the disconnect timeout starts.
ArmsStop == IF state = "connected" THEN {"stop"} ELSE {}

EnsureReconnectingState ==
    /\ state' = "reconnecting"
    /\ IF state = "connected" /\ transport = "webSockets"
       THEN ClearInvocationCallbacks
       ELSE UNCHANGED <<callbacks, outcome>>

\* onclose of the socket, an "error" of the event source that closes it, or the
\* load event of the frame, whose document has ended.
\* While connected it is a fault, while reconnecting it may happen any time.
ChannelCloses ==
    /\ channel \in {"opening", "open"}
    /\ init.startCompleted
    /\ transport # "longPolling"
    /\ IF state = "connected" THEN Fault ELSE UNCHANGED faults
    /\ IF "reconnect" \notin timers /\ slept
       THEN Stop /\ KeepDeferral
       ELSE /\ channel' = "closed"
            /\ wire' = {}
            /\ silent' = FALSE
            /\ \E t \in ReconnectTimers : timers' = timers \cup {t}
            /\ UNCHANGED <<connVars, slept, handle, monitoring, messageVars,
                           callbacks, outcome, answer, posts>>

\* The server is gone, and nothing says so: only the keep alive can tell.
GoesSilent ==
    /\ channel = "open" /\ ~silent
    /\ state = "connected"
    /\ transport # "longPolling"
    /\ Fault
    /\ silent' = TRUE
    /\ UNCHANGED <<connVars, channel, slept, timers, handle, monitoring, messageVars, hubVars>>

\* The computer sleeps for longer than reconnectWindow.
Sleep ==
    /\ state # "disconnected" /\ ~slept
    /\ Fault
    /\ slept' = TRUE
    /\ UNCHANGED <<connVars, channel, silent, timers, handle, monitoring, messageVars, hubVars>>

\* beat when the keep alive has timed out: lostConnection, then markActive,
\* which no longer sees the sleep if lostConnection has stopped the connection.
BeatWithoutKeepAlive ==
    /\ "beat" \in timers
    /\ monitoring /\ state = "connected" /\ (silent \/ slept)
    /\ IF "reconnect" \in timers /\ slept
       THEN Stop /\ KeepDeferral
       ELSE Reconnect({"beat"})
    /\ UNCHANGED faults

\* beat, otherwise: it does something only after a sleep.
BeatAfterSleep ==
    /\ "beat" \in timers
    /\ slept
    /\ Stop /\ KeepDeferral
    /\ UNCHANGED faults

\* The timer of transportLogic.reconnect.
ReconnectTimeout ==
    /\ "reconnect" \in timers
    /\ \/ slept /\ Stop
       \/ /\ ~slept
          /\ timers' = (timers \ StopClears[transport]) \cup ArmsStop
                       \cup (IF transport = "serverSentEvents" THEN {"attempt"} ELSE {})
          /\ channel' = "opening"
          /\ silent' = FALSE
          /\ wire' = {}
          /\ EnsureReconnectingState
          /\ UNCHANGED <<negotiate, unsupported, attempt, init, slept, handle, monitoring,
                         messageVars, answer, posts>>
    /\ KeepDeferral
    /\ UNCHANGED faults

\* A timer of foreverFrame's reconnect: the frame, if it is still there, gets
\* its address again. Nothing clears such a timer, so it may find the frame
\* removed, or at work again.
FrameTimeout ==
    /\ \E t \in FrameTimers \cap timers :
         \/ slept /\ StopLeaving({t}, {})
         \/ /\ ~slept /\ channel = "none"
            /\ timers' = timers \ {t}
            /\ UNCHANGED <<state, negotiate, unsupported, attempt, init, channel, silent, slept,
                           handle, monitoring, messageVars, hubVars>>
         \/ /\ ~slept /\ channel # "none"
            /\ timers' = (timers \ {t}) \cup ArmsStop
            /\ channel' = "opening"
            /\ silent' = FALSE
            /\ EnsureReconnectingState
            /\ UNCHANGED <<negotiate, unsupported, attempt, init, slept, handle, monitoring,
                           messageVars, answer, wire, posts>>
    /\ KeepDeferral
    /\ UNCHANGED faults

\* An event source that has not opened in time is tried again.
AttemptTimeout ==
    /\ "attempt" \in timers
    /\ \/ /\ channel # "open" /\ "reconnect" \notin timers
          /\ \/ slept /\ Stop
             \/ /\ ~slept
                /\ timers' = (timers \ {"attempt"}) \cup {"reconnect"}
                /\ UNCHANGED <<state, negotiate, unsupported, attempt, init, channel, silent,
                               slept, handle, monitoring, messageVars, hubVars>>
       \/ /\ channel = "open" \/ "reconnect" \in timers
          /\ timers' = timers \ {"attempt"}
          /\ UNCHANGED <<state, negotiate, unsupported, attempt, init, channel, silent, slept,
                         handle, monitoring, messageVars, hubVars>>
    /\ KeepDeferral
    /\ UNCHANGED faults

\* The disconnect timeout.
StopReconnecting ==
    /\ "stop" \in timers
    /\ Stop /\ KeepDeferral
    /\ UNCHANGED faults

\* The user leaves the page; bound when the connection was started.
Unload ==
    /\ init.startCompleted
    /\ state # "disconnected"
    /\ Stop /\ KeepDeferral
    /\ UNCHANGED faults

-----------------------------------------------------------------------------
(* Long polling has no socket: a poll that fails is repeated after a delay, *)
(* and a timer says "connected" while the poll is waiting for its answer.   *)

PollFails ==
    /\ channel = "open"
    /\ init.startCompleted
    /\ transport = "longPolling"
    /\ IF state = "connected" THEN Fault ELSE UNCHANGED faults
    /\ \/ slept /\ Stop
       \/ /\ ~slept
          /\ channel' = "closed"
          /\ timers' = (timers \ {"fire"}) \cup {"poll"} \cup ArmsStop
          /\ EnsureReconnectingState
          /\ UNCHANGED <<negotiate, unsupported, attempt, init, silent, slept, handle, monitoring,
                         messageVars, answer, wire, posts>>
    /\ KeepDeferral

\* The delay is over: poll(instance, true).
PollTimeout ==
    /\ "poll" \in timers
    /\ channel' = "open"
    /\ timers' = (timers \ {"poll"}) \cup {"fire"}
    /\ UNCHANGED <<connVars, silent, slept, handle, monitoring, messageVars, hubVars, faults>>

\* fireReconnected, by its timer or because the poll was answered.
FireReconnected ==
    /\ "fire" \in timers
    /\ timers' = timers \ ({"fire"} \cup ClearsStop)
    /\ state' = IF state = "reconnecting" THEN "connected" ELSE state
    /\ UNCHANGED <<deferral, negotiate, unsupported, attempt, init, channel, silent, slept,
                   handle, monitoring, messageVars, hubVars, faults>>

\* The answer to a poll asks the page to reconnect (ShouldReconnect).
PollReconnects ==
    /\ channel = "open"
    /\ init.startCompleted
    /\ transport = "longPolling"
    /\ state = "connected" /\ "fire" \notin timers
    /\ Fault
    /\ timers' = timers \cup {"fire"} \cup ArmsStop
    /\ EnsureReconnectingState
    /\ UNCHANGED <<deferral, negotiate, unsupported, attempt, init, channel, silent, slept,
                   handle, monitoring, messageVars, answer, wire, posts>>

-----------------------------------------------------------------------------
(* Messages and hub invocations.                                           *)

\* triggerReceived: kept while connecting, given to the page otherwise.
MessageArrives ==
    /\ channel = "open" /\ ~silent
    /\ arrived < MaxMessages
    /\ arrived' = arrived + 1
    /\ IF state = "connecting"
       THEN buffer' = Append(buffer, arrived') /\ UNCHANGED delivered
       ELSE delivered' = Append(delivered, arrived') /\ UNCHANGED buffer
    /\ UNCHANGED <<connVars, channelVars, hubVars, faults>>

NextId == Len(callbacks) + 1

\* What becomes of an invocation on the socket: one that is not open yet makes
\* it an error, a closed one loses it, and if the page is already reconnecting
\* nobody will give it up before the connection is stopped.
SentOnSocket ==
    CASE channel = "opening" -> "rejected"
      [] channel = "closed" /\ state = "reconnecting" -> "lost"
      [] OTHER -> "pending"

\* invoke: the callback is registered, then send may throw.
Invoke(i) ==
    /\ outcome[i] = "none"
    /\ \/ /\ state \in {"disconnected", "connecting"}
          /\ outcome' = [outcome EXCEPT ![i] = "threw"]
          /\ callbacks' = Append(callbacks, i)
          /\ UNCHANGED <<wire, posts>>
       \/ /\ state \in {"connected", "reconnecting"}
          /\ IF transport = "webSockets"
             THEN /\ outcome' = [outcome EXCEPT ![i] = SentOnSocket]
                  /\ callbacks' = Append(callbacks, IF channel = "opening" THEN Deleted ELSE i)
                  /\ wire' = IF channel = "open" THEN wire \cup {<<NextId, i>>} ELSE wire
                  /\ UNCHANGED posts
             ELSE /\ outcome' = [outcome EXCEPT ![i] = "pending"]
                  /\ callbacks' = Append(callbacks, i)
                  /\ posts' = posts \cup {<<NextId, i>>}
                  /\ UNCHANGED wire
    /\ UNCHANGED <<connVars, channelVars, messageVars, answer, faults>>

\* The callback with this id, if there is one, is called with the result of
\* the invocation that carried it, and deleted.
HasCallback(id) == id \in DOMAIN callbacks /\ callbacks[id] # Deleted

ReceiveResult(id, i, how) ==
    IF HasCallback(id)
    THEN /\ callbacks' = [callbacks EXCEPT ![id] = Deleted]
         /\ answer' = [answer EXCEPT ![callbacks[id]] = @ \cup {i}]
         /\ outcome' = [outcome EXCEPT ![callbacks[id]] = IF @ = "pending" THEN how ELSE @]
    ELSE UNCHANGED <<callbacks, answer, outcome>>

\* The result of a hub method, or the error it threw, comes over the socket.
SocketAnswers(id, i) ==
    /\ <<id, i>> \in wire
    /\ channel = "open" /\ ~silent
    /\ wire' = wire \ {<<id, i>>}
    /\ \E how \in {"resolved", "rejected"} : ReceiveResult(id, i, how)
    /\ UNCHANGED <<connVars, channelVars, messageVars, posts, faults>>

\* The request to /send is answered with the result, or fails.
PostAnswered(id, i) ==
    /\ <<id, i>> \in posts
    /\ posts' = posts \ {<<id, i>>}
    /\ \E how \in {"resolved", "rejected"} : ReceiveResult(id, i, how)
    /\ UNCHANGED <<connVars, channelVars, messageVars, wire, faults>>

-----------------------------------------------------------------------------
Invoking == \E i \in Invocations : Invoke(i)

Answering ==
    \E i \in Invocations, id \in 1 .. Len(callbacks) + Cardinality(Invocations) :
        SocketAnswers(id, i) \/ PostAnswered(id, i)

TimerFires ==
    \/ ConnectTimeout \/ ReconnectTimeout \/ FrameTimeout \/ AttemptTimeout \/ StopReconnecting
    \/ BeatWithoutKeepAlive \/ BeatAfterSleep \/ PollTimeout \/ FireReconnected

NegotiateEnds == NegotiateFails \/ NegotiateIncompatible \/ Negotiated

StartRequestEnds == StartRequestFails \/ Started

ChannelChanges ==
    \/ ChannelFails \/ ChannelOpens \/ InitReceived \/ ChannelCloses
    \/ GoesSilent \/ PollFails \/ PollReconnects \/ MessageArrives

User == StartWaitsForLoad \/ Start \/ Sleep \/ Unload

Next ==
    \/ User \/ NegotiateEnds \/ StartRequestEnds \/ ChannelChanges
    \/ TimerFires \/ Invoking \/ Answering

Spec == Init /\ [][Next]_vars

\* Timers that are set fire, requests end, and what is on an open channel is
\* answered. Nothing is assumed of channels: whether they open, close or fail.
FairSpec ==
    /\ Spec
    /\ WF_vars(Start)
    /\ WF_vars(NegotiateEnds)
    /\ WF_vars(StartRequestEnds)
    /\ WF_vars(ConnectTimeout)
    /\ WF_vars(ReconnectTimeout)
    /\ WF_vars(FrameTimeout)
    /\ WF_vars(AttemptTimeout)
    /\ WF_vars(StopReconnecting)
    /\ WF_vars(BeatWithoutKeepAlive)
    /\ WF_vars(PollTimeout)
    /\ WF_vars(FireReconnected)
    /\ WF_vars(Answering)

-----------------------------------------------------------------------------
TypeOK ==
    /\ state \in {"disconnected", "connecting", "connected", "reconnecting"}
    /\ deferral \in {"none", "pending", "resolved", "rejected"}
    /\ negotiate \in {"none", "open", "done"}
    /\ unsupported \in Browsers
    /\ attempt \in 0 .. Len(Transports)
    /\ init \in [startRequested : BOOLEAN, startCompleted : BOOLEAN,
                 connectionStopped : BOOLEAN]
    /\ channel \in {"none", "opening", "open", "closed"}
    /\ silent \in BOOLEAN /\ slept \in BOOLEAN
    /\ timers \subseteq Timers
    /\ handle \in BOOLEAN /\ monitoring \in BOOLEAN
    /\ arrived \in 0 .. MaxMessages
    /\ buffer \in Seq(1 .. MaxMessages) /\ delivered \in Seq(1 .. MaxMessages)
    /\ callbacks \in Seq(Invocations \cup {Deleted})
    /\ outcome \in [Invocations -> {"none", "threw", "pending", "lost", "resolved", "rejected"}]
    /\ answer \in [Invocations -> SUBSET Invocations]
    /\ wire \subseteq (Nat \X Invocations) /\ posts \subseteq (Nat \X Invocations)
    /\ faults \in 0 .. MaxFaults

(* The library keeps its promise to the page, whatever transports, timers  *)
(* and requests do underneath: done() is called once, when the connection  *)
(* is there, and a connection that has ended or was refused never returns. *)
Hub == INSTANCE HubConnection

ImplementsHubConnection == Hub!HubSpec

(* A connection that has been stopped stays stopped: nothing is left that  *)
(* could take it back to another state, no channel, no request to /start   *)
(* and no timer but a connect timeout, a heartbeat or a timer of the frame *)
(* (which stop() does not clear: they find the connection without frame).  *)
(* stop() clears the others one by one, through the transport of the       *)
(* moment.                                                                 *)
StoppedConnectionIsQuiet ==
    init.connectionStopped =>
        /\ state = "disconnected"
        /\ channel = "none"
        /\ negotiate # "open"
        /\ timers \subseteq {"connect", "beat"} \cup FrameTimers

(* While the connection reconnects, the disconnect timeout runs, and at no *)
(* other time: it is set by the reconnecting handler, cleared by the       *)
(* stateChanged handler.                                                   *)
DisconnectTimeoutRunsWhileReconnecting ==
    ("stop" \in timers) <=> (state = "reconnecting")

(* Messages reach the page in the order they came, and the last one that   *)
(* was given to it overtook none that is kept for it, although those that  *)
(* come before the start is complete wait in a buffer.                     *)
MessagesAreNotOvertaken ==
    \A m \in 1 .. Len(delivered) :
        /\ \A n \in 1 .. m - 1 : delivered[n] < delivered[m]
        /\ \A n \in 1 .. Len(buffer) : delivered[m] < buffer[n]

(* The promise of an invocation is given the result of that invocation,    *)
(* although ids start again at 0 when the connection is lost.              *)
ResultsReachTheirInvocation ==
    \A i \in Invocations : outcome[i] \in {"pending", "resolved"} => answer[i] \subseteq {i}

(* start() tells the page in the end whether it is connected: transports   *)
(* that hang, fail at once or fail late are passed over.                   *)
StartSettles == (deferral = "pending") ~> (deferral # "pending")

(* A connection that is lost is found again or given up: it does not       *)
(* reconnect for ever while the server is away.                            *)
ReconnectingEnds ==
    (state = "reconnecting") ~> (state \in {"connected", "disconnected"})

(* The promise of every invocation is settled, also when the socket it was *)
(* sent on is closed or dead, or is replaced before the answer has come.   *)
(* The exception is one made on a closed socket between two attempts to    *)
(* reconnect ("lost").                                                     *)
InvocationsSettle ==
    \A i \in Invocations : (outcome[i] = "pending") ~> (outcome[i] # "pending")
=============================================================================
