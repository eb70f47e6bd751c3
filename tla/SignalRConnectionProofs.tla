----------------------- MODULE SignalRConnectionProofs -----------------------
(***************************************************************************)
(* Theorems about SignalRConnection for any transports, invocations and    *)
(* bounds, with proofs checked by TLAPS.                                   *)
(***************************************************************************)
EXTENDS SignalRConnection, TLAPS

Stopped == init.connectionStopped = TRUE
Requested == init.startRequested = TRUE
Completed == init.startCompleted = TRUE
Live == state \in {"connected", "reconnecting"}

(* What stop() leaves behind, and why nothing can start again.               *)
StoppedInv ==
    Stopped => /\ state = "disconnected" /\ negotiate # "open" /\ attempt = 0
               /\ deferral \in {"resolved", "rejected"}
               /\ slept = FALSE /\ wire = {} /\ channel = "none"

(* Between start() and connected, one thing at a time is under way.          *)
StartInv ==
    /\ negotiate = "open" => attempt = 0 /\ deferral = "pending" /\ state = "connecting" /\ ~Stopped
    /\ attempt # 0 => ~Stopped
    /\ attempt # 0 /\ ~Completed => deferral = "pending" /\ state = "connecting"
    /\ attempt # 0 /\ Completed => deferral = "resolved" /\ Live
    /\ attempt = 0 => channel = "none" /\ ~Live
    /\ attempt = 0 /\ ~Stopped => ~Requested
    /\ Completed => Requested

(* The timers that are set belong to the transport of the moment, so that    *)
(* its stop() clears them, or are timers of foreverFrame, which nothing      *)
(* clears.                                                                   *)
OwnTimers ==
    {"connect", "beat", "stop"} \cup StopClears[transport]
    \cup (IF transport = "foreverFrame" THEN FrameTimers ELSE {})

TimersInv ==
    /\ attempt = 0 => timers \subseteq {"connect", "beat"} \cup FrameTimers
    /\ attempt = 0 /\ ~Stopped => timers = {}
    /\ attempt # 0 => timers \subseteq OwnTimers
    /\ ~Completed => timers \subseteq {"connect"} /\ monitoring = FALSE
    /\ "stop" \in timers <=> state = "reconnecting"
    /\ attempt # 0 /\ monitoring = TRUE => transport # "longPolling"

ControlInv == TypeOK /\ StoppedInv /\ StartInv /\ TimersInv

Increasing(s) == \A m \in DOMAIN s : \A n \in DOMAIN s : m < n => s[m] < s[n]

(* The buffer is used while connecting only, and is newer than delivered.    *)
OrderInv ==
    /\ Increasing(delivered) /\ Increasing(buffer)
    /\ \A m \in DOMAIN delivered : delivered[m] <= arrived
    /\ \A n \in DOMAIN buffer : buffer[n] <= arrived
    /\ \A m \in DOMAIN delivered, n \in DOMAIN buffer : delivered[m] < buffer[n]
    /\ state # "connecting" => buffer = <<>>

(* An answer that is due finds its own callback or none; after stop(), when  *)
(* ids have started again, it can only find callbacks that nobody waits for. *)
InvocationsInv ==
    /\ ~Live => wire = {}
    /\ ~Live /\ ~Stopped => posts = {}
    /\ Live /\ transport = "webSockets" => posts = {}
    /\ Live => \A id \in Nat, i \in Invocations : <<id, i>> \in wire \cup posts =>
                   id \in DOMAIN callbacks /\ callbacks[id] \in {i, Deleted}
    /\ Stopped => \A id \in DOMAIN callbacks : callbacks[id] # Deleted => outcome[callbacks[id]] = "threw"
    /\ \A i \in Invocations : outcome[i] # "threw" => answer[i] \subseteq {i}

SignalRInv == ControlInv /\ OrderInv /\ InvocationsInv

-----------------------------------------------------------------------------
(* Types.                                                                    *)
ConnTypes ==
    /\ state \in {"disconnected", "connecting", "connected", "reconnecting"}
    /\ deferral \in {"none", "pending", "resolved", "rejected"}
    /\ negotiate \in {"none", "open", "done"}
    /\ unsupported \in Browsers
    /\ attempt \in 0 .. Len(Transports)
    /\ init \in [startRequested : BOOLEAN, startCompleted : BOOLEAN, connectionStopped : BOOLEAN]
    /\ channel \in {"none", "opening", "open", "closed"}
    /\ timers \subseteq Timers

FlagTypes ==
    /\ silent \in BOOLEAN /\ slept \in BOOLEAN
    /\ handle \in BOOLEAN /\ monitoring \in BOOLEAN

MessageTypes ==
    /\ arrived \in 0 .. MaxMessages
    /\ buffer \in Seq(1 .. MaxMessages) /\ delivered \in Seq(1 .. MaxMessages)
    /\ faults \in 0 .. MaxFaults

HubTypes ==
    /\ callbacks \in Seq(Invocations \cup {Deleted})
    /\ outcome \in [Invocations -> {"none", "threw", "pending", "lost", "resolved", "rejected"}]
    /\ answer \in [Invocations -> SUBSET Invocations]
    /\ wire \subseteq (Nat \X Invocations) /\ posts \subseteq (Nat \X Invocations)

LEMMA TypesTogether == TypeOK <=> ConnTypes /\ FlagTypes /\ MessageTypes /\ HubTypes
BY DEF TypeOK, ConnTypes, FlagTypes, MessageTypes, HubTypes

LEMMA TypesTogetherNext ==
  ASSUME ConnTypes', FlagTypes', MessageTypes', HubTypes'
  PROVE  TypeOK'
BY DEF TypeOK, ConnTypes, FlagTypes, MessageTypes, HubTypes

LEMMA EmptyIsSeq == \A S : <<>> \in Seq(S)
OBVIOUS

LEMMA AppendIsSeq ==
  ASSUME NEW S, NEW s \in Seq(S), NEW e \in S
  PROVE  Append(s, e) \in Seq(S)
OBVIOUS

LEMMA ReplacedIsSeq ==
  ASSUME NEW S, NEW s \in Seq(S), NEW k \in DOMAIN s, NEW e \in S
  PROVE  [s EXCEPT ![k] = e] \in Seq(S)
<1>1. DOMAIN [s EXCEPT ![k] = e] = 1 .. Len(s) /\ Len(s) \in Nat
  OBVIOUS
<1>2. \A j \in 1 .. Len(s) : [s EXCEPT ![k] = e][j] \in S
  OBVIOUS
<1>3. [s EXCEPT ![k] = e] \in [1 .. Len(s) -> S]
  BY <1>1, <1>2
<1> QED
  BY <1>1, <1>3

LEMMA ClearedTypes ==
  ASSUME HubTypes, ClearInvocationCallbacks, answer' = answer, posts' = posts,
         wire' \subseteq wire
  PROVE  HubTypes'
<1>1. callbacks' \in Seq(Invocations \cup {Deleted})
  BY EmptyIsSeq DEF ClearInvocationCallbacks, NoCallbacks
<1>2. outcome' \in [Invocations -> {"none", "threw", "pending", "lost", "resolved", "rejected"}]
  BY DEF ClearInvocationCallbacks, HubTypes
<1> QED
  BY <1>1, <1>2 DEF HubTypes

LEMMA StopTypes ==
  ASSUME TypeOK, NEW fired, NEW rearmed, rearmed \subseteq {"beat"}, StopLeaving(fired, rearmed),
         deferral' \in {deferral, "rejected"}, faults' \in 0 .. MaxFaults
  PROVE  TypeOK'
<1>1. HubTypes'
  BY ClearedTypes, TypesTogether DEF StopLeaving, HubTypes
<1>2. FlagTypes'
  BY DEF StopLeaving, TypeOK, FlagTypes
<1>3. MessageTypes'
  BY EmptyIsSeq DEF StopLeaving, TypeOK, MessageTypes
<1>4. /\ timers' \subseteq Timers
      /\ init' \in [startRequested : BOOLEAN, startCompleted : BOOLEAN, connectionStopped : BOOLEAN]
  BY DEF StopLeaving, TypeOK, Timers, NamedTimers
<1>5. ConnTypes'
  BY <1>4, TransportsAssumption DEF StopLeaving, TypeOK, ConnTypes
<1> QED
  BY <1>1, <1>2, <1>3, <1>5, TypesTogether DEF TypeOK, ConnTypes, FlagTypes, MessageTypes, HubTypes

LEMMA EasyTypes ==
  ASSUME TypeOK
  PROVE  /\ StartWaitsForLoad => TypeOK'
         /\ Start => TypeOK'
         /\ Sleep => TypeOK'
         /\ NegotiateIncompatible => TypeOK'
         /\ Started => TypeOK'
         /\ ChannelOpens => TypeOK'
         /\ InitReceived => TypeOK'
         /\ GoesSilent => TypeOK'
         /\ PollTimeout => TypeOK'
         /\ FireReconnected => TypeOK'
         /\ MessageArrives => TypeOK'
<1> USE BoundsAssumption
<1>1. ASSUME StartWaitsForLoad PROVE TypeOK'
  BY <1>1 DEF StartWaitsForLoad, TypeOK, connVars, channelVars, messageVars, hubVars
<1>2. ASSUME Start PROVE TypeOK'
  BY <1>2 DEF Start, TypeOK, connVars, channelVars, messageVars, hubVars
<1>3. ASSUME Sleep PROVE TypeOK'
  BY <1>3 DEF Sleep, Fault, TypeOK, connVars, channelVars, messageVars, hubVars
<1>4. ASSUME NegotiateIncompatible PROVE TypeOK'
  BY <1>4 DEF NegotiateIncompatible, Reject, TypeOK, connVars, channelVars, messageVars, hubVars
<1>5. ASSUME Started PROVE TypeOK'
  <2>1. delivered \o buffer \in Seq(1 .. MaxMessages) /\ <<>> \in Seq(1 .. MaxMessages)
    BY EmptyIsSeq DEF TypeOK
  <2>2. monitoring' \in BOOLEAN
    BY <1>5 DEF Started
  <2>3. init' \in [startRequested : BOOLEAN, startCompleted : BOOLEAN, connectionStopped : BOOLEAN]
        /\ timers' \subseteq Timers
    BY <1>5 DEF Started, TypeOK, Timers, NamedTimers
  <2> QED  BY <1>5, <2>1, <2>2, <2>3 DEF Started, TypeOK, hubVars
<1>6. ASSUME ChannelOpens PROVE TypeOK'
  <2>1. ConnTypes'
    BY <1>6 DEF ChannelOpens, TypeOK, ConnTypes
  <2>2. FlagTypes' /\ MessageTypes' /\ HubTypes'
    BY <1>6 DEF ChannelOpens, TypeOK, FlagTypes, MessageTypes, HubTypes, messageVars, hubVars
  <2> QED  BY <2>1, <2>2, TypesTogetherNext
<1>7. ASSUME InitReceived PROVE TypeOK'
  <2>1. ConnTypes'
    BY <1>7 DEF InitReceived, TypeOK, ConnTypes
  <2>2. FlagTypes' /\ MessageTypes' /\ HubTypes'
    BY <1>7 DEF InitReceived, TypeOK, FlagTypes, MessageTypes, HubTypes, messageVars, hubVars
  <2> QED  BY <2>1, <2>2, TypesTogetherNext
<1>8. ASSUME GoesSilent PROVE TypeOK'
  BY <1>8 DEF GoesSilent, Fault, TypeOK, connVars, channelVars, messageVars, hubVars
<1>9. ASSUME PollTimeout PROVE TypeOK'
  BY <1>9 DEF PollTimeout, Timers, NamedTimers, TypeOK, connVars, channelVars, messageVars, hubVars
<1>10. ASSUME FireReconnected PROVE TypeOK'
  BY <1>10 DEF FireReconnected, TypeOK, connVars, channelVars, messageVars, hubVars
<1>11. ASSUME MessageArrives PROVE TypeOK'
  <2>1. arrived' \in 1 .. MaxMessages
    BY <1>11 DEF MessageArrives, TypeOK
  <2>2. Append(buffer, arrived') \in Seq(1 .. MaxMessages)
        /\ Append(delivered, arrived') \in Seq(1 .. MaxMessages)
    BY <2>1, AppendIsSeq DEF TypeOK
  <2>3. /\ arrived' \in 0 .. MaxMessages
        /\ buffer' \in Seq(1 .. MaxMessages) /\ delivered' \in Seq(1 .. MaxMessages)
    <3>1. CASE buffer' = Append(buffer, arrived') /\ UNCHANGED delivered
      BY <2>1, <2>2, <3>1 DEF TypeOK
    <3>2. CASE delivered' = Append(delivered, arrived') /\ UNCHANGED buffer
      BY <2>1, <2>2, <3>2 DEF TypeOK
    <3> QED  BY <1>11, <3>1, <3>2 DEF MessageArrives
  <2>4. MessageTypes'
    BY <1>11, <2>3 DEF MessageArrives, TypeOK, MessageTypes
  <2>5. ConnTypes' /\ FlagTypes' /\ HubTypes'
    BY <1>11 DEF MessageArrives, TypeOK, ConnTypes, FlagTypes, HubTypes, connVars, channelVars, hubVars
  <2> QED  BY <2>4, <2>5, TypesTogetherNext
<1> QED
  BY <1>1, <1>2, <1>3, <1>4, <1>5, <1>6, <1>7, <1>8, <1>9, <1>10, <1>11

LEMMA StoppingTypes ==
  ASSUME TypeOK, Unload \/ NegotiateFails \/ StartRequestFails \/ StopReconnecting \/ BeatAfterSleep
  PROVE  TypeOK'
<1>1. StopLeaving({}, {}) /\ faults' = faults /\ deferral' \in {deferral, "rejected"}
  BY DEF Unload, NegotiateFails, StartRequestFails, StopReconnecting, BeatAfterSleep, StartRequestOpen, Reject, KeepDeferral, Stop
<1> QED
  BY <1>1, StopTypes DEF TypeOK

LEMMA InitializeTypes ==
  ASSUME TypeOK, NEW i \in 1 .. Len(Transports) + 1, NEW cleared, InitializeFrom(i, cleared),
         negotiate' \in {"none", "open", "done"}, faults' = faults
  PROVE  TypeOK'
<1>1. CASE Candidates(i) = {}
  <2>1. StopLeaving({}, {}) /\ deferral' \in {deferral, "rejected"}
    BY <1>1 DEF InitializeFrom, Reject, Stop
  <2> QED  BY <2>1, StopTypes DEF TypeOK
<1>2. CASE Candidates(i) # {}
  <2>1. attempt' \in 0 .. Len(Transports)
    BY <1>2, TransportsAssumption DEF InitializeFrom, Candidates
  <2>3. handle' \in BOOLEAN
    BY <1>2 DEF InitializeFrom
  <2>2. timers' \subseteq Timers
    BY <1>2 DEF InitializeFrom, TypeOK, Timers, NamedTimers
  <2> QED  BY <1>2, <2>1, <2>2, <2>3 DEF InitializeFrom, TypeOK, messageVars, hubVars
<1> QED
  BY <1>1, <1>2

LEMMA TransportFailedTypes ==
  ASSUME TypeOK, TransportFailed, faults' = faults
  PROVE  TypeOK'
<1>1. CASE /\ InitializeFrom(attempt + 1, TransportStop \cup ClearsConnect)
           /\ negotiate' = IF Candidates(attempt + 1) = {} THEN "none" ELSE negotiate
  <2>1. attempt + 1 \in 1 .. Len(Transports) + 1
    BY TransportsAssumption DEF TypeOK
  <2>2. negotiate' \in {"none", "open", "done"}
    BY <1>1 DEF TypeOK
  <2> QED  BY <1>1, <2>1, <2>2, InitializeTypes
<1>2. CASE Reject /\ Stop
  <2>1. StopLeaving({}, {}) /\ deferral' \in {deferral, "rejected"}
    BY <1>2 DEF Reject, Stop
  <2> QED  BY <2>1, StopTypes DEF TypeOK
<1> QED
  BY <1>1, <1>2 DEF TransportFailed

LEMMA StartingTypes ==
  ASSUME TypeOK, Negotiated \/ ConnectTimeout \/ ChannelFails
  PROVE  TypeOK'
<1>1. CASE Negotiated
  <2>1. 1 \in 1 .. Len(Transports) + 1
    BY TransportsAssumption
  <2> QED  BY <1>1, <2>1, InitializeTypes DEF Negotiated
<1>2. CASE ConnectTimeout
  <2>1. CASE TransportFailed
    BY <1>2, <2>1, TransportFailedTypes DEF ConnectTimeout
  <2>2. CASE /\ timers' = timers \ {"connect"}
             /\ UNCHANGED <<connVars, channel, silent, slept, handle, monitoring, messageVars, hubVars,
                            faults>>
    BY <2>2 DEF TypeOK, connVars, messageVars, hubVars
  <2> QED  BY <1>2, <2>1, <2>2 DEF ConnectTimeout
<1>3. CASE ChannelFails
  BY <1>3, TransportFailedTypes DEF ChannelFails
<1> QED
  BY <1>1, <1>2, <1>3

LEMMA ReconnectTimersAreTimers == ReconnectTimers \subseteq Timers
BY DEF ReconnectTimers, Timers, NamedTimers

LEMMA ReconnectTypes ==
  ASSUME TypeOK, NEW rearmed, rearmed \subseteq {"beat"}, Reconnect(rearmed), faults' = faults
  PROVE  TypeOK'
<1>1. CASE StopLeaving({}, rearmed) /\ KeepDeferral
  BY <1>1, StopTypes DEF KeepDeferral, TypeOK
<1>2. ASSUME timers' \subseteq Timers,
             UNCHANGED <<connVars, channel, silent, slept, handle, monitoring, messageVars, hubVars>>
      PROVE  TypeOK'
  BY <1>2 DEF TypeOK, connVars, messageVars, hubVars
<1>3. timers \subseteq Timers
  BY DEF TypeOK
<1>4. CASE timers' = timers
  BY <1>1, <1>2, <1>3, <1>4 DEF Reconnect
<1>5. CASE \E t \in ReconnectTimers : timers' = timers \cup {t}
  BY <1>1, <1>2, <1>3, <1>5, ReconnectTimersAreTimers DEF Reconnect
<1> QED
  BY <1>1, <1>4, <1>5 DEF Reconnect

LEMMA EnsureTypes ==
  ASSUME TypeOK, EnsureReconnectingState, answer' = answer, posts' = posts, wire' \subseteq wire
  PROVE  HubTypes' /\ state' = "reconnecting"
<1>1. CASE ClearInvocationCallbacks
  BY <1>1, ClearedTypes, TypesTogether DEF EnsureReconnectingState
<1> QED
  BY <1>1 DEF EnsureReconnectingState, TypeOK, HubTypes

LEMMA LosingTypes ==
  ASSUME TypeOK,
         ChannelCloses \/ BeatWithoutKeepAlive \/ ReconnectTimeout \/ FrameTimeout \/ AttemptTimeout
         \/ PollFails \/ PollReconnects
  PROVE  TypeOK'
<1>0. ASSUME Stop, KeepDeferral, faults' \in 0 .. MaxFaults PROVE TypeOK'
  BY <1>0, StopTypes DEF Stop, KeepDeferral, TypeOK
<1>a. faults' \in 0 .. MaxFaults
  BY BoundsAssumption
     DEF ChannelCloses, BeatWithoutKeepAlive, ReconnectTimeout, FrameTimeout, AttemptTimeout, PollFails,
         PollReconnects, Fault, TypeOK
<1>1. CASE ChannelCloses
  <2>1. CASE Stop /\ KeepDeferral
    BY <1>0, <1>a, <2>1
  <2>2. CASE /\ channel' = "closed" /\ wire' = {} /\ silent' = FALSE
             /\ \E t \in ReconnectTimers : timers' = timers \cup {t}
             /\ UNCHANGED <<connVars, slept, handle, monitoring, messageVars, callbacks, outcome, answer,
                            posts>>
    <3>0. timers' \subseteq Timers
      BY <2>2, ReconnectTimersAreTimers DEF TypeOK
    <3>1. ConnTypes'
      BY <2>2, <3>0 DEF TypeOK, ConnTypes, connVars
    <3>3. FlagTypes'
      BY <2>2 DEF TypeOK, FlagTypes
    <3>2. MessageTypes' /\ HubTypes'
      BY <1>a, <2>2 DEF TypeOK, MessageTypes, HubTypes, messageVars
    <3> QED  BY <3>1, <3>2, <3>3, TypesTogetherNext
  <2> QED  BY <1>1, <2>1, <2>2 DEF ChannelCloses
<1>2. CASE BeatWithoutKeepAlive
  BY <1>0, <1>a, <1>2, ReconnectTypes DEF BeatWithoutKeepAlive
<1>3. CASE ReconnectTimeout
  <2>1. CASE Stop
    BY <1>0, <1>a, <1>3, <2>1 DEF ReconnectTimeout
  <2>2. CASE ~slept /\ EnsureReconnectingState
    <3>1. HubTypes' /\ state' = "reconnecting" /\ timers' \subseteq Timers
      BY <1>3, <2>2, EnsureTypes
         DEF ReconnectTimeout, TypeOK, Timers, NamedTimers, ArmsStop, Stop, StopLeaving
    <3> QED  BY <1>3, <1>a, <2>2, <3>1
                DEF ReconnectTimeout, TypeOK, HubTypes, messageVars, KeepDeferral, Stop
  <2> QED  BY <1>3, <2>1, <2>2 DEF ReconnectTimeout
<1>4. CASE AttemptTimeout
  <2>1. CASE /\ timers' \subseteq timers \cup {"reconnect"}
             /\ UNCHANGED <<state, negotiate, unsupported, attempt, init, channel, silent, slept, handle,
                            monitoring, messageVars, hubVars, deferral>>
    BY <1>a, <2>1 DEF TypeOK, Timers, NamedTimers, messageVars, hubVars
  <2>2. CASE Stop
    BY <1>0, <1>a, <1>4, <2>2 DEF AttemptTimeout
  <2> QED  BY <1>4, <2>1, <2>2 DEF AttemptTimeout, KeepDeferral
<1>5. CASE PollFails
  <2>1. CASE Stop
    BY <1>0, <1>a, <1>5, <2>1 DEF PollFails
  <2>2. CASE ~slept /\ EnsureReconnectingState
    <3>1. HubTypes' /\ state' = "reconnecting" /\ timers' \subseteq Timers
      BY <1>5, <2>2, EnsureTypes DEF PollFails, TypeOK, Timers, NamedTimers, ArmsStop, Stop
    <3> QED  BY <1>5, <1>a, <2>2, <3>1 DEF PollFails, TypeOK, HubTypes, messageVars, KeepDeferral, Stop
  <2> QED  BY <1>5, <2>1, <2>2 DEF PollFails
<1>6. CASE PollReconnects
  <2>1. HubTypes' /\ state' = "reconnecting" /\ timers' \subseteq Timers
    BY <1>6, EnsureTypes DEF PollReconnects, TypeOK, Timers, NamedTimers, ArmsStop
  <2> QED  BY <1>6, <1>a, <2>1 DEF PollReconnects, TypeOK, HubTypes, messageVars
<1>7. CASE FrameTimeout
  <2>1. PICK t \in FrameTimers \cap timers :
           \/ slept /\ StopLeaving({t}, {})
           \/ /\ ~slept /\ channel = "none"
              /\ timers' = timers \ {t}
              /\ UNCHANGED <<state, negotiate, unsupported, attempt, init, channel, silent, slept,
                             handle, monitoring, messageVars, hubVars>>
           \/ /\ ~slept /\ channel # "none"
              /\ timers' = (timers \ {t}) \cup ArmsStop
              /\ channel' = "opening"
              /\ silent' = FALSE
              /\ EnsureReconnectingState
              /\ UNCHANGED <<negotiate, unsupported, attempt, init, slept, handle, monitoring,
                             messageVars, answer, wire, posts>>
    BY <1>7 DEF FrameTimeout
  <2>2. deferral' = deferral
    BY <1>7 DEF FrameTimeout, KeepDeferral
  <2>3. CASE StopLeaving({t}, {})
    BY <1>a, <2>2, <2>3, StopTypes
  <2>4. CASE /\ timers' = timers \ {t}
             /\ UNCHANGED <<state, negotiate, unsupported, attempt, init, channel, silent, slept,
                            handle, monitoring, messageVars, hubVars>>
    BY <1>a, <2>2, <2>4 DEF TypeOK, messageVars, hubVars
  <2>5. CASE /\ timers' = (timers \ {t}) \cup ArmsStop
             /\ channel' = "opening"
             /\ silent' = FALSE
             /\ EnsureReconnectingState
             /\ UNCHANGED <<negotiate, unsupported, attempt, init, slept, handle, monitoring,
                            messageVars, answer, wire, posts>>
    <3>1. HubTypes' /\ state' = "reconnecting" /\ timers' \subseteq Timers
      BY <2>5, EnsureTypes DEF TypeOK, Timers, NamedTimers, ArmsStop
    <3> QED  BY <1>a, <2>2, <2>5, <3>1 DEF TypeOK, HubTypes, messageVars
  <2> QED  BY <2>1, <2>3, <2>4, <2>5
<1> QED
  BY <1>1, <1>2, <1>3, <1>4, <1>5, <1>6, <1>7

LEMMA InvokingTypes ==
  ASSUME TypeOK, Invoking
  PROVE  TypeOK'
<1>1. PICK i \in Invocations : Invoke(i)
  BY DEF Invoking
<1>2. /\ outcome' \in [Invocations -> {"none", "threw", "pending", "lost", "resolved", "rejected"}]
      /\ callbacks' = Append(callbacks, i) \/ callbacks' = Append(callbacks, Deleted)
  BY <1>1 DEF Invoke, TypeOK, SentOnSocket
<1>3. callbacks' \in Seq(Invocations \cup {Deleted}) /\ NextId \in Nat
  <2>1. callbacks \in Seq(Invocations \cup {Deleted})
    BY DEF TypeOK
  <2>2. Append(callbacks, i) \in Seq(Invocations \cup {Deleted})
        /\ Append(callbacks, Deleted) \in Seq(Invocations \cup {Deleted})
    BY <2>1, AppendIsSeq
  <2>3. NextId \in Nat
    BY <2>1 DEF NextId
  <2> QED  BY <1>2, <2>2, <2>3
<1>4. wire' \subseteq (Nat \X Invocations) /\ posts' \subseteq (Nat \X Invocations)
  BY <1>1, <1>3 DEF Invoke, TypeOK
<1> QED
  BY <1>1, <1>2, <1>3, <1>4 DEF Invoke, TypeOK, connVars, channelVars, messageVars

LEMMA ResultTypes ==
  ASSUME TypeOK, NEW id \in Nat, NEW i \in Invocations, NEW how \in {"resolved", "rejected"},
         ReceiveResult(id, i, how)
  PROVE  /\ callbacks' \in Seq(Invocations \cup {Deleted})
         /\ outcome' \in [Invocations -> {"none", "threw", "pending", "lost", "resolved", "rejected"}]
         /\ answer' \in [Invocations -> SUBSET Invocations]
<1>1. CASE HasCallback(id)
  <2>1. id \in DOMAIN callbacks /\ callbacks[id] \in Invocations
    BY <1>1 DEF HasCallback, TypeOK
  <2>2. callbacks' \in Seq(Invocations \cup {Deleted})
    <3>1. callbacks \in Seq(Invocations \cup {Deleted}) /\ Deleted \in Invocations \cup {Deleted}
      BY DEF TypeOK
    <3>2. [callbacks EXCEPT ![id] = Deleted] \in Seq(Invocations \cup {Deleted})
      BY <2>1, <3>1, ReplacedIsSeq
    <3> QED  BY <1>1, <3>2 DEF ReceiveResult
  <2>3. outcome' \in [Invocations -> {"none", "threw", "pending", "lost", "resolved", "rejected"}]
    BY <1>1, <2>1 DEF ReceiveResult, TypeOK
  <2>4. answer' \in [Invocations -> SUBSET Invocations]
    <3>1. PICK j \in Invocations : j = callbacks[id]
      BY <2>1
    <3>2. answer' = [answer EXCEPT ![j] = answer[j] \cup {i}] /\ answer[j] \cup {i} \subseteq Invocations
      BY <1>1, <3>1 DEF ReceiveResult, TypeOK
    <3> QED  BY <3>2 DEF TypeOK
  <2> QED  BY <2>2, <2>3, <2>4
<1> QED
  BY <1>1 DEF ReceiveResult, TypeOK

LEMMA AnsweringTypes ==
  ASSUME TypeOK, Answering
  PROVE  TypeOK'
<1>1. PICK i \in Invocations, id \in Nat : SocketAnswers(id, i) \/ PostAnswered(id, i)
  BY DEF Answering, SocketAnswers, PostAnswered, TypeOK
<1>2. PICK how \in {"resolved", "rejected"} : ReceiveResult(id, i, how)
  BY <1>1 DEF SocketAnswers, PostAnswered
<1>3. /\ wire' \subseteq wire /\ posts' \subseteq posts
      /\ UNCHANGED <<connVars, channelVars, messageVars, faults>>
  BY <1>1 DEF SocketAnswers, PostAnswered
<1>4. /\ callbacks' \in Seq(Invocations \cup {Deleted})
      /\ outcome' \in [Invocations -> {"none", "threw", "pending", "lost", "resolved", "rejected"}]
      /\ answer' \in [Invocations -> SUBSET Invocations]
  BY <1>2, ResultTypes
<1> QED
  BY <1>3, <1>4 DEF TypeOK, connVars, channelVars, messageVars

LEMMA TypeNext ==
  ASSUME TypeOK, [Next]_vars
  PROVE  TypeOK'
<1>1. CASE UNCHANGED vars
  BY <1>1 DEF TypeOK, vars, connVars, channelVars, messageVars, hubVars
<1> QED
  BY <1>1, EasyTypes, StoppingTypes, StartingTypes, LosingTypes, InvokingTypes, AnsweringTypes
     DEF Next, User, NegotiateEnds, StartRequestEnds, ChannelChanges, TimerFires

LEMMA TypeInit ==
  ASSUME Init
  PROVE  TypeOK
<1>1. buffer \in Seq(1 .. MaxMessages) /\ delivered \in Seq(1 .. MaxMessages)
      /\ callbacks \in Seq(Invocations \cup {Deleted})
  BY EmptyIsSeq DEF Init, NoCallbacks
<1>2. attempt \in 0 .. Len(Transports)
  BY TransportsAssumption DEF Init
<1>3. init \in [startRequested : BOOLEAN, startCompleted : BOOLEAN, connectionStopped : BOOLEAN]
  BY DEF Init
<1>4. silent \in BOOLEAN /\ slept \in BOOLEAN /\ handle \in BOOLEAN /\ monitoring \in BOOLEAN
  BY DEF Init
<1> QED
  BY <1>1, <1>2, <1>3, <1>4, BoundsAssumption DEF Init, TypeOK

(* Every variable of the model keeps its type.                               *)
THEOREM SignalRTypeCorrect == Spec => []TypeOK
<1>1. Init => TypeOK
  BY TypeInit
<1>2. TypeOK /\ [Next]_vars => TypeOK'
  BY TypeNext
<1> QED
  BY <1>1, <1>2, PTL DEF Spec

-----------------------------------------------------------------------------
(* Control. A step is one of HubConnection or leaves what the page sees.     *)
HubStep == Hub!HubNext \/ (state' = state /\ deferral' = deferral)

Control == StoppedInv /\ StartInv /\ TimersInv

LEMMA FlagsAreEqual ==
  ASSUME TypeOK
  PROVE  /\ init.connectionStopped <=> Stopped
         /\ init.startRequested <=> Requested
         /\ init.startCompleted <=> Completed
         /\ slept <=> slept = TRUE
         /\ monitoring <=> monitoring = TRUE
BY DEF TypeOK, Stopped, Requested, Completed

LEMMA TransportKind ==
  ASSUME TypeOK, attempt # 0
  PROVE  transport \in Kinds
BY TransportsAssumption DEF TypeOK, transport

LEMMA StopControl ==
  ASSUME TypeOK, Control, NEW rearmed, rearmed \subseteq {"beat"}, rearmed = {} \/ Completed,
         NEW fired, StopLeaving(fired, rearmed), deferral' \in {"resolved", "rejected"}
  PROVE  Control'
<1>1. /\ Stopped' /\ (Requested' <=> Requested) /\ (Completed' <=> Completed)
      /\ state' = "disconnected" /\ negotiate' = "none" /\ attempt' = 0 /\ channel' = "none"
      /\ slept' = FALSE /\ monitoring' = FALSE /\ wire' = {}
  BY DEF StopLeaving, TypeOK, Stopped, Requested, Completed
<1>2. /\ timers' \subseteq {"connect"} \cup FrameTimers \cup rearmed
      /\ ~Completed => timers' \subseteq {"connect"}
      /\ "stop" \notin timers'
  <2>1. "stop" \in timers => "stop" \in ClearsStop
    BY DEF Control, TimersInv, ClearsStop
  <2>2. timers \subseteq {"connect", "beat", "stop"} \cup FrameTimers \cup TransportStop
    BY DEF Control, TimersInv, TransportStop, OwnTimers
  <2>3. ~Completed => timers \subseteq {"connect"}
    BY DEF Control, TimersInv
  <2> QED  BY <2>1, <2>2, <2>3 DEF StopLeaving
<1>3. StoppedInv'
  BY <1>1 DEF StoppedInv
<1>4. StartInv'
  BY <1>1 DEF StartInv, Control, Live
<1>5. TimersInv'
  BY <1>1, <1>2 DEF TimersInv
<1> QED
  BY <1>3, <1>4, <1>5 DEF Control

(* A stop by fail() and a stop of a connection that has started.             *)
LEMMA StopSteps ==
  ASSUME TypeOK, Control, NEW fired, NEW rearmed, rearmed \subseteq {"beat"}, StopLeaving(fired, rearmed)
  PROVE  /\ state = "connecting" /\ deferral = "pending" /\ deferral' = "rejected" /\ rearmed = {} =>
                Control' /\ HubStep
         /\ attempt # 0 /\ Completed /\ deferral' = deferral => Control' /\ HubStep
<1>1. state' = "disconnected"
  BY DEF StopLeaving
<1>2. ASSUME state = "connecting", deferral = "pending", deferral' = "rejected", rearmed = {}
      PROVE  Control' /\ HubStep
  BY <1>1, <1>2, StopControl DEF HubStep, Hub!HubNext, Hub!Refuse
<1>3. ASSUME attempt # 0, Completed, deferral' = deferral PROVE Control' /\ HubStep
  <2>1. deferral = "resolved" /\ Live
    BY <1>3 DEF Control, StartInv
  <2> QED  BY <1>1, <1>3, <2>1, StopControl DEF HubStep, Hub!HubNext, Hub!Move, Hub!Moves, Live
<1> QED
  BY <1>2, <1>3

(* The variables that Control is about.                                      *)
LEMMA ControlStays ==
  ASSUME Control, state' = state, deferral' = deferral, negotiate' = negotiate, attempt' = attempt,
         init' = init, channel' = channel, slept' = slept, timers' = timers, monitoring' = monitoring,
         wire' \subseteq wire
  PROVE  Control' /\ HubStep
<1>1. transport' = transport
  BY DEF transport
<1>2. OwnTimers' = OwnTimers
  BY <1>1 DEF OwnTimers
<1> QED
  BY <1>1, <1>2 DEF Control, StoppedInv, StartInv, TimersInv, Stopped, Requested, Completed, Live, HubStep

(* The timers of a reconnect are set on a started connection only.           *)
LEMMA TimersOfTransport ==
  ASSUME TypeOK, Control
  PROVE  /\ "reconnect" \in timers => attempt # 0 /\ Completed /\ transport # "longPolling"
         /\ "attempt" \in timers => attempt # 0 /\ Completed /\ transport = "serverSentEvents"
         /\ "poll" \in timers \/ "fire" \in timers => attempt # 0 /\ Completed /\ transport = "longPolling"
         /\ "stop" \in timers => attempt # 0 /\ Completed
         /\ attempt # 0 /\ timers \cap FrameTimers # {} => Completed /\ transport = "foreverFrame"
<1>1. ASSUME attempt # 0 PROVE transport \in Kinds
  BY <1>1, TransportKind
<1>2. "stop" \in timers => attempt # 0 /\ Completed
  BY DEF Control, StartInv, TimersInv, Live
<1>3. attempt # 0 => timers \subseteq OwnTimers
  BY DEF Control, TimersInv
<1>4. attempt = 0 => timers \subseteq {"connect", "beat"} \cup FrameTimers
  BY DEF Control, TimersInv
<1>5. ~Completed => timers \subseteq {"connect"}
  BY DEF Control, TimersInv
<1>6. \A t \in FrameTimers : t \notin NamedTimers
  BY FrameTimersAssumption
<1>7. "reconnect" \in timers => attempt # 0 /\ Completed /\ transport # "longPolling"
  BY <1>1, <1>3, <1>4, <1>5, <1>6 DEF OwnTimers, StopClears, Kinds, NamedTimers
<1>8. "attempt" \in timers => attempt # 0 /\ Completed /\ transport = "serverSentEvents"
  BY <1>1, <1>3, <1>4, <1>5, <1>6 DEF OwnTimers, StopClears, Kinds, NamedTimers
<1>9. "poll" \in timers \/ "fire" \in timers => attempt # 0 /\ Completed /\ transport = "longPolling"
  BY <1>1, <1>3, <1>4, <1>5, <1>6 DEF OwnTimers, StopClears, Kinds, NamedTimers
<1>10. attempt # 0 /\ timers \cap FrameTimers # {} => Completed /\ transport = "foreverFrame"
  <2>1. StopClears[transport] \subseteq NamedTimers \/ attempt = 0
    BY <1>1 DEF StopClears, Kinds, NamedTimers
  <2>2. {"connect", "beat", "stop"} \subseteq NamedTimers
    BY DEF NamedTimers
  <2> QED  BY <1>3, <1>5, <1>6, <2>1, <2>2 DEF OwnTimers
<1> QED
  BY <1>2, <1>7, <1>8, <1>9, <1>10

LEMMA BeginningControl ==
  ASSUME TypeOK, Control, StartWaitsForLoad \/ Start \/ NegotiateFails \/ NegotiateIncompatible
  PROVE  Control' /\ HubStep
<1>1. CASE StartWaitsForLoad
  <2>1. ~Stopped /\ attempt = 0 /\ negotiate # "open"
    BY <1>1 DEF StartWaitsForLoad, Control, StoppedInv, StartInv
  <2>2. /\ deferral' = "pending" /\ state' = state /\ negotiate' = negotiate /\ attempt' = attempt
        /\ init' = init /\ channel' = channel /\ timers' = timers /\ monitoring' = monitoring
    BY <1>1 DEF StartWaitsForLoad, channelVars
  <2> QED  BY <1>1, <2>1, <2>2
              DEF StartWaitsForLoad, Control, StoppedInv, StartInv, TimersInv, Stopped, Requested, Completed,
                  Live, HubStep, Hub!HubNext, Hub!Wait
<1>2. CASE Start
  <2>1. ~Stopped /\ attempt = 0 /\ timers = {}
    BY <1>2 DEF Start, Control, StoppedInv, StartInv, TimersInv, Live
  <2>2. /\ deferral' = "pending" /\ state' = "connecting" /\ negotiate' = "open" /\ attempt' = attempt
        /\ init' = init /\ channel' = channel /\ timers' = timers /\ monitoring' = monitoring
    BY <1>2 DEF Start, channelVars
  <2> QED  BY <1>2, <2>1, <2>2
              DEF Start, Control, StoppedInv, StartInv, TimersInv, Stopped, Requested, Completed,
                  Live, HubStep, Hub!HubNext, Hub!Begin
<1>3. CASE NegotiateFails
  <2>1. state = "connecting" /\ deferral = "pending"
    BY <1>3 DEF NegotiateFails, Control, StartInv
  <2> QED  BY <1>3, <2>1, StopSteps DEF NegotiateFails, Reject, Stop
<1>4. CASE NegotiateIncompatible
  <2>1. ~Stopped /\ attempt = 0 /\ deferral = "pending" /\ state = "connecting"
    BY <1>4 DEF NegotiateIncompatible, Control, StartInv
  <2>2. /\ deferral' = "rejected" /\ state' = state /\ negotiate' = "done" /\ attempt' = attempt
        /\ init' = init /\ channel' = channel /\ timers' = timers /\ monitoring' = monitoring
    BY <1>4, <2>1 DEF NegotiateIncompatible, Reject, channelVars
  <2> QED  BY <2>1, <2>2
              DEF Control, StoppedInv, StartInv, TimersInv, Stopped, Requested, Completed,
                  Live, HubStep, Hub!HubNext, Hub!Refuse
<1> QED
  BY <1>1, <1>2, <1>3, <1>4

LEMMA InitializeControl ==
  ASSUME TypeOK, Control, NEW i \in 1 .. Len(Transports) + 1, NEW cleared, InitializeFrom(i, cleared),
         state = "connecting", deferral = "pending", ~Stopped, ~Requested, negotiate' # "open"
  PROVE  Control' /\ HubStep
<1>1. CASE Candidates(i) = {}
  BY <1>1, StopSteps DEF InitializeFrom, Reject, Stop
<1>2. CASE Candidates(i) # {}
  <2>1. attempt' # 0
    BY <1>2 DEF InitializeFrom, Candidates
  <2>2. timers' \subseteq {"connect"}
    BY <1>2 DEF InitializeFrom, Control, StartInv, TimersInv
  <2>3. /\ state' = state /\ deferral' = deferral /\ init' = init /\ monitoring' = monitoring
    BY <1>2 DEF InitializeFrom
  <2>4. monitoring = FALSE /\ ~Completed
    BY DEF Control, StartInv, TimersInv
  <2>5. timers' \subseteq OwnTimers'
    BY <2>2 DEF OwnTimers
  <2> QED  BY <2>1, <2>2, <2>3, <2>4, <2>5
              DEF Control, StoppedInv, StartInv, TimersInv, Stopped, Requested, Completed, Live, HubStep
<1> QED
  BY <1>1, <1>2

LEMMA TransportFailedControl ==
  ASSUME TypeOK, Control, TransportFailed, attempt # 0, ~Completed
  PROVE  Control' /\ HubStep
<1>1. state = "connecting" /\ deferral = "pending" /\ ~Stopped /\ negotiate # "open"
  BY DEF Control, StartInv
<1>2. CASE /\ ~init.startRequested
           /\ InitializeFrom(attempt + 1, TransportStop \cup ClearsConnect)
           /\ negotiate' = IF Candidates(attempt + 1) = {} THEN "none" ELSE negotiate
  <2>1. attempt + 1 \in 1 .. Len(Transports) + 1
    BY TransportsAssumption DEF TypeOK
  <2>2. negotiate' # "open" /\ ~Requested
    BY <1>1, <1>2, FlagsAreEqual
  <2> QED  BY <1>1, <1>2, <2>1, <2>2, InitializeControl
<1>3. CASE Reject /\ Stop
  BY <1>1, <1>3, StopSteps DEF Reject, Stop
<1> QED
  BY <1>2, <1>3 DEF TransportFailed

LEMMA StartingControl ==
  ASSUME TypeOK, Control,
         Negotiated \/ ConnectTimeout \/ ChannelFails \/ InitReceived \/ StartRequestFails \/ Started
  PROVE  Control' /\ HubStep
<1>1. CASE Negotiated
  <2>1. 1 \in 1 .. Len(Transports) + 1
    BY TransportsAssumption
  <2>2. state = "connecting" /\ deferral = "pending" /\ ~Stopped /\ ~Requested
    BY <1>1 DEF Negotiated, Control, StartInv
  <2>3. InitializeFrom(1, {}) /\ negotiate' # "open"
    BY <1>1 DEF Negotiated
  <2> QED  BY <2>1, <2>2, <2>3, InitializeControl
<1>2. CASE ConnectTimeout
  <2>1. CASE ~Completed /\ ~Stopped /\ TransportFailed
    <3>1. attempt # 0
      BY <1>2, <2>1 DEF ConnectTimeout, Control, TimersInv
    <3> QED  BY <2>1, <3>1, TransportFailedControl
  <2>2. CASE /\ Completed \/ Stopped
             /\ timers' = timers \ {"connect"}
             /\ UNCHANGED <<connVars, channel, silent, slept, handle, monitoring, messageVars, hubVars>>
    <3>1. state' = state /\ deferral' = deferral /\ negotiate' = negotiate /\ attempt' = attempt
          /\ init' = init /\ channel' = channel /\ slept' = slept /\ monitoring' = monitoring /\ wire' = wire
      BY <2>2 DEF connVars, hubVars
    <3>2. OwnTimers' = OwnTimers /\ transport' = transport
      BY <3>1 DEF OwnTimers, transport
    <3> QED  BY <2>2, <3>1, <3>2
                DEF Control, StoppedInv, StartInv, TimersInv, Stopped, Requested, Completed, Live, HubStep
  <2> QED  BY <1>2, <2>1, <2>2, FlagsAreEqual DEF ConnectTimeout
<1>3. CASE ChannelFails
  <2>1. attempt # 0 /\ ~Completed
    BY <1>3, FlagsAreEqual DEF ChannelFails, Control, StartInv
  <2> QED  BY <1>3, <2>1, TransportFailedControl DEF ChannelFails
<1>4. CASE InitReceived
  <2>1. attempt # 0 /\ ~Requested /\ ~Completed /\ ~Stopped
    BY <1>4, FlagsAreEqual DEF InitReceived, Control, StartInv
  <2>2. /\ Requested' /\ (Completed' <=> Completed) /\ (Stopped' <=> Stopped)
    BY <1>4 DEF InitReceived, TypeOK, Requested, Completed, Stopped
  <2>3. /\ state' = state /\ deferral' = deferral /\ negotiate' = negotiate /\ attempt' = attempt
        /\ monitoring' = monitoring /\ timers' \subseteq timers /\ slept' = slept /\ wire' = wire
    BY <1>4 DEF InitReceived, hubVars
  <2>4. transport' = transport /\ OwnTimers' = OwnTimers /\ "stop" \notin timers
    BY <2>1, <2>3 DEF transport, OwnTimers, Control, StartInv, TimersInv
  <2> QED  BY <2>1, <2>2, <2>3, <2>4 DEF Control, StoppedInv, StartInv, TimersInv, Live, HubStep
<1>5. ASSUME StartRequestOpen
      PROVE  Requested /\ ~Completed /\ attempt # 0 /\ state = "connecting" /\ deferral = "pending"
  BY <1>5, FlagsAreEqual DEF StartRequestOpen, Control, StartInv
<1>6. CASE StartRequestFails
  BY <1>5, <1>6, StopSteps DEF StartRequestFails, Reject, Stop
<1>7. CASE Started
  <2>1. Requested /\ ~Completed /\ attempt # 0 /\ state = "connecting" /\ deferral = "pending"
    BY <1>5, <1>7 DEF Started
  <2>2. /\ Completed' /\ (Requested' <=> Requested) /\ (Stopped' <=> Stopped)
    BY <1>7 DEF Started, TypeOK, Requested, Completed, Stopped
  <2>3. /\ state' = "connected" /\ deferral' = "resolved" /\ negotiate' = negotiate /\ attempt' = attempt
        /\ timers' = timers \cup {"beat"}
    BY <1>7, <2>1 DEF Started
  <2>4. transport' = transport /\ OwnTimers' = OwnTimers /\ "beat" \in OwnTimers
    BY <2>3 DEF transport, OwnTimers
  <2>5. monitoring' = TRUE => transport # "longPolling"
    BY <1>7 DEF Started
  <2> QED  BY <2>1, <2>2, <2>3, <2>4, <2>5
              DEF Control, StoppedInv, StartInv, TimersInv, Live, HubStep, Hub!HubNext, Hub!Connect
<1> QED
  BY <1>1, <1>2, <1>3, <1>4, <1>6, <1>7

(* A step of a started connection that keeps it connected or reconnecting,   *)
(* and sets and clears timers of its own transport only.                     *)
LEMMA LiveControl ==
  ASSUME TypeOK, Control, attempt # 0, Completed, attempt' = attempt, init' = init, deferral' = deferral,
         negotiate' = negotiate, monitoring' = monitoring,
         state' \in {"connected", "reconnecting"},
         state = "reconnecting" \/ state' = state \/ state' = "reconnecting",
         timers' \subseteq OwnTimers,
         "stop" \in timers' <=> state' = "reconnecting"
  PROVE  Control' /\ HubStep
<1>1. OwnTimers' = OwnTimers /\ transport' = transport
  BY DEF OwnTimers, transport
<1>2. deferral = "resolved" /\ Live
  BY DEF Control, StartInv
<1> QED
  BY <1>1, <1>2 DEF Control, StoppedInv, StartInv, TimersInv, Stopped, Requested, Completed, Live,
                    HubStep, Hub!HubNext, Hub!Move, Hub!Moves

(* A reconnect arms a timer of the transport of the moment.                  *)
LEMMA ReconnectTimersAreOwn ==
  ASSUME TypeOK, attempt # 0, transport # "longPolling"
  PROVE  ReconnectTimers \subseteq OwnTimers /\ "stop" \notin ReconnectTimers
BY TransportKind, FrameTimersAssumption DEF ReconnectTimers, OwnTimers, StopClears, Kinds, NamedTimers

LEMMA StopIsNotOwned ==
  ASSUME TypeOK, attempt # 0
  PROVE  "stop" \notin StopClears[transport] /\ "stop" \notin FrameTimers
BY TransportKind, FrameTimersAssumption DEF StopClears, Kinds, NamedTimers

LEMMA ReconnectingControl ==
  ASSUME TypeOK, Control,
         ChannelOpens \/ ChannelCloses \/ ReconnectTimeout \/ FrameTimeout \/ AttemptTimeout
  PROVE  Control' /\ HubStep
<1>0. attempt # 0 => timers \subseteq OwnTimers /\ transport \in Kinds
  BY TransportKind DEF Control, TimersInv
<1>a. "stop" \in timers <=> state = "reconnecting"
  BY DEF Control, TimersInv
<1>b. attempt # 0 /\ Completed => state \in {"connected", "reconnecting"}
  BY DEF Control, StartInv, Live
<1>1. CASE ChannelOpens
  <2>1. attempt # 0
    BY <1>1 DEF ChannelOpens, Control, StartInv
  <2>2. "stop" \notin StopClears[transport]
    BY <2>1, StopIsNotOwned
  <2>3. /\ state' = (IF state = "reconnecting" THEN "connected" ELSE state)
        /\ timers' = timers \ (StopClears[transport] \cup ClearsStop)
        /\ deferral' = deferral /\ negotiate' = negotiate /\ attempt' = attempt /\ init' = init
        /\ monitoring' = monitoring
    BY <1>1 DEF ChannelOpens
  <2>4. "stop" \notin timers'
    BY <1>a, <2>3 DEF ClearsStop
  <2>5. CASE Completed
    <3>1. state' = "connected"
      BY <1>b, <2>1, <2>3, <2>5
    <3>2. timers' \subseteq OwnTimers
      BY <1>0, <2>1, <2>3
    <3> QED  BY <2>1, <2>3, <2>4, <2>5, <3>1, <3>2, LiveControl
  <2>6. CASE ~Completed
    <3>1. state = "connecting" /\ timers' \subseteq {"connect"} /\ state' = state
      BY <2>1, <2>3, <2>6 DEF Control, StartInv, TimersInv
    <3>2. OwnTimers' = OwnTimers /\ transport' = transport
      BY <2>3 DEF OwnTimers, transport
    <3> QED  BY <1>0, <2>1, <2>3, <2>6, <3>1, <3>2
                DEF Control, StoppedInv, StartInv, TimersInv, Stopped, Requested, Completed, Live, HubStep
  <2> QED  BY <2>5, <2>6
<1>2. CASE ChannelCloses
  <2>1. attempt # 0 /\ Completed /\ transport # "longPolling"
    BY <1>2, FlagsAreEqual DEF ChannelCloses, Control, StartInv
  <2>2. CASE Stop /\ KeepDeferral
    BY <2>1, <2>2, StopSteps DEF Stop, KeepDeferral
  <2>3. CASE /\ \E t \in ReconnectTimers : timers' = timers \cup {t}
             /\ UNCHANGED connVars /\ monitoring' = monitoring
    <3>1. timers' \subseteq OwnTimers /\ ("stop" \in timers' <=> "stop" \in timers)
      BY <1>0, <2>1, <2>3, ReconnectTimersAreOwn
    <3>2. state' = state /\ deferral' = deferral /\ negotiate' = negotiate /\ attempt' = attempt /\ init' = init
      BY <2>3 DEF connVars
    <3> QED  BY <1>a, <1>b, <2>1, <2>3, <3>1, <3>2, LiveControl
  <2> QED  BY <1>2, <2>2, <2>3 DEF ChannelCloses
<1>3. CASE ReconnectTimeout
  <2>1. attempt # 0 /\ Completed /\ transport # "longPolling"
    BY <1>3, TimersOfTransport DEF ReconnectTimeout
  <2>2. CASE Stop /\ KeepDeferral
    BY <2>1, <2>2, StopSteps DEF Stop, KeepDeferral
  <2>3. CASE /\ timers' = (timers \ StopClears[transport]) \cup ArmsStop
                           \cup (IF transport = "serverSentEvents" THEN {"attempt"} ELSE {})
             /\ EnsureReconnectingState
             /\ UNCHANGED <<negotiate, attempt, init, monitoring>> /\ KeepDeferral
    <3>1. timers' \subseteq OwnTimers
      BY <1>0, <2>1, <2>3 DEF OwnTimers, StopClears, Kinds, ArmsStop
    <3>3. "stop" \in timers'
      BY <1>a, <1>b, <2>1, <2>3, StopIsNotOwned DEF ArmsStop
    <3>2. state' = "reconnecting"
      BY <2>3 DEF EnsureReconnectingState
    <3> QED  BY <1>b, <2>1, <2>3, <3>1, <3>2, <3>3, LiveControl DEF KeepDeferral
  <2> QED  BY <1>3, <2>2, <2>3 DEF ReconnectTimeout
<1>4. CASE AttemptTimeout
  <2>1. attempt # 0 /\ Completed /\ transport = "serverSentEvents"
    BY <1>4, TimersOfTransport DEF AttemptTimeout
  <2>2. CASE Stop /\ KeepDeferral
    BY <2>1, <2>2, StopSteps DEF Stop, KeepDeferral
  <2>3. CASE /\ timers' \in {(timers \ {"attempt"}) \cup {"reconnect"}, timers \ {"attempt"}}
             /\ UNCHANGED <<state, negotiate, attempt, init, monitoring>> /\ KeepDeferral
    <3>1. timers' \subseteq OwnTimers /\ ("stop" \in timers' <=> "stop" \in timers)
      BY <1>0, <2>1, <2>3 DEF OwnTimers, StopClears
    <3> QED  BY <1>a, <1>b, <2>1, <2>3, <3>1, LiveControl DEF KeepDeferral
  <2> QED  BY <1>4, <2>2, <2>3 DEF AttemptTimeout
<1>5. CASE FrameTimeout
  <2>1. PICK t \in FrameTimers \cap timers :
           \/ slept /\ StopLeaving({t}, {})
           \/ /\ ~slept /\ channel = "none"
              /\ timers' = timers \ {t}
              /\ UNCHANGED <<state, negotiate, unsupported, attempt, init, channel, silent, slept,
                             handle, monitoring, messageVars, hubVars>>
           \/ /\ ~slept /\ channel # "none"
              /\ timers' = (timers \ {t}) \cup ArmsStop
              /\ channel' = "opening"
              /\ silent' = FALSE
              /\ EnsureReconnectingState
              /\ UNCHANGED <<negotiate, unsupported, attempt, init, slept, handle, monitoring,
                             messageVars, answer, wire, posts>>
    BY <1>5 DEF FrameTimeout
  <2>2. deferral' = deferral
    BY <1>5 DEF FrameTimeout, KeepDeferral
  <2>3. t \notin {"connect", "beat", "stop"}
    BY FrameTimersAssumption DEF NamedTimers
  <2>4. CASE attempt # 0
    <3>1. Completed
      BY <2>1, <2>4, TimersOfTransport
    <3>2. CASE StopLeaving({t}, {})
      BY <2>2, <2>4, <3>1, <3>2, StopSteps
    <3>3. CASE timers' = timers \ {t} /\ UNCHANGED <<state, negotiate, attempt, init, monitoring>>
      <4>1. timers' \subseteq OwnTimers /\ ("stop" \in timers' <=> "stop" \in timers)
        BY <1>0, <2>3, <2>4, <3>3
      <4> QED  BY <1>a, <1>b, <2>2, <2>4, <3>1, <3>3, <4>1, LiveControl
    <3>4. CASE /\ timers' = (timers \ {t}) \cup ArmsStop
               /\ EnsureReconnectingState
               /\ UNCHANGED <<negotiate, attempt, init, monitoring>>
      <4>1. timers' \subseteq OwnTimers
        BY <1>0, <2>4, <3>4 DEF OwnTimers, ArmsStop
      <4>2. "stop" \in timers' /\ state' = "reconnecting"
        BY <1>a, <1>b, <2>3, <2>4, <3>1, <3>4 DEF ArmsStop, EnsureReconnectingState
      <4> QED  BY <1>b, <2>2, <2>4, <3>1, <3>4, <4>1, <4>2, LiveControl
    <3> QED  BY <2>1, <3>2, <3>3, <3>4
  <2>5. CASE attempt = 0
    <3>1. slept = FALSE /\ channel = "none" /\ Stopped
      <4>1. Stopped
        BY <2>1, <2>5 DEF Control, TimersInv
      <4> QED  BY <4>1 DEF Control, StoppedInv
    <3>2. /\ timers' = timers \ {t}
          /\ UNCHANGED <<state, negotiate, attempt, init, channel, slept, monitoring, wire>>
      BY <2>1, <3>1 DEF hubVars
    <3> QED  BY <2>2, <2>3, <2>5, <3>1, <3>2
                DEF Control, StoppedInv, StartInv, TimersInv, Stopped, Requested, Completed, Live, HubStep
  <2> QED  BY <2>4, <2>5
<1> QED
  BY <1>1, <1>2, <1>3, <1>4, <1>5

LEMMA PollingControl ==
  ASSUME TypeOK, Control, PollFails \/ PollTimeout \/ FireReconnected \/ PollReconnects
  PROVE  Control' /\ HubStep
<1> DEFINE Own == {"connect", "beat", "stop", "poll", "fire"}
<1>1. attempt # 0 /\ Completed /\ transport = "longPolling"
  BY FlagsAreEqual, TimersOfTransport
     DEF PollFails, PollTimeout, FireReconnected, PollReconnects, Control, StartInv
<1>2. timers \subseteq Own /\ Own = OwnTimers
  BY <1>1 DEF Control, TimersInv, OwnTimers, StopClears
<1>3. /\ "stop" \in timers <=> state = "reconnecting"
      /\ state \in {"connected", "reconnecting"}
  BY <1>1 DEF Control, StartInv, TimersInv, Live
<1>4. CASE PollFails
  <2>1. CASE Stop /\ KeepDeferral
    BY <1>1, <2>1, StopSteps DEF Stop, KeepDeferral
  <2>2. CASE /\ timers' = (timers \ {"fire"}) \cup {"poll"} \cup ArmsStop
             /\ EnsureReconnectingState
             /\ UNCHANGED <<negotiate, attempt, init, monitoring>> /\ KeepDeferral
    <3>1. timers' \subseteq Own /\ "stop" \in timers'
      BY <1>2, <1>3, <2>2 DEF ArmsStop
    <3> QED  BY <1>1, <1>2, <1>3, <2>2, <3>1, LiveControl DEF KeepDeferral, EnsureReconnectingState
  <2> QED  BY <1>4, <2>1, <2>2 DEF PollFails
<1>5. CASE PollTimeout
  <2>1. timers' \subseteq Own /\ ("stop" \in timers' <=> "stop" \in timers)
    BY <1>2, <1>5 DEF PollTimeout
  <2>2. state' = state /\ deferral' = deferral /\ negotiate' = negotiate /\ attempt' = attempt
        /\ init' = init /\ monitoring' = monitoring
    BY <1>5 DEF PollTimeout, connVars
  <2> QED  BY <1>1, <1>2, <1>3, <2>1, <2>2, LiveControl
<1>6. CASE FireReconnected
  <2>1. timers' \subseteq Own /\ "stop" \notin timers'
    BY <1>2, <1>3, <1>6 DEF FireReconnected, ClearsStop
  <2>2. state' = "connected" /\ deferral' = deferral /\ negotiate' = negotiate /\ attempt' = attempt
        /\ init' = init /\ monitoring' = monitoring
    BY <1>3, <1>6 DEF FireReconnected
  <2> QED  BY <1>1, <1>2, <1>3, <2>1, <2>2, LiveControl
<1>7. CASE PollReconnects
  <2>1. timers' \subseteq Own /\ "stop" \in timers' /\ state' = "reconnecting"
    BY <1>2, <1>3, <1>7 DEF PollReconnects, ArmsStop, EnsureReconnectingState
  <2>2. deferral' = deferral /\ negotiate' = negotiate /\ attempt' = attempt
        /\ init' = init /\ monitoring' = monitoring
    BY <1>7 DEF PollReconnects
  <2> QED  BY <1>1, <1>2, <1>3, <2>1, <2>2, LiveControl
<1> QED
  BY <1>4, <1>5, <1>6, <1>7

LEMMA EndingControl ==
  ASSUME TypeOK, Control, StopReconnecting \/ Unload \/ BeatWithoutKeepAlive \/ BeatAfterSleep
  PROVE  Control' /\ HubStep
<1>1. attempt # 0 /\ Completed
  <2>1. CASE StopReconnecting
    BY <2>1, TimersOfTransport DEF StopReconnecting
  <2>2. CASE Unload
    <3>1. Completed /\ state # "disconnected"
      BY <2>2, FlagsAreEqual DEF Unload
    <3> QED  BY <3>1 DEF Control, StoppedInv, StartInv
  <2>3. CASE BeatWithoutKeepAlive
    <3>1. Completed /\ state = "connected"
      BY <2>3 DEF BeatWithoutKeepAlive, Control, TimersInv
    <3> QED  BY <3>1 DEF Control, StartInv, Live
  <2>4. CASE BeatAfterSleep
    <3>1. Completed /\ slept = TRUE
      BY <2>4, FlagsAreEqual DEF BeatAfterSleep, Control, TimersInv
    <3> QED  BY <3>1 DEF Control, StoppedInv, StartInv
  <2> QED  BY <2>1, <2>2, <2>3, <2>4
<1>2. CASE Stop /\ KeepDeferral
  BY <1>1, <1>2, StopSteps DEF Stop, KeepDeferral
<1>3. CASE BeatWithoutKeepAlive
  <2>1. transport # "longPolling" /\ transport \in Kinds
    BY <1>1, <1>3, FlagsAreEqual, TransportKind DEF BeatWithoutKeepAlive, Control, TimersInv
  <2>2. CASE Reconnect({"beat"})
    <3>1. CASE StopLeaving({}, {"beat"}) /\ KeepDeferral
      BY <1>1, <3>1, StopSteps DEF KeepDeferral
    <3>2. CASE /\ timers' = timers \/ \E t \in ReconnectTimers : timers' = timers \cup {t}
               /\ UNCHANGED connVars /\ monitoring' = monitoring
      <4>1. timers' \subseteq OwnTimers /\ ("stop" \in timers' <=> "stop" \in timers)
        BY <1>1, <2>1, <3>2, ReconnectTimersAreOwn DEF Control, TimersInv
      <4>2. state' = state /\ deferral' = deferral /\ negotiate' = negotiate /\ attempt' = attempt /\ init' = init
        BY <3>2 DEF connVars
      <4>3. "stop" \in timers' <=> state' = "reconnecting"
        BY <4>1, <4>2 DEF Control, TimersInv
      <4>4. state \in {"connected", "reconnecting"}
        BY <1>1 DEF Control, StartInv, Live
      <4> QED  BY <1>1, <3>2, <4>1, <4>2, <4>3, <4>4, LiveControl
    <3> QED  BY <2>2, <3>1, <3>2 DEF Reconnect
  <2> QED  BY <1>2, <1>3, <2>2 DEF BeatWithoutKeepAlive
<1> QED
  BY <1>2, <1>3 DEF StopReconnecting, Unload, BeatAfterSleep

LEMMA OtherControl ==
  ASSUME TypeOK, Control, GoesSilent \/ Sleep \/ MessageArrives \/ Invoking \/ Answering \/ UNCHANGED vars
  PROVE  Control' /\ HubStep
<1>1. CASE GoesSilent
  BY <1>1, ControlStays DEF GoesSilent, connVars, hubVars
<1>2. CASE Sleep
  <2>1. ~Stopped
    BY <1>2 DEF Sleep, Control, StoppedInv
  <2>2. /\ state' = state /\ deferral' = deferral /\ negotiate' = negotiate /\ attempt' = attempt
        /\ init' = init /\ channel' = channel /\ timers' = timers /\ monitoring' = monitoring
    BY <1>2 DEF Sleep, connVars
  <2>3. transport' = transport /\ OwnTimers' = OwnTimers
    BY <2>2 DEF transport, OwnTimers
  <2> QED  BY <2>1, <2>2, <2>3
              DEF Control, StoppedInv, StartInv, TimersInv, Stopped, Requested, Completed, Live, HubStep
<1>3. CASE MessageArrives
  BY <1>3, ControlStays DEF MessageArrives, connVars, channelVars, hubVars
<1>4. ASSUME NEW i \in Invocations, Invoke(i) PROVE Control' /\ HubStep
  <2>1. /\ state' = state /\ deferral' = deferral /\ negotiate' = negotiate /\ attempt' = attempt
        /\ init' = init /\ channel' = channel /\ timers' = timers /\ monitoring' = monitoring /\ slept' = slept
    BY <1>4 DEF Invoke, connVars, channelVars
  <2>2. Stopped => wire' \subseteq wire
    BY <1>4 DEF Invoke, Control, StoppedInv
  <2>3. transport' = transport /\ OwnTimers' = OwnTimers
    BY <2>1 DEF transport, OwnTimers
  <2> QED  BY <2>1, <2>2, <2>3
              DEF Control, StoppedInv, StartInv, TimersInv, Stopped, Requested, Completed, Live, HubStep
<1>5. ASSUME NEW id, NEW i \in Invocations, SocketAnswers(id, i) \/ PostAnswered(id, i)
      PROVE  Control' /\ HubStep
  BY <1>5, ControlStays DEF SocketAnswers, PostAnswered, connVars, channelVars
<1>6. CASE UNCHANGED vars
  BY <1>6, ControlStays DEF vars, connVars, channelVars, hubVars
<1> QED
  BY <1>1, <1>2, <1>3, <1>4, <1>5, <1>6 DEF Invoking, Answering

LEMMA ControlNext ==
  ASSUME TypeOK, Control, [Next]_vars
  PROVE  Control' /\ HubStep
BY BeginningControl, StartingControl, ReconnectingControl, PollingControl, EndingControl, OtherControl
   DEF Next, User, NegotiateEnds, StartRequestEnds, ChannelChanges, TimerFires

LEMMA ControlInit ==
  ASSUME Init
  PROVE  ControlInv
<1>1. ~Stopped /\ ~Requested /\ ~Completed
  BY DEF Init, Stopped, Requested, Completed
<1> QED
  BY <1>1, TypeInit DEF Init, ControlInv, StoppedInv, StartInv, TimersInv, Live

THEOREM SignalRControl == Spec => []ControlInv
<1>1. Init => ControlInv
  BY ControlInit
<1>2. ControlInv /\ [Next]_vars => ControlInv'
  BY ControlNext, TypeNext DEF ControlInv, Control
<1> QED
  BY <1>1, <1>2, PTL DEF Spec

(* A connection that has been stopped stays stopped, whichever browser it    *)
(* runs in, whichever transport was in use and whatever was under way: the   *)
(* timers that stop() leaves set, those of foreverFrame among them, cannot   *)
(* take it back.                                                             *)
THEOREM StoppedConnectionIsQuietAlways == Spec => []StoppedConnectionIsQuiet
<1>1. ControlInv => StoppedConnectionIsQuiet
  BY FlagsAreEqual DEF ControlInv, StoppedInv, TimersInv, StoppedConnectionIsQuiet
<1> QED
  BY <1>1, SignalRControl, PTL

(* The disconnect timeout runs while the connection reconnects, and only then. *)
THEOREM DisconnectTimeoutRunsAlways == Spec => []DisconnectTimeoutRunsWhileReconnecting
<1>1. ControlInv => DisconnectTimeoutRunsWhileReconnecting
  BY DEF ControlInv, TimersInv, DisconnectTimeoutRunsWhileReconnecting
<1> QED
  BY <1>1, SignalRControl, PTL

(* The library implements HubConnection: every step is one of its steps, or  *)
(* changes neither the state nor the deferred object.                        *)
THEOREM SignalRImplementsHubConnection == Spec => ImplementsHubConnection
<1>1. Init => Hub!HubInit
  BY DEF Init, Hub!HubInit
<1>2. ControlInv /\ [Next]_vars => [Hub!HubNext]_<<state, deferral>>
  BY ControlNext DEF ControlInv, Control, HubStep
<1> QED
  BY <1>1, <1>2, SignalRControl, PTL DEF Spec, ImplementsHubConnection, Hub!HubSpec

-----------------------------------------------------------------------------
(* A timer of foreverFrame finds its connection started or stopped.          *)
LEMMA FrameTimerSet ==
  ASSUME TypeOK, Control, timers \cap FrameTimers # {}
  PROVE  /\ Completed
         /\ attempt # 0 => transport = "foreverFrame"
         /\ attempt = 0 => Stopped
<1>1. ~Completed => timers \subseteq {"connect"}
  BY DEF Control, TimersInv
<1>2. Completed
  BY <1>1, FrameTimersAssumption DEF NamedTimers
<1>3. attempt = 0 => Stopped
  BY DEF Control, TimersInv
<1> QED
  BY <1>2, <1>3, TimersOfTransport

(* Messages. A step drops the buffer, drains it, fills it, or leaves it and  *)
(* does not leave connecting.                                                *)
KeepsMessages ==
    /\ arrived' = arrived /\ delivered' = delivered /\ buffer' = buffer
    /\ state = "connecting" => state' = "connecting"

DropsBuffer == arrived' = arrived /\ delivered' = delivered /\ buffer' = <<>>

LEMMA CompletedIsNotConnecting ==
  ASSUME Control, Completed
  PROVE  state # "connecting"
BY DEF Control, StoppedInv, StartInv, Live

LEMMA StopDropsBuffer == \A fired, rearmed : StopLeaving(fired, rearmed) => DropsBuffer
BY DEF StopLeaving, DropsBuffer

LEMMA InitializeMessages ==
  ASSUME NEW i, NEW cleared, InitializeFrom(i, cleared)
  PROVE  KeepsMessages \/ DropsBuffer
BY StopDropsBuffer DEF InitializeFrom, Stop, KeepsMessages, messageVars

LEMMA TransportFailedMessages ==
  ASSUME TransportFailed
  PROVE  KeepsMessages \/ DropsBuffer
BY InitializeMessages, StopDropsBuffer DEF TransportFailed, Stop

LEMMA MessagesOfStep ==
  ASSUME TypeOK, Control, [Next]_vars
  PROVE  KeepsMessages \/ DropsBuffer \/ Started \/ MessageArrives
<1>0. Stop => DropsBuffer
  BY StopDropsBuffer DEF Stop
<1>1. ASSUME User PROVE KeepsMessages \/ DropsBuffer
  BY <1>0, <1>1 DEF User, StartWaitsForLoad, Start, Sleep, Unload, KeepsMessages, messageVars, connVars
<1>2. ASSUME NegotiateEnds PROVE KeepsMessages \/ DropsBuffer
  BY <1>0, <1>2, InitializeMessages
     DEF NegotiateEnds, NegotiateFails, NegotiateIncompatible, Negotiated, KeepsMessages, messageVars
<1>3. ASSUME StartRequestFails PROVE DropsBuffer
  BY <1>0, <1>3 DEF StartRequestFails
<1>4. ASSUME ChannelFails \/ ChannelOpens \/ InitReceived \/ GoesSilent PROVE KeepsMessages \/ DropsBuffer
  BY <1>4, TransportFailedMessages
     DEF ChannelFails, ChannelOpens, InitReceived, GoesSilent, KeepsMessages, messageVars, connVars
<1>5. ASSUME ChannelCloses PROVE KeepsMessages \/ DropsBuffer
  BY <1>0, <1>5 DEF ChannelCloses, KeepsMessages, messageVars, connVars
<1>6. ASSUME PollFails \/ PollReconnects PROVE KeepsMessages \/ DropsBuffer
  <2>1. state # "connecting"
    BY <1>6, FlagsAreEqual, CompletedIsNotConnecting DEF PollFails, PollReconnects
  <2> QED  BY <1>0, <1>6, <2>1 DEF PollFails, PollReconnects, KeepsMessages, messageVars
<1>7. ASSUME ConnectTimeout \/ StopReconnecting \/ BeatAfterSleep \/ PollTimeout \/ FireReconnected
      PROVE  KeepsMessages \/ DropsBuffer
  BY <1>0, <1>7, TransportFailedMessages
     DEF ConnectTimeout, StopReconnecting, BeatAfterSleep, PollTimeout, FireReconnected, KeepsMessages,
         messageVars, connVars
<1>8. ASSUME ReconnectTimeout PROVE KeepsMessages \/ DropsBuffer
  <2>1. state # "connecting"
    BY <1>8, TimersOfTransport, CompletedIsNotConnecting DEF ReconnectTimeout
  <2> QED  BY <1>0, <1>8, <2>1 DEF ReconnectTimeout, KeepsMessages, messageVars
<1>9. ASSUME AttemptTimeout PROVE KeepsMessages \/ DropsBuffer
  BY <1>0, <1>9 DEF AttemptTimeout, KeepsMessages, messageVars
<1>10. ASSUME BeatWithoutKeepAlive PROVE KeepsMessages \/ DropsBuffer
  BY <1>0, <1>10, StopDropsBuffer DEF BeatWithoutKeepAlive, Reconnect, KeepsMessages, messageVars, connVars
<1>11. ASSUME Invoking \/ Answering PROVE KeepsMessages
  BY <1>11 DEF Invoking, Invoke, Answering, SocketAnswers, PostAnswered, KeepsMessages, messageVars, connVars
<1>12. ASSUME UNCHANGED vars PROVE KeepsMessages
  BY <1>12 DEF vars, KeepsMessages, messageVars, connVars
<1>13. ASSUME FrameTimeout PROVE KeepsMessages \/ DropsBuffer
  <2>1. state # "connecting"
    BY <1>13, FrameTimerSet, CompletedIsNotConnecting DEF FrameTimeout, Control, StoppedInv
  <2> QED  BY <1>13, <2>1, StopDropsBuffer DEF FrameTimeout, KeepsMessages, messageVars
<1> QED
  BY <1>1, <1>2, <1>3, <1>4, <1>5, <1>6, <1>7, <1>8, <1>9, <1>10, <1>11, <1>12, <1>13
     DEF Next, StartRequestEnds, ChannelChanges, TimerFires

LEMMA OrderNext ==
  ASSUME TypeOK, Control, OrderInv, [Next]_vars
  PROVE  OrderInv'
<1> DEFINE S == Seq(1 .. MaxMessages)
<1>0. buffer \in S /\ delivered \in S /\ arrived \in Nat
  BY BoundsAssumption DEF TypeOK
<1>1. CASE KeepsMessages
  BY <1>1 DEF KeepsMessages, OrderInv, Increasing
<1>2. CASE DropsBuffer
  <2>1. DOMAIN buffer' = {}
    BY <1>2 DEF DropsBuffer
  <2> QED  BY <1>2, <2>1 DEF DropsBuffer, OrderInv, Increasing
<1>3. CASE Started
  <2>1. arrived' = arrived /\ delivered' = delivered \o buffer /\ buffer' = <<>>
    BY <1>3 DEF Started
  <2>2. DOMAIN buffer' = {} /\ DOMAIN delivered' = 1 .. Len(delivered) + Len(buffer)
    BY <1>0, <2>1
  <2>3. \A m \in DOMAIN delivered' :
           \/ m \in DOMAIN delivered /\ delivered'[m] = delivered[m]
           \/ m > Len(delivered) /\ m - Len(delivered) \in DOMAIN buffer /\ delivered'[m] = buffer[m - Len(delivered)]
    BY <1>0, <2>1, <2>2
  <2>4. DOMAIN delivered = 1 .. Len(delivered) /\ Len(delivered) \in Nat /\ DOMAIN delivered' \subseteq Nat
    BY <1>0, <2>2
  <2>5. \A m \in DOMAIN delivered' : delivered'[m] <= arrived'
    BY <2>1, <2>3 DEF OrderInv
  <2>6. ASSUME NEW m \in DOMAIN delivered', NEW n \in DOMAIN delivered', m < n
        PROVE  delivered'[m] < delivered'[n]
    <3>1. CASE n \in DOMAIN delivered /\ delivered'[n] = delivered[n]
      <4>1. m \in DOMAIN delivered /\ delivered'[m] = delivered[m]
        BY <2>3, <2>4, <2>6, <3>1
      <4> QED  BY <2>6, <3>1, <4>1 DEF OrderInv, Increasing
    <3>2. CASE n - Len(delivered) \in DOMAIN buffer /\ delivered'[n] = buffer[n - Len(delivered)]
      <4>1. CASE m \in DOMAIN delivered /\ delivered'[m] = delivered[m]
        BY <3>2, <4>1 DEF OrderInv
      <4>2. CASE m - Len(delivered) \in DOMAIN buffer /\ delivered'[m] = buffer[m - Len(delivered)]
        <5>1. m - Len(delivered) < n - Len(delivered)
          BY <2>4, <2>6
        <5> QED  BY <3>2, <4>2, <5>1 DEF OrderInv, Increasing
      <4> QED  BY <2>3, <4>1, <4>2
    <3> QED  BY <2>3, <3>1, <3>2
  <2> QED  BY <2>1, <2>2, <2>5, <2>6 DEF OrderInv, Increasing
<1>4. CASE MessageArrives
  <2>1. arrived' = arrived + 1 /\ state' = state
    BY <1>4 DEF MessageArrives, connVars
  <2>2. ASSUME NEW s \in S, Increasing(s), \A m \in DOMAIN s : s[m] <= arrived
        PROVE  /\ Increasing(Append(s, arrived')) /\ DOMAIN s \subseteq DOMAIN Append(s, arrived')
               /\ \A m \in DOMAIN Append(s, arrived') : Append(s, arrived')[m] <= arrived'
               /\ \A m \in DOMAIN Append(s, arrived') :
                      (m \in DOMAIN s /\ Append(s, arrived')[m] = s[m]) \/ Append(s, arrived')[m] = arrived'
    <3>1. DOMAIN Append(s, arrived') = 1 .. Len(s) + 1 /\ DOMAIN s = 1 .. Len(s) /\ Len(s) \in Nat
      OBVIOUS
    <3>2. /\ \A m \in 1 .. Len(s) : Append(s, arrived')[m] = s[m]
          /\ Append(s, arrived')[Len(s) + 1] = arrived'
      OBVIOUS
    <3>3. \A m \in 1 .. Len(s) : s[m] \in Nat
      BY BoundsAssumption
    <3>4. \A m \in 1 .. Len(s) : s[m] < arrived' /\ s[m] <= arrived'
      BY <1>0, <2>1, <2>2, <3>1, <3>3
    <3>5. \A m \in 1 .. Len(s) + 1 : m \in 1 .. Len(s) \/ m = Len(s) + 1
      BY <3>1
    <3>6. Increasing(Append(s, arrived'))
      <4>1. ASSUME NEW m \in DOMAIN Append(s, arrived'), NEW n \in DOMAIN Append(s, arrived'), m < n
            PROVE  Append(s, arrived')[m] < Append(s, arrived')[n]
        <5>1. m \in 1 .. Len(s) /\ Append(s, arrived')[m] = s[m]
          BY <3>1, <3>2, <4>1
        <5>2. CASE n \in 1 .. Len(s)
          BY <2>2, <3>1, <3>2, <4>1, <5>1, <5>2 DEF Increasing
        <5>3. CASE n = Len(s) + 1
          BY <3>2, <3>4, <5>1, <5>3
        <5> QED  BY <3>1, <3>5, <5>2, <5>3
      <4> QED  BY <4>1 DEF Increasing
    <3>7. \A m \in DOMAIN Append(s, arrived') : Append(s, arrived')[m] <= arrived'
      BY <1>0, <2>1, <3>1, <3>2, <3>4, <3>5
    <3>8. \A m \in DOMAIN Append(s, arrived') :
             (m \in DOMAIN s /\ Append(s, arrived')[m] = s[m]) \/ Append(s, arrived')[m] = arrived'
      BY <3>1, <3>2, <3>5
    <3> QED  BY <3>1, <3>6, <3>7, <3>8
  <2>3. CASE state = "connecting" /\ buffer' = Append(buffer, arrived') /\ delivered' = delivered
    <3>1. /\ Increasing(buffer') /\ \A m \in DOMAIN buffer' : buffer'[m] <= arrived'
          /\ \A m \in DOMAIN buffer' : (m \in DOMAIN buffer /\ buffer'[m] = buffer[m]) \/ buffer'[m] = arrived'
      BY <1>0, <2>2, <2>3 DEF OrderInv
    <3>2. \A m \in DOMAIN delivered : delivered[m] \in Nat
      BY <1>0, BoundsAssumption
    <3>3. \A m \in DOMAIN delivered : delivered[m] < arrived' /\ delivered[m] <= arrived'
      BY <1>0, <2>1, <3>2 DEF OrderInv
    <3>4. \A m \in DOMAIN delivered, n \in DOMAIN buffer' : delivered[m] < buffer'[n]
      BY <3>1, <3>3 DEF OrderInv
    <3> QED  BY <2>1, <2>3, <3>1, <3>3, <3>4 DEF OrderInv, Increasing
  <2>4. CASE state # "connecting" /\ delivered' = Append(delivered, arrived') /\ buffer' = buffer
    <3>1. buffer = <<>>
      BY <2>4 DEF OrderInv
    <3> QED  BY <1>0, <2>1, <2>2, <2>4, <3>1 DEF OrderInv
  <2> QED  BY <1>4, <2>3, <2>4 DEF MessageArrives
<1> QED
  BY <1>1, <1>2, <1>3, <1>4, MessagesOfStep

-----------------------------------------------------------------------------
(* Hub invocations. A step that is neither an invocation nor an answer stops *)
(* the connection, completes its start, gives up what is on a socket that is *)
(* replaced, or leaves callbacks alone.                                      *)
KeepsHub ==
    /\ callbacks' = callbacks /\ outcome' = outcome /\ answer' = answer /\ posts' = posts
    /\ wire' \subseteq wire
    /\ Stopped' <=> Stopped
    /\ Live' <=> Live
    /\ Live => attempt' = attempt

StopsHub ==
    /\ Stopped' /\ ~Live' /\ ClearInvocationCallbacks /\ wire' = {} /\ posts' = posts /\ answer' = answer

ClearsHub ==
    /\ Live /\ Live' /\ transport = "webSockets" /\ attempt' = attempt /\ (Stopped' <=> Stopped)
    /\ ClearInvocationCallbacks /\ wire' = {} /\ posts' = posts /\ answer' = answer

LEMMA StopStopsHub ==
  ASSUME TypeOK, NEW fired, NEW rearmed, StopLeaving(fired, rearmed)
  PROVE  StopsHub
<1>1. Stopped'
  BY DEF StopLeaving, TypeOK, Stopped
<1> QED
  BY <1>1 DEF StopLeaving, StopsHub, Live

LEMMA InitializeHub ==
  ASSUME TypeOK, NEW i, NEW cleared, InitializeFrom(i, cleared), ~Live
  PROVE  KeepsHub \/ StopsHub
BY StopStopsHub DEF InitializeFrom, Stop, KeepsHub, Live, Stopped, hubVars

LEMMA TransportFailedHub ==
  ASSUME TypeOK, TransportFailed, ~Live
  PROVE  KeepsHub \/ StopsHub
BY InitializeHub, StopStopsHub DEF TransportFailed, Stop

LEMMA CompletedIsLive ==
  ASSUME Control, attempt # 0, Completed
  PROVE  Live
BY DEF Control, StartInv

LEMMA NotCompletedIsNotLive ==
  ASSUME Control, ~Completed
  PROVE  ~Live
BY DEF Control, StartInv, Live

LEMMA HubOfStep ==
  ASSUME TypeOK, Control, [Next]_vars
  PROVE  KeepsHub \/ StopsHub \/ ClearsHub \/ Started \/ Invoking \/ Answering
<1>0. Stop => StopsHub
  BY StopStopsHub DEF Stop
<1>1. ASSUME User PROVE KeepsHub \/ StopsHub
  BY <1>0, <1>1
     DEF User, StartWaitsForLoad, Start, Sleep, Unload, KeepsHub, Live, Stopped, hubVars, connVars
<1>2. ASSUME NegotiateEnds PROVE KeepsHub \/ StopsHub
  <2>1. ~Live
    BY <1>2 DEF NegotiateEnds, NegotiateFails, NegotiateIncompatible, Negotiated, Control, StartInv, Live
  <2> QED  BY <1>0, <1>2, <2>1, InitializeHub
              DEF NegotiateEnds, NegotiateFails, NegotiateIncompatible, Negotiated, KeepsHub, Live, Stopped, hubVars
<1>3. ASSUME StartRequestFails PROVE StopsHub
  BY <1>0, <1>3 DEF StartRequestFails
<1>4. ASSUME ChannelFails PROVE KeepsHub \/ StopsHub
  BY <1>4, FlagsAreEqual, TransportFailedHub, NotCompletedIsNotLive DEF ChannelFails
<1>5. ASSUME ChannelOpens \/ GoesSilent \/ PollTimeout \/ FireReconnected PROVE KeepsHub
  BY <1>5 DEF ChannelOpens, GoesSilent, PollTimeout, FireReconnected, KeepsHub, Live, Stopped, hubVars, connVars
<1>6. ASSUME InitReceived PROVE KeepsHub
  <2>1. Stopped' <=> Stopped
    BY <1>6 DEF InitReceived, TypeOK, Stopped
  <2> QED  BY <1>6, <2>1 DEF InitReceived, KeepsHub, Live, hubVars
<1>7. ASSUME ChannelCloses PROVE KeepsHub \/ StopsHub
  BY <1>0, <1>7 DEF ChannelCloses, KeepsHub, Live, Stopped, connVars
<1>8. ASSUME PollFails \/ PollReconnects PROVE KeepsHub \/ StopsHub
  <2>1. Live /\ transport = "longPolling"
    <3>1. Completed /\ attempt # 0 /\ transport = "longPolling"
      BY <1>8, FlagsAreEqual DEF PollFails, PollReconnects, Control, StartInv
    <3> QED  BY <3>1, CompletedIsLive
  <2>2. CASE EnsureReconnectingState /\ UNCHANGED <<attempt, init, answer, wire, posts>>
    BY <2>1, <2>2 DEF EnsureReconnectingState, KeepsHub, Live, Stopped
  <2> QED  BY <1>0, <1>8, <2>2 DEF PollFails, PollReconnects
<1>9. ASSUME ReconnectTimeout PROVE KeepsHub \/ StopsHub \/ ClearsHub
  <2>1. Live
    BY <1>9, TimersOfTransport, CompletedIsLive DEF ReconnectTimeout
  <2>2. CASE EnsureReconnectingState /\ wire' = {} /\ UNCHANGED <<attempt, init, answer, posts>>
    BY <2>1, <2>2 DEF EnsureReconnectingState, KeepsHub, ClearsHub, Live, Stopped
  <2> QED  BY <1>0, <1>9, <2>2 DEF ReconnectTimeout
<1>10. ASSUME ConnectTimeout PROVE KeepsHub \/ StopsHub
  <2>1. CASE ~Completed /\ TransportFailed
    BY <2>1, TransportFailedHub, NotCompletedIsNotLive
  <2>2. CASE UNCHANGED <<connVars, hubVars>>
    BY <2>2 DEF KeepsHub, Live, Stopped, connVars, hubVars
  <2> QED  BY <1>10, <2>1, <2>2, FlagsAreEqual DEF ConnectTimeout
<1>11. ASSUME StopReconnecting \/ BeatAfterSleep PROVE StopsHub
  BY <1>0, <1>11 DEF StopReconnecting, BeatAfterSleep
<1>12. ASSUME AttemptTimeout PROVE KeepsHub \/ StopsHub
  BY <1>0, <1>12 DEF AttemptTimeout, KeepsHub, Live, Stopped, hubVars
<1>13. ASSUME BeatWithoutKeepAlive PROVE KeepsHub \/ StopsHub
  BY <1>0, <1>13, StopStopsHub DEF BeatWithoutKeepAlive, Reconnect, KeepsHub, Live, Stopped, hubVars, connVars
<1>14. ASSUME MessageArrives \/ UNCHANGED vars PROVE KeepsHub
  BY <1>14 DEF MessageArrives, vars, KeepsHub, Live, Stopped, hubVars, connVars
<1>15. ASSUME FrameTimeout PROVE KeepsHub \/ StopsHub
  <2>1. timers \cap FrameTimers # {}
    BY <1>15 DEF FrameTimeout
  <2>2. channel # "none" => Live /\ transport # "webSockets"
    BY <2>1, FrameTimerSet, CompletedIsLive DEF Control, StartInv
  <2>3. CASE channel # "none" /\ EnsureReconnectingState /\ UNCHANGED <<attempt, init, answer, wire, posts>>
    BY <2>2, <2>3 DEF EnsureReconnectingState, KeepsHub, Live, Stopped
  <2>4. CASE UNCHANGED <<state, attempt, init, hubVars>>
    BY <2>4 DEF KeepsHub, Live, Stopped, hubVars
  <2> QED  BY <1>15, <2>3, <2>4, StopStopsHub DEF FrameTimeout
<1> QED
  BY <1>1, <1>2, <1>3, <1>4, <1>5, <1>6, <1>7, <1>8, <1>9, <1>10, <1>11, <1>12, <1>13, <1>14, <1>15
     DEF Next, StartRequestEnds, ChannelChanges, TimerFires

(* The invocations that are given up were waiting for their own results.     *)
LEMMA ClearedAnswers ==
  ASSUME TypeOK, InvocationsInv, ClearInvocationCallbacks, answer' = answer
  PROVE  \A i \in Invocations : outcome'[i] # "threw" => answer'[i] \subseteq {i}
<1>1. \A i \in Invocations : outcome'[i] # "threw" => outcome[i] # "threw"
  BY DEF ClearInvocationCallbacks, TypeOK
<1> QED
  BY <1>1 DEF InvocationsInv

LEMMA InvokeKeeps ==
  ASSUME TypeOK, Control, InvocationsInv, NEW i \in Invocations, Invoke(i)
  PROVE  InvocationsInv'
<1>1. /\ Live' <=> Live
      /\ Stopped' <=> Stopped
      /\ transport' = transport /\ answer' = answer
  BY DEF Invoke, connVars, Live, Stopped, transport
<1>2. \A j \in Invocations : outcome'[j] # "threw" => outcome[j] # "threw"
  BY DEF Invoke, TypeOK
<1>3. callbacks \in Seq(Invocations \cup {Deleted}) /\ NextId = Len(callbacks) + 1 /\ Len(callbacks) \in Nat
  BY DEF TypeOK, NextId
<1>4. CASE ~Live
  <2>1. /\ outcome' = [outcome EXCEPT ![i] = "threw"] /\ callbacks' = Append(callbacks, i)
        /\ wire' = wire /\ posts' = posts
    BY <1>4 DEF Invoke, Live
  <2>2. \A id \in DOMAIN callbacks' : callbacks'[id] = i \/ (id \in DOMAIN callbacks /\ callbacks'[id] = callbacks[id])
    BY <1>3, <2>1
  <2>3. \A j \in Invocations : outcome[j] = "threw" \/ j = i => outcome'[j] = "threw"
    BY <2>1 DEF TypeOK
  <2>4. Stopped => \A id \in DOMAIN callbacks' : callbacks'[id] # Deleted => outcome'[callbacks'[id]] = "threw"
    BY <1>3, <2>2, <2>3 DEF InvocationsInv
  <2> QED  BY <1>1, <1>2, <1>4, <2>1, <2>4 DEF InvocationsInv
<1>5. CASE Live
  <2>1. ~Stopped
    BY <1>5 DEF Control, StoppedInv, Live
  <2>2. /\ wire' \cup posts' \subseteq wire \cup posts \cup {<<NextId, i>>}
        /\ transport = "webSockets" => posts' = posts
        /\ \/ callbacks' = Append(callbacks, i)
           \/ callbacks' = Append(callbacks, Deleted)
    BY <1>5 DEF Invoke, Live
  <2>3. \A id \in DOMAIN callbacks : id \in DOMAIN callbacks' /\ callbacks'[id] = callbacks[id]
    BY <1>3, <2>2
  <2>4. NextId \in DOMAIN callbacks' /\ callbacks'[NextId] \in {i, Deleted}
    BY <1>3, <2>2
  <2>5. \A id \in Nat, j \in Invocations : <<id, j>> \in wire' \cup posts' =>
            id \in DOMAIN callbacks' /\ callbacks'[id] \in {j, Deleted}
    BY <1>5, <2>2, <2>3, <2>4 DEF InvocationsInv
  <2> QED  BY <1>1, <1>2, <1>5, <2>1, <2>2, <2>5 DEF InvocationsInv
<1> QED
  BY <1>4, <1>5

LEMMA AnswerKeeps ==
  ASSUME TypeOK, Control, InvocationsInv, NEW id \in Nat, NEW i \in Invocations,
         SocketAnswers(id, i) \/ PostAnswered(id, i)
  PROVE  InvocationsInv'
<1>1. /\ Live' <=> Live
      /\ Stopped' <=> Stopped
      /\ transport' = transport
      /\ wire' \subseteq wire /\ posts' \subseteq posts
      /\ <<id, i>> \in wire \cup posts
  BY DEF SocketAnswers, PostAnswered, connVars, Live, Stopped, transport
<1>2. PICK how \in {"resolved", "rejected"} : ReceiveResult(id, i, how)
  BY DEF SocketAnswers, PostAnswered
<1>3. CASE ~HasCallback(id)
  BY <1>1, <1>2, <1>3 DEF ReceiveResult, InvocationsInv
<1>4. CASE HasCallback(id)
  <2>1. PICK j \in Invocations : j = callbacks[id] /\ id \in DOMAIN callbacks
    BY <1>4 DEF HasCallback, TypeOK
  <2>2. /\ callbacks' = [callbacks EXCEPT ![id] = Deleted]
        /\ answer' = [answer EXCEPT ![j] = @ \cup {i}]
        /\ outcome' = [outcome EXCEPT ![j] = IF @ = "pending" THEN how ELSE @]
    BY <1>2, <1>4, <2>1 DEF ReceiveResult
  <2>3. /\ DOMAIN callbacks' = DOMAIN callbacks /\ callbacks'[id] = Deleted
        /\ \A k \in DOMAIN callbacks : k # id => callbacks'[k] = callbacks[k]
    BY <2>1, <2>2 DEF TypeOK
  <2>4. \A k \in Invocations : outcome'[k] = "threw" <=> outcome[k] = "threw"
    BY <2>2 DEF TypeOK
  <2>5. Live \/ Stopped
    BY <1>1 DEF InvocationsInv
  <2>6. j = i \/ outcome[j] = "threw"
    <3>1. CASE Live
      BY <1>1, <1>4, <2>1, <3>1 DEF InvocationsInv, HasCallback
    <3>2. CASE Stopped
      BY <1>4, <2>1, <3>2 DEF InvocationsInv, HasCallback
    <3> QED  BY <2>5, <3>1, <3>2
  <2>7. \A k \in Invocations : outcome'[k] # "threw" => answer'[k] \subseteq {k}
    <3>1. /\ answer'[j] = answer[j] \cup {i}
          /\ \A k \in Invocations : k # j => answer'[k] = answer[k]
      BY <2>2 DEF TypeOK
    <3> QED  BY <2>4, <2>6, <3>1 DEF InvocationsInv
  <2>8. Live => \A k \in Nat, l \in Invocations : <<k, l>> \in wire' \cup posts' =>
            k \in DOMAIN callbacks' /\ callbacks'[k] \in {l, Deleted}
    BY <1>1, <2>3 DEF InvocationsInv
  <2>9. Stopped => \A k \in DOMAIN callbacks' : callbacks'[k] # Deleted => outcome'[callbacks'[k]] = "threw"
    <3>1. \A k \in DOMAIN callbacks : callbacks[k] # Deleted => callbacks[k] \in Invocations
      BY DEF TypeOK
    <3> QED  BY <2>3, <2>4, <3>1 DEF InvocationsInv
  <2> QED  BY <1>1, <2>7, <2>8, <2>9 DEF InvocationsInv
<1> QED
  BY <1>3, <1>4

LEMMA InvocationsNext ==
  ASSUME TypeOK, Control, InvocationsInv, [Next]_vars
  PROVE  InvocationsInv'
<1>1. CASE KeepsHub
  <2>1. Live => transport' = transport
    BY <1>1 DEF KeepsHub, transport
  <2> QED  BY <1>1, <2>1 DEF KeepsHub, InvocationsInv
<1>2. CASE StopsHub
  <2>1. DOMAIN callbacks' = {}
    BY <1>2 DEF StopsHub, ClearInvocationCallbacks, NoCallbacks
  <2>2. \A i \in Invocations : outcome'[i] # "threw" => answer'[i] \subseteq {i}
    BY <1>2, ClearedAnswers DEF StopsHub
  <2> QED  BY <1>2, <2>1, <2>2 DEF StopsHub, InvocationsInv
<1>3. CASE ClearsHub
  <2>1. ~Stopped /\ wire' = {} /\ posts' = {}
    BY <1>3 DEF ClearsHub, Control, StoppedInv, InvocationsInv, Live
  <2>2. \A i \in Invocations : outcome'[i] # "threw" => answer'[i] \subseteq {i}
    BY <1>3, ClearedAnswers DEF ClearsHub
  <2> QED  BY <1>3, <2>1, <2>2 DEF ClearsHub, InvocationsInv
<1>4. CASE Started
  <2>1. ~Live /\ ~Stopped
    BY <1>4, FlagsAreEqual DEF Started, StartRequestOpen, Control, StartInv, Live
  <2>2. Live' /\ ~Stopped' /\ UNCHANGED hubVars
    BY <1>4, <2>1 DEF Started, TypeOK, Live, Stopped
  <2> QED  BY <2>1, <2>2 DEF InvocationsInv, hubVars
<1>5. CASE Invoking
  BY <1>5, InvokeKeeps DEF Invoking
<1>6. CASE Answering
  <2>1. PICK i \in Invocations, id \in Nat : SocketAnswers(id, i) \/ PostAnswered(id, i)
    BY <1>6 DEF Answering, SocketAnswers, PostAnswered, TypeOK
  <2> QED  BY <2>1, AnswerKeeps
<1> QED
  BY <1>1, <1>2, <1>3, <1>4, <1>5, <1>6, HubOfStep

LEMMA OrderAndInvocationsInit ==
  ASSUME Init
  PROVE  OrderInv /\ InvocationsInv
<1>1. DOMAIN buffer = {} /\ DOMAIN delivered = {} /\ DOMAIN callbacks = {}
  BY DEF Init, NoCallbacks
<1>2. ~Live
  BY DEF Init, Live
<1>3. OrderInv
  BY <1>1 DEF Init, OrderInv, Increasing
<1>4. InvocationsInv
  BY <1>1, <1>2 DEF Init, InvocationsInv
<1> QED
  BY <1>3, <1>4

THEOREM SignalRInvariant == Spec => []SignalRInv
<1>1. Init => SignalRInv
  BY ControlInit, OrderAndInvocationsInit DEF SignalRInv
<1>2. SignalRInv /\ [Next]_vars => SignalRInv'
  BY TypeNext, ControlNext, OrderNext, InvocationsNext DEF SignalRInv, ControlInv, Control
<1> QED
  BY <1>1, <1>2, PTL DEF Spec

(* Messages are given to the page in the order they came, through the buffer *)
(* of those that come before the start is complete.                          *)
THEOREM MessagesAreNotOvertakenAlways == Spec => []MessagesAreNotOvertaken
<1>1. SignalRInv => MessagesAreNotOvertaken
  <2> SUFFICES ASSUME SignalRInv PROVE MessagesAreNotOvertaken
    OBVIOUS
  <2>1. /\ DOMAIN delivered = 1 .. Len(delivered) /\ Len(delivered) \in Nat
        /\ DOMAIN buffer = 1 .. Len(buffer)
    BY DEF SignalRInv, ControlInv, TypeOK
  <2>2. ASSUME NEW m \in 1 .. Len(delivered), NEW n \in 1 .. m - 1 PROVE delivered[n] < delivered[m]
    BY <2>1, <2>2 DEF SignalRInv, OrderInv, Increasing
  <2>3. ASSUME NEW m \in 1 .. Len(delivered), NEW n \in 1 .. Len(buffer) PROVE delivered[m] < buffer[n]
    BY <2>1, <2>3 DEF SignalRInv, OrderInv
  <2> QED  BY <2>2, <2>3 DEF MessagesAreNotOvertaken
<1> QED
  BY <1>1, SignalRInvariant, PTL

(* A promise that somebody waits for, or has been kept, was given the result *)
(* of its own invocation only, although ids are used again.                  *)
THEOREM ResultsReachTheirInvocationAlways == Spec => []ResultsReachTheirInvocation
<1>1. SignalRInv => ResultsReachTheirInvocation
  BY DEF SignalRInv, InvocationsInv, ResultsReachTheirInvocation
<1> QED
  BY <1>1, SignalRInvariant, PTL
=============================================================================
