--------------------------- MODULE HubConnection ---------------------------
(***************************************************************************)
(* What the client library of SignalR promises a page of its connection:   *)
(* which states follow one another, and when the deferred object that      *)
(* start() returned is settled. SignalRConnection implements it; LiveChat  *)
(* moves the connections of its pages by the same Moves.                   *)
(***************************************************************************)

VARIABLES state, deferral

\* The changes of connection.state once start() has begun to connect.
Moves == {<<"connecting", "connected">>, <<"connecting", "disconnected">>,
          <<"connected", "reconnecting">>, <<"reconnecting", "connected">>,
          <<"connected", "disconnected">>, <<"reconnecting", "disconnected">>}

HubInit == state = "disconnected" /\ deferral = "none"

Wait ==
    /\ deferral = "none"
    /\ deferral' = "pending"
    /\ UNCHANGED state

Begin ==
    /\ state = "disconnected" /\ deferral \in {"none", "pending"}
    /\ state' = "connecting"
    /\ deferral' = "pending"

\* done() is called when, and only when, the connection is there.
Connect ==
    /\ state = "connecting" /\ deferral = "pending"
    /\ state' = "connected"
    /\ deferral' = "resolved"

\* fail() is called, and nothing comes after it.
Refuse ==
    /\ state = "connecting" /\ deferral = "pending"
    /\ state' \in {"connecting", "disconnected"}
    /\ deferral' = "rejected"

Move ==
    /\ state \in {"connected", "reconnecting"}
    /\ <<state, state'>> \in Moves
    /\ UNCHANGED deferral

HubNext == Wait \/ Begin \/ Connect \/ Refuse \/ Move

HubSpec == HubInit /\ [][HubNext]_<<state, deferral>>
=============================================================================
