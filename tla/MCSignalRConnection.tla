------------------------ MODULE MCSignalRConnection ------------------------
(* Instances of SignalRConnection for TLC.                                 *)
EXTENDS SignalRConnection

\* The order in which the library tries what "auto" leaves.
MCTransports == <<"webSockets", "serverSentEvents", "foreverFrame", "longPolling">>

\* A browser of today, one without event sources, and an old one without
\* sockets either.
MCBrowsers == {{"foreverFrame"}, {"serverSentEvents"}, {"webSockets", "serverSentEvents"}}
=============================================================================
