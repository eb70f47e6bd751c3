-------------------------- MODULE MCBusConnection --------------------------
(* Small instances of BusConnection. *)
EXTENDS BusConnection

CONSTANTS alice, bob, logIn, logInAgain, bobsLogIn, page, page2, hub, bobsPage

MCUsers == {alice, bob}

(* alice's two pages belong to the session of her first log in; her second   *)
(* is of another session, and may come at any moment.                        *)
SessionsLogIns   == {logIn, logInAgain}
SessionsRequests == {page, page2}
SessionsUsers    == [c \in SessionsLogIns \cup SessionsRequests |-> alice]
SessionsLanes    == [c \in SessionsLogIns \cup SessionsRequests |->
                       IF c = logInAgain THEN "tablet" ELSE "desk"]

(* alice's pages and her chat hub share a connection; bob has his own. *)
SharedLogIns   == {logIn, bobsLogIn}
SharedRequests == {page, hub, bobsPage}
SharedUsers    == [c \in SharedLogIns \cup SharedRequests |->
                     IF c \in {bobsLogIn, bobsPage} THEN bob ELSE alice]
SharedLanes    == [c \in SharedLogIns \cup SharedRequests |->
                     IF c = hub THEN "hub" ELSE IF SharedUsers[c] = bob THEN "bob" ELSE "alice"]

(* The same without bob. *)
HubLogIns   == {logIn}
HubRequests == {page, hub}
HubUsers    == [c \in HubLogIns \cup HubRequests |-> alice]
HubLanes    == [c \in HubLogIns \cup HubRequests |-> IF c = hub THEN "hub" ELSE "alice"]
=============================================================================
