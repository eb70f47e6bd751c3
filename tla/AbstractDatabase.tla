-------------------------- MODULE AbstractDatabase --------------------------
(***************************************************************************)
(* The database base class every service inherits                          *)
(* (Messages/Database/AbstractDatabase.cs): one MySqlConnection object and *)
(* one .NET Mutex, shared by all the threads that run the service's        *)
(* handlers.  The Mutex belongs to the thread that waited for it, may be   *)
(* entered again by that thread, and is abandoned when that thread ends    *)
(* without releasing it.                                                   *)
(*                                                                         *)
(* The operators below are the steps openConnection and closeConnection    *)
(* are made of.  A service module conjoins them with the move of its own   *)
(* thread.  A step returns control to the caller in exactly one of the     *)
(* ways its name says.                                                     *)
(***************************************************************************)
EXTENDS Naturals

CONSTANTS
  Threads,      \* the threads that call into the database object
  NoThread      \* owner of a free mutex

ASSUME NoThreadAssumption == NoThread \notin Threads

VARIABLES
  mutex,        \* the .NET Mutex: its owner, how often it was entered, whether abandoned
  connection    \* State of the MySqlConnection: "Closed" or "Open"

dbVars == <<mutex, connection>>

FreeMutex == [owner |-> NoThread, depth |-> 0, abandoned |-> FALSE]

DbTypeOK ==
  /\ mutex \in [owner : Threads \cup {NoThread}, depth : Nat, abandoned : BOOLEAN]
  /\ mutex.owner = NoThread <=> mutex.depth = 0
  /\ mutex.abandoned => mutex.owner = NoThread
  /\ connection \in {"Closed", "Open"}

DbInit ==
  /\ mutex = FreeMutex
  /\ connection = "Closed"

Holds(t) == mutex.owner = t

-----------------------------------------------------------------------------
(* Mutants *)

WaitOneUnguarded(t) ==
  /\ ~ mutex.abandoned
  /\ mutex' = [owner |-> t, depth |-> mutex.depth + 1, abandoned |-> FALSE]
  /\ UNCHANGED connection

ReleaseKeepsOwner(t) ==
  /\ Holds(t)
  /\ mutex' = [mutex EXCEPT !.depth = @ - 1]
  /\ UNCHANGED connection

OpenSwallowsError(t) ==
  /\ Holds(t)
  /\ connection' \in {"Open", connection}
  /\ UNCHANGED mutex

OpenFailsKeepsMutex(t) ==
  /\ connection = "Closed"
  /\ Holds(t)
  /\ UNCHANGED dbVars

CloseNothing == UNCHANGED dbVars

-----------------------------------------------------------------------------
(* mutex.WaitOne() blocks until the mutex is free or already this thread's. *)
WaitOne(t) ==
  /\ ~ mutex.abandoned
  /\ mutex.owner \in {NoThread, t}
  /\ mutex' = [owner |-> t, depth |-> mutex.depth + 1, abandoned |-> FALSE]
  /\ UNCHANGED connection

(* An abandoned mutex is granted, but WaitOne throws: the last catch block  *)
(* releases it again and openConnection returns false.                      *)
WaitOneAbandoned(t) ==
  /\ mutex.abandoned
  /\ mutex' = FreeMutex
  /\ UNCHANGED connection

(* One ReleaseMutex of the owner; the mutex is free after the outermost one. *)
ReleaseMutex(t) ==
  /\ Holds(t)
  /\ mutex' = IF mutex.depth = 1 THEN FreeMutex ELSE [mutex EXCEPT !.depth = @ - 1]
  /\ UNCHANGED connection

(* connection.Open() succeeds, or finds the connection open already and the *)
(* InvalidOperationException is turned into true.                           *)
Open(t) ==
  /\ Holds(t)
  /\ connection' = "Open"
  /\ UNCHANGED mutex

(* The server cannot be reached: the mutex is released, openConnection      *)
(* returns false.  A connection that is open is not opened again.           *)
OpenFails(t) ==
  /\ connection = "Closed"
  /\ ReleaseMutex(t)

(* connection.Close(), whoever calls it: it does nothing on a closed one.   *)
Close ==
  /\ connection' = "Closed"
  /\ UNCHANGED mutex

(* A query that meets a lost server may or may not leave the connection open. *)
QueryBreaks ==
  /\ connection' \in {"Closed", connection}
  /\ UNCHANGED mutex

(* A thread ends while it owns the mutex. *)
Abandon(t) ==
  /\ Holds(t)
  /\ mutex' = [FreeMutex EXCEPT !.abandoned = TRUE]
  /\ UNCHANGED connection
=============================================================================
