------------------------------ MODULE Endpoint ------------------------------
(***************************************************************************)
(* An NServiceBus endpoint as the services configure it (MSMQ transport,   *)
(* failed messages to the queue "error") and the database object its       *)
(* handlers share.  A thread of the pool takes a message, runs its handler *)
(* to the end and, when the handler returns, commits the receive together  *)
(* with the replies; a handler that throws rolls the receive back.         *)
(*                                                                         *)
(* pc says where in its handler a thread is.  The places all handlers have *)
(* in common are those of openConnection ("waitOne", then "open" before    *)
(* connection.Open()), of closeConnection ("close", then "release" before  *)
(* ReleaseMutex()) and the return ("commit").                              *)
(***************************************************************************)
EXTENDS AbstractDatabase

CONSTANTS
  NoJob,             \* what an idle thread works on
  MaxAttempts,       \* deliveries of a message before it goes to the error queue
  MaxCrashes,        \* bound: crashes of the service
  MaxOutages,        \* bound: openConnection calls that do not reach MySQL
  MaxBrokenQueries   \* bound: queries during which MySQL is lost

ASSUME EndpointAssumption ==
  /\ MaxAttempts \in Nat \ {0}
  /\ MaxCrashes \in Nat
  /\ MaxOutages \in Nat
  /\ MaxBrokenQueries \in Nat

VARIABLES
  status,       \* where each message is
  attempts,     \* failed deliveries of each message so far
  pc,           \* per thread: where it is
  job,          \* per thread: the message it handles
  faults        \* how often each kind of fault has happened

endpointVars == <<status, attempts, pc, job, faults>>

(* The handler owns the mutex at the places in between. *)
Locked(queries) == queries \cup {"open", "close", "release"}

EndpointTypeOK(jobs, places) ==
  /\ DbTypeOK
  /\ status \in [jobs -> {"unsent", "queued", "taken", "done", "error"}]
  /\ attempts \in [jobs -> 0 .. MaxAttempts]
  /\ pc \in [Threads -> places \cup {"idle", "waitOne", "open", "close", "release", "commit"}]
  /\ job \in [Threads -> jobs \cup {NoJob}]
  /\ \A t \in Threads : pc[t] = "idle" <=> job[t] = NoJob
  /\ faults \in [crashes : 0 .. MaxCrashes, outages : 0 .. MaxOutages,
                 broken : 0 .. MaxBrokenQueries]

EndpointInit(jobs) ==
  /\ DbInit
  /\ status = [j \in jobs |-> "unsent"]
  /\ attempts = [j \in jobs |-> 0]
  /\ pc = [t \in Threads |-> "idle"]
  /\ job = [t \in Threads |-> NoJob]
  /\ faults = [crashes |-> 0, outages |-> 0, broken |-> 0]

(* A message being handled is "taken", by one thread only, and a message     *)
(* that can still be delivered has not used up its attempts.                 *)
DeliveriesOK(jobs) ==
  /\ \A t \in Threads : job[t] # NoJob => status[job[t]] = "taken"
  /\ \A t, u \in Threads : job[t] = job[u] /\ job[t] # NoJob => t = u
  /\ \A j \in jobs : status[j] \in {"unsent", "queued", "taken"} => attempts[j] < MaxAttempts

Owned(queries) == \A t \in Threads : pc[t] \in Locked(queries) => Holds(t)

At(t, place)   == pc[t] = place
GoTo(t, place) == pc' = [pc EXCEPT ![t] = place]

-----------------------------------------------------------------------------
(* Mutants *)

ThrowForgets(t) ==
  /\ attempts' = [attempts EXCEPT ![job[t]] = @ + 1]
  /\ status' = [status EXCEPT ![job[t]] = "done"]
  /\ pc' = [pc EXCEPT ![t] = "idle"]
  /\ job' = [job EXCEPT ![t] = NoJob]

ThrowAlwaysRetries(t) ==
  /\ status' = [status EXCEPT ![job[t]] = "queued"]
  /\ pc' = [pc EXCEPT ![t] = "idle"]
  /\ job' = [job EXCEPT ![t] = NoJob]
  /\ UNCHANGED attempts

-----------------------------------------------------------------------------
(* Another endpoint publishes an event or sends a request. *)
Send(j) ==
  /\ status[j] = "unsent"
  /\ status' = [status EXCEPT ![j] = "queued"]
  /\ UNCHANGED <<dbVars, attempts, pc, job, faults>>

(* An idle thread takes a message; the queue promises no order. *)
Receive(t, j) ==
  /\ At(t, "idle")
  /\ status[j] = "queued"
  /\ status' = [status EXCEPT ![j] = "taken"]
  /\ job' = [job EXCEPT ![t] = j]
  /\ UNCHANGED <<dbVars, attempts, faults>>

(* The handler throws: its message is delivered again or, at the last        *)
(* attempt, moved to the error queue.  Nothing the handler did to the        *)
(* database object or to MySQL is undone.                                    *)
Throw(t) ==
  /\ attempts' = [attempts EXCEPT ![job[t]] = @ + 1]
  /\ status' = [status EXCEPT ![job[t]] =
                  IF attempts[job[t]] + 1 = MaxAttempts THEN "error" ELSE "queued"]
  /\ pc' = [pc EXCEPT ![t] = "idle"]
  /\ job' = [job EXCEPT ![t] = NoJob]

(* The handler returns. *)
Return(t) ==
  /\ At(t, "commit")
  /\ status' = [status EXCEPT ![job[t]] = "done"]
  /\ pc' = [pc EXCEPT ![t] = "idle"]
  /\ job' = [job EXCEPT ![t] = NoJob]
  /\ UNCHANGED <<dbVars, attempts, faults>>

(* The steps of openConnection and closeConnection as moves of a thread.     *)
(* Where openConnection returns false the service's module says what its     *)
(* handler does.                                                             *)
EnterMutex(t) ==
  /\ At(t, "waitOne")
  /\ WaitOne(t)
  /\ GoTo(t, "open")
  /\ UNCHANGED <<status, attempts, job, faults>>

EnterAbandonedMutex(t) ==
  /\ At(t, "waitOne")
  /\ WaitOneAbandoned(t)
  /\ UNCHANGED faults

OpenConnection(t, next) ==
  /\ At(t, "open")
  /\ Open(t)
  /\ GoTo(t, next)
  /\ UNCHANGED <<status, attempts, job, faults>>

OpenConnectionFails(t) ==
  /\ At(t, "open")
  /\ faults.outages < MaxOutages
  /\ faults' = [faults EXCEPT !.outages = @ + 1]
  /\ OpenFails(t)

CloseConnection(t) ==
  /\ At(t, "close")
  /\ Close
  /\ GoTo(t, "release")
  /\ UNCHANGED <<status, attempts, job, faults>>

LeaveMutex(t, next) ==
  /\ At(t, "release")
  /\ ReleaseMutex(t)
  /\ GoTo(t, next)
  /\ UNCHANGED <<status, attempts, job, faults>>

(* MySQL is lost during a query. *)
QueryFails(t, queries) ==
  /\ pc[t] \in queries
  /\ faults.broken < MaxBrokenQueries
  /\ faults' = [faults EXCEPT !.broken = @ + 1]
  /\ QueryBreaks

(* The thread pool ends an idle thread (and later starts a fresh one); only  *)
(* a thread that still owns the mutex is missed.                             *)
Retire(t) ==
  /\ At(t, "idle")
  /\ Abandon(t)
  /\ UNCHANGED endpointVars

(* The service dies and is started again: open receives roll back, the       *)
(* in-memory counts of failed deliveries are gone, MySQL keeps every         *)
(* statement that was executed (each commits by itself).                     *)
Restart ==
  /\ faults.crashes < MaxCrashes
  /\ faults' = [faults EXCEPT !.crashes = @ + 1]
  /\ mutex' = FreeMutex
  /\ connection' = "Closed"
  /\ status' = [j \in DOMAIN status |-> IF status[j] = "taken" THEN "queued" ELSE status[j]]
  /\ attempts' = [j \in DOMAIN attempts |-> 0]
  /\ pc' = [t \in Threads |-> "idle"]
  /\ job' = [t \in Threads |-> NoJob]

(* Every message has been handled for good. *)
Finished == \A j \in DOMAIN status : status[j] \in {"done", "error"}
=============================================================================
