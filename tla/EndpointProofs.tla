--------------------------- MODULE EndpointProofs ---------------------------
(***************************************************************************)
(* What every endpoint's steps preserve, whichever handlers it runs: the   *)
(* types, the bookkeeping of deliveries, and that a handler between        *)
(* WaitOne and ReleaseMutex owns the mutex.  The services' proofs cite     *)
(* these lemmas, one for each kind of step.                                *)
(***************************************************************************)
EXTENDS Endpoint, TLAPS

(* Places of a handler: queries are those at which it owns the mutex. *)
PlacesOK(places, queries) ==
  /\ queries \subseteq places
  /\ queries \cap {"idle", "waitOne", "commit"} = {}
  /\ places \cap {"idle", "waitOne", "open", "close", "release", "commit"} = {}

EndpointInv(jobs, places, queries) ==
  /\ EndpointTypeOK(jobs, places)
  /\ DeliveriesOK(jobs)
  /\ Owned(queries)

Faults == [crashes : 0 .. MaxCrashes, outages : 0 .. MaxOutages, broken : 0 .. MaxBrokenQueries]

(* No thread but t can lose the mutex. *)
OthersKeep(t) == \A u \in Threads : u # t /\ mutex.owner = u => mutex'.owner = u

-----------------------------------------------------------------------------
(* The steps of openConnection and closeConnection keep the mutex and the    *)
(* connection well formed, and take the mutex from no other thread.          *)
LEMMA DbSteps ==
  ASSUME DbTypeOK, NEW t \in Threads
  PROVE  /\ WaitOne(t) => DbTypeOK' /\ OthersKeep(t) /\ mutex'.owner = t
         /\ WaitOneAbandoned(t) => DbTypeOK' /\ OthersKeep(t)
         /\ ReleaseMutex(t) => DbTypeOK' /\ OthersKeep(t)
         /\ Open(t) => DbTypeOK' /\ OthersKeep(t) /\ mutex'.owner = t
         /\ OpenFails(t) => DbTypeOK' /\ OthersKeep(t)
         /\ Close => DbTypeOK' /\ mutex' = mutex
         /\ QueryBreaks => DbTypeOK' /\ mutex' = mutex
         /\ Abandon(t) => DbTypeOK' /\ OthersKeep(t)
<1> USE NoThreadAssumption DEF DbTypeOK, OthersKeep
<1>1. WaitOne(t) => DbTypeOK' /\ OthersKeep(t) /\ mutex'.owner = t
  BY DEF WaitOne
<1>2. WaitOneAbandoned(t) => DbTypeOK' /\ OthersKeep(t)
  BY DEF WaitOneAbandoned, FreeMutex
<1>3. ReleaseMutex(t) => DbTypeOK' /\ OthersKeep(t)
  <2> SUFFICES ASSUME ReleaseMutex(t) PROVE DbTypeOK' /\ OthersKeep(t)
    OBVIOUS
  <2>1. CASE mutex.depth = 1
    BY <2>1 DEF ReleaseMutex, FreeMutex, Holds
  <2>2. CASE mutex.depth # 1
    <3>1. mutex' = [mutex EXCEPT !.depth = mutex.depth - 1] /\ connection' = connection
      BY <2>2 DEF ReleaseMutex
    <3>2. mutex.depth \in Nat /\ mutex.depth # 0 /\ mutex.depth - 1 \in Nat /\ mutex.depth - 1 # 0
      BY <2>2 DEF ReleaseMutex, Holds
    <3> QED  BY <3>1, <3>2 DEF ReleaseMutex, Holds
  <2> QED  BY <2>1, <2>2
<1>4. Open(t) => DbTypeOK' /\ OthersKeep(t) /\ mutex'.owner = t
  BY DEF Open, Holds
<1>5. OpenFails(t) => DbTypeOK' /\ OthersKeep(t)
  BY <1>3 DEF OpenFails
<1>6. Close => DbTypeOK' /\ mutex' = mutex
  BY DEF Close
<1>7. QueryBreaks => DbTypeOK' /\ mutex' = mutex
  BY DEF QueryBreaks
<1>8. Abandon(t) => DbTypeOK' /\ OthersKeep(t)
  <2> SUFFICES ASSUME Abandon(t) PROVE DbTypeOK' /\ OthersKeep(t)
    OBVIOUS
  <2>1. mutex' = [owner |-> NoThread, depth |-> 0, abandoned |-> TRUE] /\ connection' = connection
    BY DEF Abandon, FreeMutex
  <2>2. mutex'.owner = NoThread /\ mutex'.depth = 0 /\ mutex'.abandoned = TRUE
    BY <2>1
  <2>3. mutex' \in [owner : Threads \cup {NoThread}, depth : Nat, abandoned : BOOLEAN]
    BY <2>1
  <2>4. OthersKeep(t)
    BY DEF Abandon, Holds
  <2> QED  BY <2>1, <2>2, <2>3, <2>4
<1> QED  BY <1>1, <1>2, <1>3, <1>4, <1>5, <1>6, <1>7, <1>8

(* A new endpoint is in order. *)
LEMMA InitKeeps ==
  ASSUME NEW jobs, NEW places, NEW queries, PlacesOK(places, queries), EndpointInit(jobs)
  PROVE  EndpointInv(jobs, places, queries)
<1> USE NoThreadAssumption, EndpointAssumption
<1>1. EndpointTypeOK(jobs, places)
  BY DEF EndpointInit, DbInit, FreeMutex, EndpointTypeOK, DbTypeOK
<1>2. DeliveriesOK(jobs)
  BY DEF EndpointInit, DeliveriesOK
<1>3. Owned(queries)
  BY DEF EndpointInit, Owned, Locked, PlacesOK
<1> QED  BY <1>1, <1>2, <1>3 DEF EndpointInv

(* A message arrives. *)
LEMMA SendKeeps ==
  ASSUME NEW jobs, NEW places, NEW queries, EndpointInv(jobs, places, queries),
         NEW j \in jobs, NoJob \notin jobs, Send(j)
  PROVE  EndpointInv(jobs, places, queries)'
<1>1. EndpointTypeOK(jobs, places)'
  BY DEF EndpointInv, EndpointTypeOK, Send, dbVars, DbTypeOK
<1>2. DeliveriesOK(jobs)'
  BY DEF EndpointInv, EndpointTypeOK, DeliveriesOK, Send
<1>3. Owned(queries)'
  BY DEF EndpointInv, Owned, Send, dbVars, Holds
<1> QED  BY <1>1, <1>2, <1>3 DEF EndpointInv

(* A thread takes a message and goes to the first place of its handler. *)
LEMMA ReceiveKeeps ==
  ASSUME NEW jobs, NEW places, NEW queries, PlacesOK(places, queries),
         EndpointInv(jobs, places, queries), NoJob \notin jobs,
         NEW t \in Threads, NEW j \in jobs, NEW place \in {"waitOne", "commit"},
         Receive(t, j), GoTo(t, place)
  PROVE  EndpointInv(jobs, places, queries)'
<1> USE DEF EndpointInv
<1>1. EndpointTypeOK(jobs, places)'
  BY DEF EndpointTypeOK, Receive, GoTo, At, dbVars, DbTypeOK
<1>2. DeliveriesOK(jobs)'
  BY DEF EndpointTypeOK, DeliveriesOK, Receive, At
<1>3. Owned(queries)'
  BY DEF EndpointTypeOK, Owned, Receive, GoTo, dbVars, Holds, PlacesOK, Locked
<1> QED  BY <1>1, <1>2, <1>3

(* A thread moves on within its handler.  Whatever it does to the mutex, it  *)
(* takes it from no other thread, and has it at a place that needs it.       *)
LEMMA MoveKeeps ==
  ASSUME NEW jobs, NEW places, NEW queries, PlacesOK(places, queries),
         EndpointInv(jobs, places, queries),
         NEW t \in Threads, ~ At(t, "idle"),
         NEW place \in places \cup {"waitOne", "open", "close", "release", "commit"},
         GoTo(t, place), UNCHANGED <<status, attempts, job>>,
         DbTypeOK', faults' \in Faults, OthersKeep(t),
         place \in Locked(queries) => mutex'.owner = t
  PROVE  EndpointInv(jobs, places, queries)'
<1> USE DEF EndpointInv
<1>1. EndpointTypeOK(jobs, places)'
  BY DEF EndpointTypeOK, GoTo, At, Faults, PlacesOK
<1>2. DeliveriesOK(jobs)'
  BY DEF DeliveriesOK
<1>3. Owned(queries)'
  BY DEF EndpointTypeOK, Owned, GoTo, OthersKeep, Holds
<1> QED  BY <1>1, <1>2, <1>3

(* A handler throws. *)
LEMMA ThrowKeeps ==
  ASSUME NEW jobs, NEW places, NEW queries, PlacesOK(places, queries),
         EndpointInv(jobs, places, queries), NoJob \notin jobs,
         NEW t \in Threads, ~ At(t, "idle"), Throw(t),
         DbTypeOK', faults' \in Faults, OthersKeep(t)
  PROVE  EndpointInv(jobs, places, queries)'
<1> USE EndpointAssumption DEF EndpointInv
<1>1. job[t] \in jobs /\ status[job[t]] = "taken" /\ attempts[job[t]] < MaxAttempts
  BY DEF EndpointTypeOK, DeliveriesOK, At
<1>2. attempts[job[t]] \in Nat
  BY <1>1 DEF EndpointTypeOK
<1>3. EndpointTypeOK(jobs, places)'
  <2>1. attempts' \in [jobs -> 0 .. MaxAttempts]
    BY <1>1, <1>2 DEF EndpointTypeOK, Throw
  <2>2. status' \in [jobs -> {"unsent", "queued", "taken", "done", "error"}]
    BY <1>1 DEF EndpointTypeOK, Throw
  <2>3. /\ pc' \in [Threads -> places \cup {"idle", "waitOne", "open", "close", "release", "commit"}]
        /\ job' \in [Threads -> jobs \cup {NoJob}]
        /\ \A u \in Threads : pc'[u] = "idle" <=> job'[u] = NoJob
    BY DEF EndpointTypeOK, Throw
  <2> QED  BY <2>1, <2>2, <2>3 DEF EndpointTypeOK, Faults
<1>4. DeliveriesOK(jobs)'
  <2>1. \A u \in Threads : u # t /\ job[u] # NoJob => job[u] # job[t]
    BY <1>1 DEF DeliveriesOK
  <2>2. \A u \in Threads : job'[u] = IF u = t THEN NoJob ELSE job[u]
    BY DEF EndpointTypeOK, Throw
  <2>3. \A u \in Threads : job'[u] # NoJob => status'[job'[u]] = "taken"
    BY <2>1, <2>2 DEF EndpointTypeOK, DeliveriesOK, Throw
  <2>4. \A u, v \in Threads : job'[u] = job'[v] /\ job'[u] # NoJob => u = v
    BY <2>2 DEF DeliveriesOK
  <2>5. \A j \in jobs : status'[j] \in {"unsent", "queued", "taken"} => attempts'[j] < MaxAttempts
    <3> SUFFICES ASSUME NEW j \in jobs, status'[j] \in {"unsent", "queued", "taken"}
                 PROVE  attempts'[j] < MaxAttempts
      OBVIOUS
    <3>1. CASE j = job[t]
      <4>1. attempts'[j] = attempts[j] + 1 /\ attempts[j] + 1 # MaxAttempts
        BY <1>1, <3>1 DEF EndpointTypeOK, Throw
      <4> QED  BY <1>1, <1>2, <3>1, <4>1
    <3>2. CASE j # job[t]
      BY <3>2 DEF EndpointTypeOK, DeliveriesOK, Throw
    <3> QED  BY <3>1, <3>2
  <2> QED  BY <2>3, <2>4, <2>5 DEF DeliveriesOK
<1>5. Owned(queries)'
  BY DEF EndpointTypeOK, Owned, Throw, OthersKeep, Holds, Locked, PlacesOK
<1> QED  BY <1>3, <1>4, <1>5

(* A handler returns. *)
LEMMA ReturnKeeps ==
  ASSUME NEW jobs, NEW places, NEW queries, PlacesOK(places, queries),
         EndpointInv(jobs, places, queries), NoJob \notin jobs,
         NEW t \in Threads, Return(t)
  PROVE  EndpointInv(jobs, places, queries)'
<1> USE DEF EndpointInv
<1>1. job[t] \in jobs /\ status[job[t]] = "taken"
  BY DEF EndpointTypeOK, DeliveriesOK, Return, At
<1>2. EndpointTypeOK(jobs, places)'
  BY <1>1 DEF EndpointTypeOK, Return, dbVars, DbTypeOK
<1>3. DeliveriesOK(jobs)'
  <2>1. \A u \in Threads : u # t /\ job[u] # NoJob => job[u] # job[t]
    BY <1>1 DEF DeliveriesOK
  <2>2. \A u \in Threads : job'[u] = IF u = t THEN NoJob ELSE job[u]
    BY DEF EndpointTypeOK, Return
  <2>3. \A u \in Threads : job'[u] # NoJob => status'[job'[u]] = "taken"
    BY <2>1, <2>2 DEF EndpointTypeOK, DeliveriesOK, Return
  <2>4. \A u, v \in Threads : job'[u] = job'[v] /\ job'[u] # NoJob => u = v
    BY <2>2 DEF DeliveriesOK
  <2>5. \A j \in jobs : status'[j] \in {"unsent", "queued", "taken"} => attempts'[j] < MaxAttempts
    BY DEF EndpointTypeOK, DeliveriesOK, Return
  <2> QED  BY <2>3, <2>4, <2>5 DEF DeliveriesOK
<1>4. Owned(queries)'
  BY DEF EndpointTypeOK, Owned, Return, dbVars, Holds, Locked, PlacesOK
<1> QED  BY <1>2, <1>3, <1>4

(* An idle thread ends, with or without the mutex. *)
LEMMA RetireKeeps ==
  ASSUME NEW jobs, NEW places, NEW queries, PlacesOK(places, queries),
         EndpointInv(jobs, places, queries), NEW t \in Threads, Retire(t)
  PROVE  EndpointInv(jobs, places, queries)'
<1> USE DEF EndpointInv
<1>1. DbTypeOK' /\ OthersKeep(t)
  BY DbSteps DEF EndpointTypeOK, Retire
<1>2. EndpointTypeOK(jobs, places)' /\ DeliveriesOK(jobs)'
  BY <1>1 DEF EndpointTypeOK, DeliveriesOK, Retire, endpointVars
<1>3. Owned(queries)'
  BY <1>1 DEF Owned, Retire, endpointVars, OthersKeep, Holds, At, Locked, PlacesOK
<1> QED  BY <1>2, <1>3

(* The service is started again. *)
LEMMA RestartKeeps ==
  ASSUME NEW jobs, NEW places, NEW queries, PlacesOK(places, queries),
         EndpointInv(jobs, places, queries), NoJob \notin jobs, Restart
  PROVE  EndpointInv(jobs, places, queries)'
<1> USE NoThreadAssumption, EndpointAssumption DEF EndpointInv
<1>1. EndpointTypeOK(jobs, places)'
  <2>1. DbTypeOK'
    BY DEF Restart, DbTypeOK, FreeMutex
  <2>2. faults' \in Faults
    <3>1. faults.crashes + 1 \in 0 .. MaxCrashes
      BY DEF EndpointTypeOK, Restart
    <3> QED  BY <3>1 DEF EndpointTypeOK, Restart, Faults
  <2> QED  BY <2>1, <2>2 DEF EndpointTypeOK, Restart, Faults
<1>2. DeliveriesOK(jobs)'
  BY DEF EndpointTypeOK, DeliveriesOK, Restart
<1>3. Owned(queries)'
  BY DEF Owned, Restart, Locked, PlacesOK
<1> QED  BY <1>1, <1>2, <1>3
=============================================================================
