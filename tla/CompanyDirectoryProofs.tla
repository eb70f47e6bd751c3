----------------------- MODULE CompanyDirectoryProofs -----------------------
(***************************************************************************)
(* Theorems about CompanyDirectory, for any number of threads, accounts,   *)
(* requests, attempts and faults.                                          *)
(***************************************************************************)
EXTENDS CompanyDirectory, EndpointProofs

AllPlaces == Querying \cup Stray

(* Which kind of message a handler's place belongs to, and that the company  *)
(* of a location about to be inserted is in the table.                       *)
HandlersOK ==
  \A t \in Threads :
    /\ pc[t] \in Inserting \cup Stray => job[t] \in Accounts
    /\ pc[t] = "search" => job[t] \in SearchRequests
    /\ pc[t] \in {"selectCompany", "selectLocation"} => job[t] \in InfoRequests
    /\ pc[t] = "insertLocation" => job[t].username \in company

(* The mutex is never abandoned nor entered twice: whoever owns it is between *)
(* WaitOne and the ReleaseMutex that frees it.                               *)
MutexInv ==
  /\ MutexReleasedByEveryHandler
  /\ mutex.depth \in {0, 1}
  /\ ~ mutex.abandoned

RestTypeOK ==
  /\ company \subseteq Names
  /\ location \subseteq Names
  /\ answer \in [Threads -> Answer]
  /\ replies \in [Requests -> Answer]

DirectoryInv ==
  /\ EndpointInv(Jobs, AllPlaces, Querying)
  /\ RestTypeOK
  /\ HandlersOK
  /\ MutexInv
  /\ NoLocationWithoutCompany

(* The places of the directory handlers are none of those all handlers have. *)
LEMMA Places == PlacesOK(AllPlaces, Querying) /\ NoJob \notin Jobs
BY DirectoryJobsAssumption DEF PlacesOK, AllPlaces, Querying, Inserting, Reading, Stray

(* The service starts in order. *)
THEOREM InitDirectoryInv == Init => DirectoryInv
<1> SUFFICES ASSUME Init PROVE DirectoryInv
  OBVIOUS
<1>1. EndpointInv(Jobs, AllPlaces, Querying)
  BY Places, InitKeeps DEF Init
<1>2. RestTypeOK /\ HandlersOK /\ NoLocationWithoutCompany
  BY DEF Init, RestTypeOK, Failure, Answer, EndpointInit, HandlersOK, Inserting, Stray,
         NoLocationWithoutCompany
<1>3. MutexInv
  BY NoThreadAssumption
     DEF Init, EndpointInit, DbInit, FreeMutex, MutexInv, MutexReleasedByEveryHandler, Holds
<1> QED  BY <1>1, <1>2, <1>3 DEF DirectoryInv

(* A move of t to another place of its handler that leaves the mutex alone.  *)
LEMMA MoveInv ==
  ASSUME DirectoryInv, NEW t \in Threads, ~ At(t, "idle"),
         NEW place \in AllPlaces \cup {"open", "close", "release", "commit"},
         GoTo(t, place), UNCHANGED <<status, attempts, job, mutex>>,
         connection' \in {"Closed", "Open"}, faults' \in Faults,
         place \in Locked(Querying) <=> pc[t] \in Locked(Querying),
         place \in Inserting \cup Stray => job[t] \in Accounts,
         place = "search" => job[t] \in SearchRequests,
         place \in {"selectCompany", "selectLocation"} => job[t] \in InfoRequests,
         place = "insertLocation" => job[t].username \in company',
         company \subseteq company', RestTypeOK', NoLocationWithoutCompany'
  PROVE  DirectoryInv'
<1> USE DEF DirectoryInv
<1>1. DbTypeOK' /\ OthersKeep(t)
  BY DEF EndpointInv, EndpointTypeOK, DbTypeOK, OthersKeep
<1>2. place \in Locked(Querying) => mutex'.owner = t
  BY DEF EndpointInv, Owned, Holds
<1>3. EndpointInv(Jobs, AllPlaces, Querying)'
  BY <1>1, <1>2, Places, MoveKeeps
<1>4. HandlersOK'
  BY DEF HandlersOK, EndpointInv, EndpointTypeOK, GoTo
<1>5. MutexInv'
  BY DEF MutexInv, MutexReleasedByEveryHandler, Holds, EndpointInv, EndpointTypeOK, GoTo
<1> QED  BY <1>3, <1>4, <1>5

(* The handler of t throws without the mutex. *)
LEMMA FailInv ==
  ASSUME DirectoryInv, NEW t \in Threads, ~ At(t, "idle"), Fail(t),
         DbTypeOK', faults' \in Faults, OthersKeep(t), MutexInv',
         UNCHANGED <<tables, replies>>
  PROVE  DirectoryInv'
<1> USE DEF DirectoryInv
<1>1. EndpointInv(Jobs, AllPlaces, Querying)'
  BY Places, ThrowKeeps DEF Fail
<1>2. RestTypeOK' /\ NoLocationWithoutCompany'
  BY DEF RestTypeOK, NoLocationWithoutCompany, Fail, ForgetAnswer, tables, Failure, Answer
<1>3. HandlersOK'
  BY DEF HandlersOK, EndpointInv, EndpointTypeOK, Fail, Throw, tables, Inserting, Stray
<1> QED  BY <1>1, <1>2, <1>3

(* openConnection returned false. *)
LEMMA NotOpenedInv ==
  ASSUME DirectoryInv, NEW t \in Threads, At(t, "open"), NotOpened(t), ReleaseMutex(t),
         faults' \in Faults, UNCHANGED <<tables, replies>>
  PROVE  DirectoryInv'
<1> USE DEF DirectoryInv
<1>1. DbTypeOK' /\ OthersKeep(t)
  BY DbSteps DEF EndpointInv, EndpointTypeOK
<1>2. mutex' = FreeMutex
  BY NoThreadAssumption DEF ReleaseMutex, Holds, MutexInv, EndpointInv, EndpointTypeOK, DbTypeOK
<1>3. MutexInv'
  BY <1>2, NoThreadAssumption DEF FreeMutex, MutexInv, MutexReleasedByEveryHandler, Holds
<1>4. CASE Fail(t)
  BY <1>1, <1>3, <1>4, FailInv DEF At
<1>5. CASE GoTo(t, "commit") /\ UNCHANGED <<status, attempts, job, answer>>
  <2>1. EndpointInv(Jobs, AllPlaces, Querying)'
    BY <1>1, <1>5, Places, MoveKeeps DEF At, Locked, Querying, Inserting, Reading
  <2>2. RestTypeOK' /\ NoLocationWithoutCompany'
    BY <1>5 DEF RestTypeOK, NoLocationWithoutCompany, tables
  <2>3. HandlersOK'
    BY <1>5 DEF HandlersOK, EndpointInv, EndpointTypeOK, GoTo, tables, Inserting, Stray
  <2> QED  BY <1>3, <2>1, <2>2, <2>3
<1> QED  BY <1>4, <1>5 DEF NotOpened

(* openConnection got the mutex. *)
LEMMA EnterInv ==
  ASSUME DirectoryInv, NEW t \in Threads, Enter(t)
  PROVE  DirectoryInv'
<1> USE DEF DirectoryInv
<1>1. DbTypeOK' /\ OthersKeep(t) /\ mutex'.owner = t
  BY DbSteps DEF EndpointInv, EndpointTypeOK, Enter, EnterMutex
<1>2. mutex.owner = NoThread
  BY NoThreadAssumption
     DEF Enter, EnterMutex, WaitOne, At, MutexInv, MutexReleasedByEveryHandler, Holds,
         Locked, Querying, Inserting, Reading
<1>3. mutex' = [owner |-> t, depth |-> 1, abandoned |-> FALSE]
  <2>1. mutex.depth = 0
    BY <1>2 DEF EndpointInv, EndpointTypeOK, DbTypeOK
  <2> QED  BY <2>1 DEF Enter, EnterMutex, WaitOne
<1>4. EndpointInv(Jobs, AllPlaces, Querying)'
  <2>1. faults' \in Faults
    BY DEF Enter, EnterMutex, EndpointInv, EndpointTypeOK, Faults
  <2> QED  BY <1>1, <2>1, Places, MoveKeeps DEF Enter, EnterMutex, At
<1>5. MutexInv'
  BY <1>2, <1>3, NoThreadAssumption
     DEF MutexInv, MutexReleasedByEveryHandler, Holds, Enter, EnterMutex, GoTo, Locked,
         EndpointInv, EndpointTypeOK
<1>6. RestTypeOK' /\ HandlersOK' /\ NoLocationWithoutCompany'
  BY DEF RestTypeOK, HandlersOK, NoLocationWithoutCompany, Enter, EnterMutex, GoTo, tables,
         EndpointInv, EndpointTypeOK, Inserting, Stray
<1> QED  BY <1>4, <1>5, <1>6

(* closeConnection of the thread that owns the mutex frees it. *)
LEMMA LeaveInv ==
  ASSUME DirectoryInv, NEW t \in Threads, Leave(t)
  PROVE  DirectoryInv'
<1> USE DEF DirectoryInv
<1> DEFINE next == IF job[t] \in Accounts THEN "closeAgain" ELSE "commit"
<1>0. At(t, "release") /\ ReleaseMutex(t) /\ GoTo(t, next)
      /\ UNCHANGED <<status, attempts, job, faults, company, location, answer, replies>>
  BY DEF Leave, LeaveMutex, tables
<1>1. DbTypeOK' /\ OthersKeep(t)
  BY <1>0, DbSteps DEF EndpointInv, EndpointTypeOK
<1>2. mutex' = FreeMutex
  BY <1>0, NoThreadAssumption
     DEF ReleaseMutex, Holds, MutexInv, EndpointInv, EndpointTypeOK, DbTypeOK
<1>3. MutexInv'
  BY <1>2, NoThreadAssumption DEF FreeMutex, MutexInv, MutexReleasedByEveryHandler, Holds
<1>4. EndpointInv(Jobs, AllPlaces, Querying)'
  <2>1. next \in {"closeAgain", "commit"} /\ next \in AllPlaces \cup {"commit"}
        /\ next \notin Locked(Querying)
    BY DEF AllPlaces, Stray, Locked, Querying, Inserting, Reading
  <2>2. faults' \in Faults
    BY <1>0 DEF EndpointInv, EndpointTypeOK, Faults
  <2> HIDE DEF next
  <2> QED  BY <1>0, <1>1, <2>1, <2>2, Places, MoveKeeps DEF At
<1>5. RestTypeOK' /\ HandlersOK' /\ NoLocationWithoutCompany'
  BY <1>0 DEF RestTypeOK, HandlersOK, NoLocationWithoutCompany, GoTo,
         EndpointInv, EndpointTypeOK, Inserting, Stray
<1> QED  BY <1>3, <1>4, <1>5

(* A handler returns without the mutex. *)
LEMMA CommitInv ==
  ASSUME DirectoryInv, NEW t \in Threads, Commit(t)
  PROVE  DirectoryInv'
<1> USE DEF DirectoryInv
<1>0. Return(t) /\ UNCHANGED <<dbVars, tables>>
      /\ answer' = [answer EXCEPT ![t] = Failure]
      /\ replies' = [r \in Requests |-> IF r = job[t] THEN answer[t] ELSE replies[r]]
  BY DEF Commit, Return, ForgetAnswer
<1>1. EndpointInv(Jobs, AllPlaces, Querying)'
  BY <1>0, Places, ReturnKeeps
<1>2. RestTypeOK' /\ NoLocationWithoutCompany'
  BY <1>0 DEF RestTypeOK, NoLocationWithoutCompany, tables, Failure, Answer
<1>3. HandlersOK'
  BY <1>0 DEF HandlersOK, EndpointInv, EndpointTypeOK, Return, tables, Inserting, Stray
<1>4. MutexInv'
  BY <1>0 DEF MutexInv, MutexReleasedByEveryHandler, Holds, Return, At, dbVars, Locked,
              Querying, Inserting, Reading, EndpointInv, EndpointTypeOK
<1> QED  BY <1>1, <1>2, <1>3, <1>4

(* The steps that insert a company or read the tables. *)
LEMMA QueryInv ==
  ASSUME DirectoryInv, NEW t \in Threads, InsertNewCompany(t) \/ Reads(t)
  PROVE  DirectoryInv'
<1> USE DEF DirectoryInv
<1>1. connection \in {"Closed", "Open"} /\ faults \in Faults
  BY DEF EndpointInv, EndpointTypeOK, DbTypeOK, Faults
<1>2. CASE InsertNewCompany(t)
  <2> USE <1>2 DEF InsertNewCompany
  <2>1. pc[t] \in {"insertCompany", "insertLocation"} /\ job[t] \in Accounts
    BY DEF InsertCompany, InsertLocation, InsertFails, At, HandlersOK, Inserting
  <2>2. job[t].username \in Names
    BY <2>1, AccountsAssumption
  <2>3. RestTypeOK'
    BY <2>2 DEF InsertCompany, InsertLocation, InsertFails, OnlyQueries, RestTypeOK
  <2>4. NoLocationWithoutCompany'
    BY DEF InsertCompany, InsertLocation, InsertFails, NoLocationWithoutCompany, HandlersOK, At
  <2>5. PICK place \in {"insertLocation", "close"} :
          /\ GoTo(t, place)
          /\ place = "insertLocation" => job[t].username \in company'
    BY DEF InsertCompany, InsertLocation, InsertFails
  <2>6. UNCHANGED <<status, attempts, job, mutex, connection, faults>>
    BY DEF InsertCompany, InsertLocation, InsertFails, OnlyQueries, dbVars
  <2>7. company \subseteq company'
    BY DEF InsertCompany, InsertLocation, InsertFails
  <2> QED  BY <1>1, <2>1, <2>3, <2>4, <2>5, <2>6, <2>7, MoveInv
           DEF At, AllPlaces, Locked, Querying, Inserting, Reading, Stray
<1>3. CASE Reads(t)
  <2> USE <1>3 DEF Reads
  <2>1. pc[t] \in Reading
    BY DEF Search, SelectCompany, SelectLocation, ReadFails, At, Reading
  <2>2. UNCHANGED <<status, attempts, job, mutex, connection, faults, company, location, replies>>
    BY DEF Search, SelectCompany, SelectLocation, ReadFails, OnlyQueries, dbVars, tables
  <2>3. answer' \in [Threads -> Answer]
    <3>1. CASE Search(t)
      <4> DEFINE found == [result |-> TRUE, companies |-> company \cap {job[t].searchDeliminator},
                           locations |-> {}]
      <4>1. found \in Answer
        BY DEF Answer, RestTypeOK
      <4>2. answer' = [answer EXCEPT ![t] = found]
        BY <3>1 DEF Search
      <4> HIDE DEF found
      <4> QED  BY <4>1, <4>2 DEF RestTypeOK
    <3>2. CASE SelectLocation(t)
      <4>1. job[t].companyName \in Names
        BY <3>2, DirectoryRequestsAssumption DEF SelectLocation, HandlersOK, At
      <4> DEFINE info == [result |-> TRUE, companies |-> {job[t].companyName},
                          locations |-> location \cap {job[t].companyName}]
      <4>2. info \in Answer
        BY <4>1 DEF Answer, RestTypeOK
      <4>3. answer' = [answer EXCEPT ![t] = info]
        BY <3>2 DEF SelectLocation
      <4> HIDE DEF info
      <4> QED  BY <4>2, <4>3 DEF RestTypeOK
    <3>3. CASE SelectCompany(t) \/ ReadFails(t)
      BY <3>3 DEF SelectCompany, ReadFails, RestTypeOK
    <3> QED  BY <3>1, <3>2, <3>3
  <2>4. RestTypeOK' /\ NoLocationWithoutCompany'
    BY <2>2, <2>3 DEF RestTypeOK, NoLocationWithoutCompany
  <2>5. PICK place \in {"selectLocation", "close"} :
          /\ GoTo(t, place)
          /\ place = "selectLocation" => job[t] \in InfoRequests
    BY DEF Search, SelectCompany, SelectLocation, ReadFails, HandlersOK, At
  <2> QED  BY <1>1, <2>1, <2>2, <2>4, <2>5, MoveInv
           DEF At, AllPlaces, Locked, Querying, Inserting, Reading, Stray
<1> QED  BY <1>2, <1>3

(* MySQL is lost during a query. *)
LEMMA BrokenQueryInv ==
  ASSUME DirectoryInv, NEW t \in Threads, QueryFailed(t)
  PROVE  DirectoryInv'
<1> USE DEF DirectoryInv
<1>1. pc[t] \in Querying /\ GoTo(t, "close") /\ UNCHANGED <<status, attempts, job, mutex>>
  BY DEF QueryFailed, QueryFails, QueryBreaks
<1>2. connection' \in {"Closed", "Open"} /\ faults' \in Faults
  BY EndpointAssumption DEF QueryFailed, QueryFails, QueryBreaks, EndpointInv, EndpointTypeOK,
                            DbTypeOK, Faults
<1>3. company \subseteq company' /\ NoLocationWithoutCompany'
  BY DEF QueryFailed, tables, NoLocationWithoutCompany, HandlersOK, At
<1>4. RestTypeOK'
  <2>1. pc[t] \in Inserting => job[t].username \in Names
    BY AccountsAssumption DEF HandlersOK
  <2> QED  BY <2>1 DEF QueryFailed, RestTypeOK, tables, At, Inserting
<1> QED  BY <1>1, <1>2, <1>3, <1>4, MoveInv
         DEF At, AllPlaces, Locked, Querying, Inserting, Reading, Stray

-----------------------------------------------------------------------------
(* Every step of the service keeps it in order. *)
THEOREM StepDirectoryInv == DirectoryInv /\ [Next]_vars => DirectoryInv'
<1> SUFFICES ASSUME DirectoryInv, [Next]_vars PROVE DirectoryInv'
  OBVIOUS
<1> USE DEF DirectoryInv
<1>1. CASE UNCHANGED vars
  BY <1>1 DEF vars, dbVars, endpointVars, EndpointInv, EndpointTypeOK, DbTypeOK, DeliveriesOK,
              Owned, Holds, RestTypeOK, HandlersOK, MutexInv, MutexReleasedByEveryHandler,
              NoLocationWithoutCompany
<1>2. ASSUME NEW j \in Jobs, Arrive(j) PROVE DirectoryInv'
  <2>1. EndpointInv(Jobs, AllPlaces, Querying)'
    BY <1>2, Places, SendKeeps DEF Arrive
  <2> QED  BY <1>2, <2>1 DEF Arrive, Send, tables, dbVars, RestTypeOK, HandlersOK, MutexInv,
                MutexReleasedByEveryHandler, Holds, NoLocationWithoutCompany
<1>3. ASSUME NEW t \in Threads, NEW j \in Jobs, Handle(t, j) PROVE DirectoryInv'
  <2> DEFINE place == IF j \in Accounts /\ j.type = "user" THEN "commit" ELSE "waitOne"
  <2>1. Receive(t, j) /\ GoTo(t, place) /\ UNCHANGED <<company, location, answer, replies>>
    BY <1>3 DEF Handle, tables
  <2>2. place \in {"waitOne", "commit"}
    OBVIOUS
  <2> HIDE DEF place
  <2>3. EndpointInv(Jobs, AllPlaces, Querying)'
    BY <2>1, <2>2, Places, ReceiveKeeps
  <2>4. HandlersOK'
    BY <2>1, <2>2 DEF HandlersOK, Receive, GoTo, EndpointInv, EndpointTypeOK, Inserting, Stray
  <2>5. MutexInv'
    BY <2>1 DEF MutexInv, MutexReleasedByEveryHandler, Holds, Receive, GoTo, At, dbVars, Locked,
                Querying, Inserting, Reading, EndpointInv, EndpointTypeOK
  <2> QED  BY <2>1, <2>3, <2>4, <2>5 DEF RestTypeOK, NoLocationWithoutCompany
<1>4. ASSUME NEW t \in Threads, Step(t) PROVE DirectoryInv'
  <2>1. CASE Enter(t)
    BY <2>1, EnterInv
  <2>2. CASE OpenIt(t)
    <3> DEFINE next == IF job[t] \in Accounts THEN "insertCompany"
                       ELSE IF job[t] \in SearchRequests THEN "search" ELSE "selectCompany"
    <3>1. At(t, "open") /\ GoTo(t, next) /\ connection' = "Open"
          /\ UNCHANGED <<mutex, status, attempts, job, faults, company, location, answer, replies>>
      BY <2>2 DEF OpenIt, OpenConnection, Open, tables
    <3>2. next \in {"insertCompany", "search", "selectCompany"}
          /\ (next = "insertCompany" => job[t] \in Accounts)
          /\ (next = "search" => job[t] \in SearchRequests)
          /\ (next = "selectCompany" => job[t] \in InfoRequests)
      BY <3>1 DEF EndpointInv, EndpointTypeOK, At, Jobs, Requests
    <3>3. RestTypeOK' /\ NoLocationWithoutCompany' /\ faults' \in Faults
      BY <3>1 DEF RestTypeOK, NoLocationWithoutCompany, EndpointInv, EndpointTypeOK, Faults
    <3> HIDE DEF next
    <3> QED  BY <3>1, <3>2, <3>3, MoveInv
             DEF At, AllPlaces, Locked, Querying, Inserting, Reading, Stray
  <2>3. CASE CloseIt(t) \/ CloseAgain(t)
    <3>1. PICK place \in {"release", "releaseAgain"} :
            /\ GoTo(t, place)
            /\ place = "release" => At(t, "close")
            /\ place = "releaseAgain" => At(t, "closeAgain")
      BY <2>3 DEF CloseIt, CloseConnection, CloseAgain
    <3>2. connection' = "Closed" /\ UNCHANGED <<mutex, status, attempts, job, faults,
                                                company, location, answer, replies>>
      BY <2>3 DEF CloseIt, CloseConnection, CloseAgain, Close, tables
    <3>3. RestTypeOK' /\ NoLocationWithoutCompany' /\ faults' \in Faults
      BY <3>2 DEF RestTypeOK, NoLocationWithoutCompany, EndpointInv, EndpointTypeOK, Faults
    <3>4. place = "releaseAgain" => job[t] \in Accounts
      BY <3>1 DEF HandlersOK, At, Stray
    <3> QED  BY <3>1, <3>2, <3>3, <3>4, MoveInv
             DEF At, AllPlaces, Locked, Querying, Inserting, Reading, Stray
  <2>4. CASE Leave(t)
    BY <2>4, LeaveInv
  <2>5. CASE Commit(t)
    BY <2>5, CommitInv
  <2>6. CASE ReleaseAgain(t)
    <3>1. DbTypeOK' /\ OthersKeep(t) /\ faults' \in Faults
      BY <2>6 DEF ReleaseAgain, dbVars, EndpointInv, EndpointTypeOK, DbTypeOK, OthersKeep, Faults
    <3>2. MutexInv'
      BY <2>6 DEF ReleaseAgain, dbVars, MutexInv, MutexReleasedByEveryHandler, Holds, Fail, Throw,
                  EndpointInv, EndpointTypeOK
    <3> QED  BY <2>6, <3>1, <3>2, FailInv DEF ReleaseAgain, At
  <2>7. CASE InsertNewCompany(t) \/ Reads(t)
    BY <2>7, QueryInv
  <2> QED  BY <1>3, <1>4, <2>1, <2>2, <2>3, <2>4, <2>5, <2>6, <2>7 DEF Step
<1>5. ASSUME NEW t \in Threads, Fault(t) PROVE DirectoryInv'
  <2>1. CASE OpenFailed(t)
    <3>1. faults' \in Faults
      BY <2>1, EndpointAssumption DEF OpenFailed, OpenConnectionFails, EndpointInv, EndpointTypeOK,
                                      Faults
    <3> QED  BY <2>1, <3>1, NotOpenedInv DEF OpenFailed, OpenConnectionFails, OpenFails
  <2>2. CASE QueryFailed(t)
    BY <2>2, BrokenQueryInv
  <2> QED  BY <1>5, <2>1, <2>2 DEF Fault
<1>6. CASE Crash
  <2>1. EndpointInv(Jobs, AllPlaces, Querying)'
    BY <1>6, Places, RestartKeeps DEF Crash
  <2>2. RestTypeOK' /\ NoLocationWithoutCompany'
    BY <1>6 DEF Crash, tables, RestTypeOK, NoLocationWithoutCompany, Failure, Answer
  <2>3. HandlersOK'
    BY <1>6 DEF Crash, Restart, HandlersOK, Inserting, Stray
  <2>4. MutexInv'
    BY <1>6, NoThreadAssumption
       DEF Crash, Restart, FreeMutex, MutexInv, MutexReleasedByEveryHandler, Holds
  <2> QED  BY <2>1, <2>2, <2>3, <2>4
<1> QED  BY <1>1, <1>2, <1>4, <1>5, <1>6 DEF Next

(* The service is always in order. *)
THEOREM DirectoryInvariant == Spec => []DirectoryInv
<1> QED  BY InitDirectoryInv, StepDirectoryInv, PTL DEF Spec

(* The type invariant. *)
THEOREM DirectoryTypeCorrect == Spec => []TypeOK
<1>1. DirectoryInv => TypeOK
  BY DEF DirectoryInv, RestTypeOK, EndpointInv, TypeOK, AllPlaces
<1> QED  BY <1>1, DirectoryInvariant, PTL

(* Between WaitOne and ReleaseMutex a handler owns the mutex, whatever the   *)
(* second closeConnection of insertNewCompany does meanwhile.                *)
THEOREM DirectoryMutualExclusion == Spec => []MutualExclusion
<1>1. DirectoryInv => MutualExclusion
  BY DEF DirectoryInv, EndpointInv, MutualExclusion
<1> QED  BY <1>1, DirectoryInvariant, PTL

(* No path through a handler, failed or not, keeps the mutex. *)
THEOREM DirectoryReleasesMutex == Spec => []MutexReleasedByEveryHandler
<1>1. DirectoryInv => MutexReleasedByEveryHandler
  BY DEF DirectoryInv, MutexInv
<1> QED  BY <1>1, DirectoryInvariant, PTL

(* A company may lack its location row, never the other way round, though    *)
(* the two INSERTs can fail or be cut short separately.                      *)
THEOREM DirectoryLocationsHaveCompanies == Spec => []NoLocationWithoutCompany
<1>1. DirectoryInv => NoLocationWithoutCompany
  BY DEF DirectoryInv
<1> QED  BY <1>1, DirectoryInvariant, PTL

-----------------------------------------------------------------------------
(* What the directory answers. *)

(* An answer names the company asked for, if any, and what is in the tables. *)
Supported(a) == a.companies \subseteq company /\ a.locations \subseteq location

AsksFor(r) == IF r \in SearchRequests THEN r.searchDeliminator ELSE r.companyName

Answers(r, a) ==
  /\ Supported(a)
  /\ a.companies \subseteq {AsksFor(r)}
  /\ a.locations \subseteq a.companies
  /\ r \in InfoRequests => (a.result <=> a.companies # {})

(* A thread's answer is to the request it handles, and only of a read. *)
AnswersInv ==
  /\ \A t \in Threads : IF job[t] \in Requests THEN Answers(job[t], answer[t])
                                               ELSE answer[t] = Failure
  /\ \A t \in Threads : pc[t] = "selectLocation" => job[t].companyName \in company
  /\ \A r \in Requests : Answers(r, replies[r])

(* Rows are never deleted, so what an answer says stays so. *)
LEMMA AnswersStay ==
  ASSUME company \subseteq company', location \subseteq location', NEW r, NEW a, Answers(r, a)
  PROVE  Supported(a)' /\ Answers(r, a)'
BY DEF Answers, Supported, AsksFor

LEMMA StepRowsStay ==
  ASSUME [Next]_vars
  PROVE  company \subseteq company' /\ location \subseteq location'
<1>1. ASSUME NEW t \in Threads, Step(t) \/ Fault(t)
      PROVE  company \subseteq company' /\ location \subseteq location'
  BY <1>1 DEF Step, Fault, Handle, Enter, OpenIt, CloseIt, Leave, Commit, CloseAgain, ReleaseAgain,
     InsertNewCompany, InsertCompany, InsertLocation, InsertFails, Reads, Search, SelectCompany,
     SelectLocation, ReadFails, OpenFailed, QueryFailed, tables
<1> QED  BY <1>1 DEF Next, Arrive, Crash, tables, vars

(* A failure answers nothing. *)
LEMMA FailureAnswers ==
  ASSUME NEW r \in Requests
  PROVE  Answers(r, Failure)
BY DEF Answers, Supported, Failure

LEMMA StepAnswersInv == DirectoryInv /\ AnswersInv /\ [Next]_vars => AnswersInv'
<1> SUFFICES ASSUME DirectoryInv, AnswersInv, [Next]_vars PROVE AnswersInv'
  OBVIOUS
<1>0. company \subseteq company' /\ location \subseteq location'
  BY StepRowsStay
<1>t. /\ pc \in [Threads -> AllPlaces \cup {"idle", "waitOne", "open", "close", "release", "commit"}]
      /\ job \in [Threads -> Jobs \cup {NoJob}] /\ answer \in [Threads -> Answer]
      /\ \A t \in Threads : pc[t] = "idle" <=> job[t] = NoJob
      /\ NoJob \notin Requests
  BY DirectoryJobsAssumption DEF DirectoryInv, EndpointInv, EndpointTypeOK, RestTypeOK, Jobs
<1> DEFINE Fits(t) == IF job[t] \in Requests THEN Answers(job[t], answer[t]) ELSE answer[t] = Failure
           Known(t) == pc[t] = "selectLocation" => job[t].companyName \in company
(* A thread that keeps its request and its answer. *)
<1>1. ASSUME NEW t \in Threads, job'[t] = job[t], answer'[t] = answer[t] PROVE Fits(t)'
  BY <1>0, <1>1, AnswersStay DEF AnswersInv
(* A thread without an answer. *)
<1>2. ASSUME NEW t \in Threads, answer'[t] = Failure PROVE Fits(t)'
  BY <1>2 DEF Answers, Supported, Failure
<1>3. ASSUME NEW t \in Threads, job'[t] = job[t], pc'[t] = pc[t] \/ pc'[t] # "selectLocation"
      PROVE  Known(t)'
  BY <1>0, <1>3 DEF AnswersInv
<1>4. ASSUME UNCHANGED replies PROVE \A r \in Requests : Answers(r, replies[r])'
  BY <1>0, <1>4, AnswersStay DEF AnswersInv
<1>5. ASSUME NEW t \in Threads, pc'[t] # "selectLocation" PROVE Known(t)'
  BY <1>5
(* Steps that leave answers alone and lead to no other place with a company. *)
<1>6. ASSUME UNCHANGED <<job, answer, replies>>,
             \A t \in Threads : pc'[t] = pc[t] \/ pc'[t] # "selectLocation"
      PROVE  AnswersInv'
  BY <1>1, <1>3, <1>4, <1>6 DEF AnswersInv
<1>7. ASSUME NEW t \in Threads, Fail(t), UNCHANGED replies PROVE AnswersInv'
  <2>1. /\ pc'[t] # "selectLocation" /\ answer'[t] = Failure
        /\ \A v \in Threads : v # t => pc'[v] = pc[v] /\ job'[v] = job[v] /\ answer'[v] = answer[v]
    BY <1>t, <1>7 DEF Fail, Throw, ForgetAnswer
  <2> QED  BY <1>1, <1>2, <1>3, <1>4, <1>5, <1>7, <2>1 DEF AnswersInv
<1>8. ASSUME NEW t \in Threads, NotOpened(t), UNCHANGED replies PROVE AnswersInv'
  BY <1>t, <1>6, <1>7, <1>8 DEF NotOpened, GoTo
<1>9. CASE UNCHANGED vars
  BY <1>6, <1>9 DEF vars, endpointVars
<1>10. ASSUME NEW j \in Jobs, Arrive(j) PROVE AnswersInv'
  BY <1>6, <1>10 DEF Arrive, Send
<1>11. ASSUME NEW t \in Threads, NEW j \in Jobs, Handle(t, j) PROVE AnswersInv'
  <2>1. answer[t] = Failure
    BY <1>t, <1>11 DEF Handle, Receive, At, AnswersInv
  <2>2. /\ pc'[t] # "selectLocation" /\ answer' = answer /\ replies' = replies
        /\ \A v \in Threads : v # t => pc'[v] = pc[v] /\ job'[v] = job[v]
    BY <1>t, <1>11 DEF Handle, Receive, GoTo
  <2> QED  BY <1>1, <1>2, <1>3, <1>4, <1>5, <2>1, <2>2 DEF AnswersInv
<1>12. ASSUME NEW t \in Threads, Enter(t) \/ OpenIt(t) \/ CloseIt(t) \/ Leave(t) \/ CloseAgain(t)
       PROVE  AnswersInv'
  BY <1>t, <1>6, <1>12 DEF Enter, EnterMutex, OpenIt, OpenConnection, CloseIt, CloseConnection, Leave,
     LeaveMutex, CloseAgain, GoTo
<1>13. ASSUME NEW t \in Threads, ReleaseAgain(t) PROVE AnswersInv'
  BY <1>7, <1>13 DEF ReleaseAgain
<1>14. ASSUME NEW t \in Threads, Commit(t) PROVE AnswersInv'
  <2>1. /\ pc'[t] # "selectLocation" /\ answer'[t] = Failure
        /\ \A v \in Threads : v # t => pc'[v] = pc[v] /\ job'[v] = job[v] /\ answer'[v] = answer[v]
    BY <1>t, <1>14 DEF Commit, Return, ForgetAnswer
  <2>2. ASSUME NEW r \in Requests PROVE Answers(r, replies[r])'
    <3>1. replies'[r] = IF r = job[t] THEN answer[t] ELSE replies[r]
      BY <1>14 DEF Commit
    <3>2. Answers(r, IF r = job[t] THEN answer[t] ELSE replies[r])
      BY DEF AnswersInv
    <3> QED  BY <1>0, <3>1, <3>2, AnswersStay
  <2> QED  BY <1>1, <1>2, <1>3, <1>5, <2>1, <2>2 DEF AnswersInv
<1>15. ASSUME NEW t \in Threads, InsertNewCompany(t) PROVE AnswersInv'
  BY <1>t, <1>6, <1>15 DEF InsertNewCompany, InsertCompany, InsertLocation, InsertFails, OnlyQueries, GoTo
<1>16. ASSUME NEW t \in Threads, Reads(t) PROVE AnswersInv'
  <2>1. CASE ReadFails(t)
    BY <1>t, <1>6, <2>1 DEF ReadFails, OnlyQueries, GoTo
  <2>2. CASE SelectCompany(t)
    <3>1. /\ \A v \in Threads : v # t => pc'[v] = pc[v]
          /\ pc'[t] = "selectLocation" => job'[t].companyName \in company'
          /\ UNCHANGED <<job, answer, replies>>
      BY <1>t, <2>2 DEF SelectCompany, OnlyQueries, tables, GoTo
    <3> QED  BY <1>1, <1>3, <1>4, <3>1 DEF AnswersInv
  <2>3. CASE Search(t) \/ SelectLocation(t)
    <3>1. /\ UNCHANGED <<job, replies>> /\ pc'[t] # "selectLocation" /\ job[t] \in Requests
          /\ \A v \in Threads : v # t => pc'[v] = pc[v] /\ answer'[v] = answer[v]
      BY <1>t, <2>3 DEF Search, SelectLocation, OnlyQueries, GoTo, At, DirectoryInv, HandlersOK, Requests
    <3>2. ASSUME Search(t) PROVE Fits(t)'
      <4>1. job[t] \in SearchRequests /\ job[t] \notin InfoRequests
        BY <3>2, DirectoryJobsAssumption DEF Search, At, DirectoryInv, HandlersOK
      <4> DEFINE found == [result |-> TRUE, companies |-> company \cap {job[t].searchDeliminator},
                           locations |-> {}]
      <4>2. Answers(job[t], found)
        BY <4>1 DEF Answers, Supported, AsksFor
      <4>3. answer'[t] = found
        BY <1>t, <3>2 DEF Search
      <4> HIDE DEF found
      <4> QED  BY <1>0, <3>1, <4>2, <4>3, AnswersStay
    <3>3. ASSUME SelectLocation(t) PROVE Fits(t)'
      <4>1. /\ job[t] \in InfoRequests /\ job[t] \notin SearchRequests
            /\ job[t].companyName \in company
        BY <3>3, DirectoryJobsAssumption DEF SelectLocation, At, DirectoryInv, HandlersOK, AnswersInv
      <4> DEFINE info == [result |-> TRUE, companies |-> {job[t].companyName},
                          locations |-> location \cap {job[t].companyName}]
      <4>2. Answers(job[t], info)
        BY <4>1 DEF Answers, Supported, AsksFor
      <4>3. answer'[t] = info
        BY <1>t, <3>3 DEF SelectLocation
      <4> HIDE DEF info
      <4> QED  BY <1>0, <3>1, <4>2, <4>3, AnswersStay
    <3>4. Fits(t)'
      BY <2>3, <3>2, <3>3
    <3> QED  BY <1>1, <1>3, <1>4, <1>5, <3>1, <3>4 DEF AnswersInv
  <2> QED  BY <1>16, <2>1, <2>2, <2>3 DEF Reads
<1>17. ASSUME NEW t \in Threads, Fault(t) PROVE AnswersInv'
  <2>1. CASE OpenFailed(t)
    BY <1>8, <2>1 DEF OpenFailed
  <2>2. CASE QueryFailed(t)
    BY <1>t, <1>6, <2>2 DEF QueryFailed, GoTo
  <2> QED  BY <1>17, <2>1, <2>2 DEF Fault
<1>18. CASE Crash
  <2>1. /\ \A t \in Threads : pc'[t] = "idle" /\ answer'[t] = Failure
        /\ UNCHANGED replies
    BY <1>18 DEF Crash, Restart
  <2> QED  BY <1>2, <1>4, <1>5, <2>1 DEF AnswersInv
<1> QED  BY <1>9, <1>10, <1>11, <1>12, <1>13, <1>14, <1>15, <1>16, <1>17, <1>18 DEF Next, Step

(* What a search or a request for a company's info is told is in the tables   *)
(* and about the name it asked for: a closed connection, a lost query or a     *)
(* crash make it an answer without a company, never a false one.             *)
THEOREM DirectoryAnswersAreListed ==
  Spec => [](\A r \in Requests : Answers(r, replies[r]))
<1>1. Init => AnswersInv
  BY DirectoryJobsAssumption, FailureAnswers
     DEF Init, EndpointInit, AnswersInv, Requests, Jobs
<1>2. AnswersInv => \A r \in Requests : Answers(r, replies[r])
  BY DEF AnswersInv
<1> QED  BY <1>1, <1>2, StepAnswersInv, DirectoryInvariant, PTL DEF Spec

-----------------------------------------------------------------------------
(* What becomes of the events. *)

(* Handlers that return have no event of a business account. *)
NoBusinessCommits ==
  /\ \A t \in Threads : pc[t] = "commit" /\ job[t] \in Accounts => job[t].type = "user"
  /\ \A a \in Accounts : status[a] = "done" => a.type = "user"

LEMMA StepNoBusinessCommits == DirectoryInv /\ NoBusinessCommits /\ [Next]_vars => NoBusinessCommits'
<1> SUFFICES ASSUME DirectoryInv, NoBusinessCommits, [Next]_vars PROVE NoBusinessCommits'
  OBVIOUS
<1>t. /\ pc \in [Threads -> AllPlaces \cup {"idle", "waitOne", "open", "close", "release", "commit"}]
      /\ job \in [Threads -> Jobs \cup {NoJob}]
      /\ status \in [Jobs -> {"unsent", "queued", "taken", "done", "error"}]
      /\ Accounts \subseteq Jobs /\ Accounts \cap Requests = {}
  BY DirectoryJobsAssumption DEF DirectoryInv, EndpointInv, EndpointTypeOK, Jobs
<1> USE DEF NoBusinessCommits
(* Steps that complete no message and lead no account to the return. *)
<1>1. ASSUME \A j \in Accounts : status'[j] = "done" => status[j] = "done",
             \A t \in Threads : pc'[t] = "commit" /\ job'[t] \in Accounts
                                => pc[t] = "commit" /\ job'[t] = job[t]
      PROVE  NoBusinessCommits'
  BY <1>1
<1>2. ASSUME NEW t \in Threads, NEW place, GoTo(t, place), UNCHANGED <<status, job>>,
             place = "commit" => job[t] \notin Accounts
      PROVE  NoBusinessCommits'
  BY <1>t, <1>1, <1>2 DEF GoTo
<1>3. ASSUME NEW t \in Threads, Fail(t) PROVE NoBusinessCommits'
  BY <1>t, <1>1, <1>3 DEF Fail, Throw
<1>4. CASE UNCHANGED vars
  BY <1>4 DEF vars, endpointVars
<1>5. ASSUME NEW j \in Jobs, Arrive(j) PROVE NoBusinessCommits'
  BY <1>t, <1>1, <1>5 DEF Arrive, Send
<1>6. ASSUME NEW t \in Threads, NEW j \in Jobs, Handle(t, j) PROVE NoBusinessCommits'
  <2>1. /\ \A v \in Threads : v # t => pc'[v] = pc[v] /\ job'[v] = job[v]
        /\ pc'[t] = "commit" => j \in Accounts /\ j.type = "user"
        /\ job'[t] = j
        /\ \A k \in Accounts : status'[k] = "done" => status[k] = "done"
    BY <1>t, <1>6 DEF Handle, Receive, GoTo
  <2> QED  BY <2>1
<1>7. ASSUME NEW t \in Threads, Enter(t) \/ OpenIt(t) \/ CloseIt(t) \/ CloseAgain(t)
      PROVE  NoBusinessCommits'
  BY <1>2, <1>7 DEF Enter, EnterMutex, OpenIt, OpenConnection, CloseIt, CloseConnection, CloseAgain
<1>8. ASSUME NEW t \in Threads, Leave(t) PROVE NoBusinessCommits'
  BY <1>2, <1>8 DEF Leave, LeaveMutex
<1>9. ASSUME NEW t \in Threads, ReleaseAgain(t) PROVE NoBusinessCommits'
  BY <1>3, <1>9 DEF ReleaseAgain
<1>10. ASSUME NEW t \in Threads, Commit(t) PROVE NoBusinessCommits'
  <2>1. /\ \A v \in Threads : v # t => pc'[v] = pc[v] /\ job'[v] = job[v]
        /\ pc'[t] = "idle" /\ pc[t] = "commit"
        /\ \A k \in Accounts : status'[k] = "done" => status[k] = "done" \/ k = job[t]
    BY <1>t, <1>10 DEF Commit, Return, At
  <2> QED  BY <2>1
<1>11. ASSUME NEW t \in Threads, InsertNewCompany(t) PROVE NoBusinessCommits'
  BY <1>2, <1>11 DEF InsertNewCompany, InsertCompany, InsertLocation, InsertFails, OnlyQueries
<1>12. ASSUME NEW t \in Threads, Reads(t) PROVE NoBusinessCommits'
  BY <1>2, <1>12 DEF Reads, Search, SelectCompany, SelectLocation, ReadFails, OnlyQueries
<1>13. ASSUME NEW t \in Threads, Fault(t) PROVE NoBusinessCommits'
  BY <1>t, <1>2, <1>3, <1>13 DEF Fault, OpenFailed, NotOpened, QueryFailed
<1>14. CASE Crash
  BY <1>t, <1>1, <1>14 DEF Crash, Restart
<1> QED  BY <1>4, <1>5, <1>6, <1>7, <1>8, <1>9, <1>10, <1>11, <1>12, <1>13, <1>14 DEF Next, Step

(* The event of a business account is never handled to the end: whatever the  *)
(* handler did, it ends in the exception of the second closeConnection (or in *)
(* that of an openConnection that failed), so that the event is tried again    *)
(* until it is in the error queue.  Only the events of users, which the        *)
(* handler ignores, are completed.                                           *)
THEOREM BusinessEventsNeverSucceed ==
  Spec => [](\A a \in Accounts : status[a] = "done" => a.type = "user")
<1>1. Init => NoBusinessCommits
  BY DEF Init, EndpointInit, NoBusinessCommits, Jobs
<1>2. NoBusinessCommits => \A a \in Accounts : status[a] = "done" => a.type = "user"
  BY DEF NoBusinessCommits
<1> QED  BY <1>1, <1>2, StepNoBusinessCommits, DirectoryInvariant, PTL DEF Spec

(* One message at a time, and MySQL there throughout. *)
OneThread   == \A t, u \in Threads : t = u
Undisturbed == faults.outages = 0 /\ faults.broken = 0
NeverDied   == faults.crashes = 0

(* A company found in the tables, with its location unless a crash cut in. *)
Listed(n) == n \in company /\ (NeverDied => n \in location)

(* The connection stays open for every query; what a handler has been through *)
(* and what is in the error queue is in the tables; and only the company being *)
(* inserted has no location yet.                                             *)
QueriesOpen == \A t \in Threads : pc[t] \in Querying => connection = "Open"

HandledListed ==
  \A t \in Threads : pc[t] \in {"close", "release"} \cup Stray /\ job[t] \in Accounts
                       => Listed(job[t].username)

OneLocationToCome == NeverDied =>
  \A n \in company :
    n \in location \/ \E t \in Threads : pc[t] = "insertLocation" /\ job[t].username = n

GivenUpListed == \A a \in Accounts : status[a] = "error" => Listed(a.username)

AloneInv == QueriesOpen /\ HandledListed /\ OneLocationToCome /\ GivenUpListed

(* The only thread moves to another place. *)
LEMMA AloneMoves ==
  ASSUME OneThread, DirectoryInv, AloneInv, NEW t \in Threads, NEW place, GoTo(t, place),
         UNCHANGED <<status, job, faults>>, company \subseteq company', location \subseteq location',
         place \in Querying => connection' = "Open",
         place \in {"close", "release"} \cup Stray /\ job[t] \in Accounts => Listed(job[t].username)',
         NeverDied => \A n \in company' :
                        n \in location' \/ (place = "insertLocation" /\ job[t].username = n)
  PROVE  AloneInv'
<1>0. /\ \A v \in Threads : v = t
      /\ pc'[t] = place
      /\ NeverDied' <=> NeverDied
  BY DEF OneThread, GoTo, DirectoryInv, EndpointInv, EndpointTypeOK, NeverDied
<1>1. QueriesOpen'
  BY <1>0 DEF QueriesOpen
<1>2. HandledListed'
  BY <1>0 DEF HandledListed
<1>3. OneLocationToCome'
  BY <1>0 DEF OneLocationToCome
<1>4. GivenUpListed'
  BY <1>0 DEF AloneInv, GivenUpListed, Listed
<1> QED  BY <1>1, <1>2, <1>3, <1>4 DEF AloneInv

(* Its handler throws. *)
LEMMA AloneFails ==
  ASSUME OneThread, DirectoryInv, AloneInv, NEW t \in Threads, Fail(t),
         UNCHANGED <<faults, tables>>, pc[t] # "insertLocation",
         job[t] \in Accounts, Listed(job[t].username)
  PROVE  AloneInv'
<1>0. /\ \A v \in Threads : v = t
      /\ pc'[t] = "idle"
      /\ NeverDied' <=> NeverDied
      /\ UNCHANGED <<company, location>>
      /\ Accounts \subseteq Jobs
  BY DEF OneThread, Fail, Throw, DirectoryInv, EndpointInv, EndpointTypeOK, NeverDied, tables, Jobs
<1>1. QueriesOpen'
  BY <1>0 DEF QueriesOpen, Querying, Inserting, Reading
<1>2. HandledListed'
  BY <1>0 DEF HandledListed, Stray
<1>3. OneLocationToCome'
  BY <1>0 DEF AloneInv, OneLocationToCome
<1>4. GivenUpListed'
  <2>1. ASSUME NEW a \in Accounts, status'[a] = "error" PROVE a = job[t] \/ status[a] = "error"
    BY <1>0, <2>1 DEF Fail, Throw, DirectoryInv, EndpointInv, EndpointTypeOK
  <2> QED  BY <1>0, <2>1 DEF AloneInv, GivenUpListed, Listed
<1> QED  BY <1>1, <1>2, <1>3, <1>4 DEF AloneInv

(* Neither counts a fault. *)
LEMMA StepUndisturbed ==
  ASSUME DirectoryInv, [Next]_vars, Undisturbed'
  PROVE  Undisturbed /\ \A t \in Threads : ~ Fault(t)
<1>0. /\ faults \in Faults
      /\ faults.outages \in Nat /\ faults.broken \in Nat
  BY EndpointAssumption DEF DirectoryInv, EndpointInv, EndpointTypeOK, Faults
<1>1. ASSUME NEW t \in Threads, Fault(t) PROVE FALSE
  BY <1>0, <1>1 DEF Fault, OpenFailed, OpenConnectionFails, QueryFailed, QueryFails, Undisturbed, Faults
<1>2. ASSUME NEW t \in Threads, Step(t) PROVE UNCHANGED faults
  BY <1>2 DEF Step, Handle, Receive, Enter, EnterMutex, OpenIt, OpenConnection, CloseIt, CloseConnection,
     Leave, LeaveMutex, Commit, Return, CloseAgain, ReleaseAgain, InsertNewCompany, InsertCompany,
     InsertLocation, InsertFails, Reads, Search, SelectCompany, SelectLocation, ReadFails, OnlyQueries
<1>3. CASE Crash
  BY <1>0, <1>1, <1>3 DEF Crash, Restart, Undisturbed, Faults
<1> QED  BY <1>1, <1>2, <1>3 DEF Next, Undisturbed, Arrive, Send, vars, endpointVars

LEMMA StepAloneInv ==
  ASSUME OneThread, DirectoryInv, AloneInv, Undisturbed', [Next]_vars
  PROVE  AloneInv'
<1>t. /\ pc \in [Threads -> AllPlaces \cup {"idle", "waitOne", "open", "close", "release", "commit"}]
      /\ job \in [Threads -> Jobs \cup {NoJob}]
      /\ status \in [Jobs -> {"unsent", "queued", "taken", "done", "error"}]
      /\ Accounts \subseteq Jobs /\ Accounts \cap Requests = {}
      /\ faults \in Faults
  BY DirectoryJobsAssumption DEF DirectoryInv, EndpointInv, EndpointTypeOK, Jobs, Faults
<1>c. company \subseteq company' /\ location \subseteq location'
  BY StepRowsStay
<1>p. QueriesOpen /\ HandledListed /\ OneLocationToCome /\ GivenUpListed
  BY DEF AloneInv
(* Between the two INSERTs is the only place where a location is missing. *)
<1>l. ASSUME NEW t \in Threads, pc[t] # "insertLocation", NeverDied PROVE company \subseteq location
  BY <1>p, <1>l DEF OneLocationToCome, OneThread
<1> DEFINE Moves(t, place) == GoTo(t, place) /\ UNCHANGED <<status, job, faults>>
<1>1. ASSUME NEW t \in Threads, NEW place, Moves(t, place), UNCHANGED <<company, location>>,
             pc[t] # "insertLocation", place \in Querying => connection' = "Open",
             place \in {"close", "release"} \cup Stray /\ job[t] \in Accounts =>
               Listed(job[t].username)
      PROVE  AloneInv'
  <2>1. NeverDied => \A n \in company' :
                       n \in location' \/ (place = "insertLocation" /\ job[t].username = n)
    BY <1>1, <1>l
  <2>2. Listed(job[t].username) => Listed(job[t].username)'
    BY <1>1 DEF Listed, NeverDied
  <2> QED  BY <1>1, <1>c, <2>1, <2>2, AloneMoves
<1>2. CASE UNCHANGED vars
  BY <1>2 DEF vars, dbVars, endpointVars, AloneInv, QueriesOpen, HandledListed, OneLocationToCome,
              GivenUpListed, Listed, NeverDied
<1>3. ASSUME NEW j \in Jobs, Arrive(j) PROVE AloneInv'
  <2>1. /\ UNCHANGED <<connection, pc, job, faults, company, location>>
        /\ \A a \in Accounts : status'[a] = "error" => status[a] = "error"
    BY <1>t, <1>3 DEF Arrive, Send, dbVars, tables
  <2> QED  BY <2>1 DEF AloneInv, QueriesOpen, HandledListed, OneLocationToCome, GivenUpListed, Listed, NeverDied
<1>4. ASSUME NEW t \in Threads, NEW j \in Jobs, Handle(t, j) PROVE AloneInv'
  <2>1. /\ pc[t] = "idle" /\ pc'[t] \in {"commit", "waitOne"} /\ \A v \in Threads : v = t
        /\ UNCHANGED <<connection, faults, company, location>>
        /\ \A a \in Accounts : status'[a] = "error" => status[a] = "error"
    BY <1>t, <1>4 DEF Handle, Receive, GoTo, At, dbVars, tables, OneThread
  <2>2. QueriesOpen' /\ HandledListed'
    BY <2>1 DEF QueriesOpen, HandledListed, Querying, Inserting, Reading, Stray
  <2>3. OneLocationToCome' /\ GivenUpListed'
    BY <1>p, <2>1 DEF OneLocationToCome, GivenUpListed, Listed, NeverDied
  <2> QED  BY <2>2, <2>3 DEF AloneInv
<1>5. ASSUME NEW t \in Threads, Enter(t) \/ OpenIt(t) PROVE AloneInv'
  BY <1>1, <1>5 DEF Enter, EnterMutex, OpenIt, OpenConnection, Open, At, tables, Querying, Inserting,
                    Reading, Stray
<1>6. ASSUME NEW t \in Threads, CloseIt(t) \/ Leave(t) \/ CloseAgain(t) PROVE AloneInv'
  <2>1. job[t] \in Accounts => Listed(job[t].username)
    BY <1>p, <1>6 DEF HandledListed, CloseIt, CloseConnection, Leave, LeaveMutex, CloseAgain, At, Stray
  <2> QED  BY <1>1, <1>6, <2>1 DEF CloseIt, CloseConnection, Leave, LeaveMutex, CloseAgain, At, tables,
                                   Querying, Inserting, Reading, Stray
<1>7. ASSUME NEW t \in Threads, ReleaseAgain(t) PROVE AloneInv'
  <2>1. /\ pc[t] = "releaseAgain" /\ job[t] \in Accounts /\ Listed(job[t].username)
        /\ Fail(t) /\ UNCHANGED <<faults, tables>>
    BY <1>p, <1>7 DEF ReleaseAgain, At, DirectoryInv, HandlersOK, HandledListed, Stray, tables
  <2> QED  BY <2>1, AloneFails
<1>8. ASSUME NEW t \in Threads, Commit(t) PROVE AloneInv'
  <2>1. /\ pc[t] = "commit" /\ pc'[t] = "idle" /\ \A v \in Threads : v = t
        /\ UNCHANGED <<connection, faults, company, location>>
        /\ \A a \in Accounts : status'[a] = "error" => status[a] = "error"
    BY <1>t, <1>8 DEF Commit, Return, At, dbVars, tables, OneThread
  <2>2. QueriesOpen' /\ HandledListed'
    BY <2>1 DEF QueriesOpen, HandledListed, Querying, Inserting, Reading, Stray
  <2>3. OneLocationToCome' /\ GivenUpListed'
    BY <1>p, <2>1 DEF OneLocationToCome, GivenUpListed, Listed, NeverDied
  <2> QED  BY <2>2, <2>3 DEF AloneInv
<1>9. ASSUME NEW t \in Threads, InsertNewCompany(t) PROVE AloneInv'
  <2>0. connection = "Open" /\ connection' = "Open" /\ UNCHANGED <<status, job, faults>>
    BY <1>p, <1>9 DEF InsertNewCompany, InsertCompany, InsertLocation, InsertFails, OnlyQueries, dbVars,
       QueriesOpen, At, Querying, Inserting
  <2>1. CASE InsertCompany(t)
    <3>1. /\ company' = company \cup {job[t].username} /\ location' = location
          /\ GoTo(t, "insertLocation") /\ pc[t] # "insertLocation"
      BY <2>1 DEF InsertCompany, At
    <3>2. NeverDied => \A n \in company' : n \in location' \/ job[t].username = n
      BY <1>l, <3>1
    <3> QED  BY <2>0, <3>1, <3>2, <1>c, AloneMoves DEF Stray
  <2>2. CASE InsertLocation(t)
    <3>1. /\ location' = location \cup {job[t].username} /\ company' = company
          /\ GoTo(t, "close") /\ pc[t] = "insertLocation" /\ job[t].username \in company
      BY <2>2 DEF InsertLocation, At, DirectoryInv, HandlersOK
    <3>2. NeverDied => \A n \in company' : n \in location'
      BY <1>p, <3>1 DEF OneLocationToCome, OneThread
    <3>3. Listed(job[t].username)'
      BY <2>0, <3>1 DEF Listed
    <3> QED  BY <2>0, <3>1, <3>2, <3>3, <1>c, AloneMoves DEF Querying, Inserting, Reading
  <2>3. CASE InsertFails(t)
    <3>1. /\ pc[t] = "insertCompany" /\ job[t].username \in company
          /\ GoTo(t, "close") /\ UNCHANGED <<company, location>>
      BY <2>0, <2>3 DEF InsertFails, At
    <3>2. Listed(job[t].username)
      BY <1>l, <3>1 DEF Listed
    <3> QED  BY <1>1, <2>0, <3>1, <3>2 DEF Querying, Inserting, Reading
  <2> QED  BY <1>9, <2>1, <2>2, <2>3 DEF InsertNewCompany
<1>10. ASSUME NEW t \in Threads, Reads(t) PROVE AloneInv'
  <2>1. /\ connection = "Open" /\ connection' = "Open"
        /\ UNCHANGED <<status, job, faults, company, location>>
        /\ job[t] \in Requests /\ pc[t] # "insertLocation"
    BY <1>p, <1>10 DEF Reads, Search, SelectCompany, SelectLocation, ReadFails, OnlyQueries, dbVars, tables,
       QueriesOpen, At, Querying, Reading, DirectoryInv, HandlersOK, Requests
  <2>2. PICK place : GoTo(t, place)
    BY <1>10 DEF Reads, Search, SelectCompany, SelectLocation, ReadFails
  <2> QED  BY <1>1, <1>t, <2>1, <2>2
<1>11. CASE Crash
  <2>1. /\ \A t \in Threads : pc'[t] = "idle"
        /\ UNCHANGED <<company, location>> /\ ~ NeverDied'
        /\ \A a \in Accounts : status'[a] = "error" => status[a] = "error"
    BY <1>t, <1>11, EndpointAssumption DEF Crash, Restart, tables, NeverDied, Faults
  <2> QED  BY <1>p, <2>1 DEF AloneInv, QueriesOpen, HandledListed, OneLocationToCome, GivenUpListed, Listed,
                           Querying, Inserting, Reading, Stray
<1> QED  BY <1>2, <1>3, <1>4, <1>5, <1>6, <1>7, <1>8, <1>9, <1>10, <1>11, StepUndisturbed DEF Next, Step

(* Handled by one thread, and while MySQL can be reached, an event that was   *)
(* given up has its company listed ("This handler will add the newly created  *)
(* account to the list of companies"), and, if the service has not died        *)
(* between the two INSERTs, with its location.  With a second thread neither   *)
(* is so: the second closeConnection of one closes the connection of the other.*)
THEOREM DirectoryListsCompaniesAlone ==
  OneThread =>
    (Spec => [](Undisturbed =>
                  /\ CreatedCompaniesAreListed
                  /\ NeverDied => \A a \in Accounts : status[a] = "error" => a.username \in location))
<1> SUFFICES ASSUME OneThread
             PROVE  Spec => [](Undisturbed =>
                      /\ CreatedCompaniesAreListed
                      /\ NeverDied => \A a \in Accounts : status[a] = "error" => a.username \in location)
  OBVIOUS
<1>1. Init => (Undisturbed => AloneInv)
  BY DEF Init, EndpointInit, AloneInv, QueriesOpen, HandledListed, OneLocationToCome, GivenUpListed,
         Querying, Inserting, Reading, Stray, Jobs
<1>2. DirectoryInv /\ (Undisturbed => AloneInv) /\ [Next]_vars => (Undisturbed => AloneInv)'
  BY StepAloneInv, StepUndisturbed
<1>3. (Undisturbed => AloneInv) =>
        (Undisturbed =>
           /\ CreatedCompaniesAreListed
           /\ NeverDied => \A a \in Accounts : status[a] = "error" => a.username \in location)
  BY DEF AloneInv, GivenUpListed, CreatedCompaniesAreListed, Listed
<1> QED  BY <1>1, <1>2, <1>3, DirectoryInvariant, PTL DEF Spec
=============================================================================
