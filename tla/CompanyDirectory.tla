-------------------------- MODULE CompanyDirectory --------------------------
(***************************************************************************)
(* The Company Directory endpoint: the handler that lists a company when   *)
(* Authentication publishes AccountCreated, and the handlers of company    *)
(* searches and of requests for a company's info, run by the threads of    *)
(* the pool against the one CompanyDirectoryDB object.                     *)
(*                                                                         *)
(* insertNewCompany calls closeConnection twice on every path.  The second *)
(* call is made without the mutex: it closes whatever connection another   *)
(* thread has opened since, and its ReleaseMutex throws.                   *)
(***************************************************************************)
EXTENDS Endpoint

CONSTANTS
  Names,            \* names of users and companies
  Accounts,         \* the accounts AccountCreated is published for
  SearchRequests,   \* the CompanySearchRequests clients may send
  InfoRequests      \* the GetCompanyInfoRequests clients may send

Requests == SearchRequests \cup InfoRequests
Jobs     == Accounts \cup Requests

(* Authentication has created the accounts: its table user has a unique      *)
(* username (and a unique email).                                            *)
ASSUME AccountsAssumption ==
  /\ Accounts \subseteq [username : Names, type : {"user", "business"}]
  /\ \A a, b \in Accounts : a.username = b.username => a = b
ASSUME DirectoryRequestsAssumption ==
  /\ SearchRequests \subseteq [searchDeliminator : Names]
  /\ InfoRequests \subseteq [companyName : Names]
ASSUME DirectoryJobsAssumption ==
  /\ Accounts \cap Requests = {}
  /\ SearchRequests \cap InfoRequests = {}
  /\ NoJob \notin Jobs

VARIABLES
  company,      \* table company: the names in it
  location,     \* table location: the names of the companies with a row in it
  answer,       \* per thread: the response a read is building
  replies       \* the response each answered request got

vars == <<dbVars, endpointVars, company, location, answer, replies>>

Answer  == [result : BOOLEAN, companies : SUBSET Names, locations : SUBSET Names]
Failure == [result |-> FALSE, companies |-> {}, locations |-> {}]

(* The statements of the handlers.  The two INSERTs are sent as one command   *)
(* and executed one after the other.                                         *)
Inserting == {"insertCompany", "insertLocation"}
Reading   == {"search", "selectCompany", "selectLocation"}
Querying  == Inserting \cup Reading

(* The two halves of the second closeConnection of insertNewCompany. *)
Stray == {"closeAgain", "releaseAgain"}

TypeOK ==
  /\ EndpointTypeOK(Jobs, Querying \cup Stray)
  /\ company \subseteq Names
  /\ location \subseteq Names
  /\ answer \in [Threads -> Answer]
  /\ replies \in [Requests -> Answer]

Init ==
  /\ EndpointInit(Jobs)
  /\ company = {}
  /\ location = {}
  /\ answer = [t \in Threads |-> Failure]
  /\ replies = [r \in Requests |-> Failure]

tables == <<company, location>>
ForgetAnswer(t) == answer' = [answer EXCEPT ![t] = Failure]

(* What a step that only reads or writes the tables leaves alone. *)
OnlyQueries == UNCHANGED <<dbVars, status, attempts, job, faults, replies>>

-----------------------------------------------------------------------------
(* Mutants *)

InsertLocationFirst(t) ==
  /\ At(t, "insertCompany")
  /\ connection = "Open"
  /\ job[t].username \notin company
  /\ location' = location \cup {job[t].username}
  /\ GoTo(t, "insertLocation")
  /\ OnlyQueries
  /\ UNCHANGED <<company, answer>>

-----------------------------------------------------------------------------
Arrive(j) == Send(j) /\ UNCHANGED <<tables, answer, replies>>

(* AccountCreated of a user account is ignored; the other handlers begin     *)
(* with openConnection.                                                      *)
Handle(t, j) ==
  /\ Receive(t, j)
  /\ GoTo(t, IF j \in Accounts /\ j.type = "user" THEN "commit" ELSE "waitOne")
  /\ UNCHANGED <<tables, answer, replies>>

Fail(t) == Throw(t) /\ ForgetAnswer(t)

(* openConnection returned false: insertNewCompany returns false, at which   *)
(* the handler throws; a read replies failure.                               *)
NotOpened(t) ==
  \/ job[t] \in Accounts /\ Fail(t)
  \/ job[t] \in Requests /\ GoTo(t, "commit") /\ UNCHANGED <<status, attempts, job, answer>>

Enter(t) == EnterMutex(t) /\ UNCHANGED <<tables, answer, replies>>

OpenIt(t) ==
  /\ OpenConnection(t, IF job[t] \in Accounts THEN "insertCompany"
                       ELSE IF job[t] \in SearchRequests THEN "search" ELSE "selectCompany")
  /\ UNCHANGED <<tables, answer, replies>>

OpenFailed(t) == OpenConnectionFails(t) /\ NotOpened(t) /\ UNCHANGED <<tables, replies>>

CloseIt(t) == CloseConnection(t) /\ UNCHANGED <<tables, answer, replies>>

Leave(t) ==
  /\ LeaveMutex(t, IF job[t] \in Accounts THEN "closeAgain" ELSE "commit")
  /\ UNCHANGED <<tables, answer, replies>>

(* The second closeConnection: connection.Close() first ... *)
CloseAgain(t) ==
  /\ At(t, "closeAgain")
  /\ Close
  /\ GoTo(t, "releaseAgain")
  /\ UNCHANGED <<status, attempts, job, faults, tables, answer, replies>>

(* Mutant: a lock that anyone may release. *)
ReleaseAgainAnyones(t) ==
  /\ At(t, "releaseAgain")
  /\ mutex' = FreeMutex
  /\ Fail(t)
  /\ UNCHANGED <<connection, faults, tables, replies>>

(* ... then ReleaseMutex() by a thread that does not own the mutex, which    *)
(* throws an ApplicationException that nothing catches.                      *)
ReleaseAgain(t) ==
  /\ At(t, "releaseAgain")
  /\ ~ Holds(t)
  /\ Fail(t)
  /\ UNCHANGED <<dbVars, faults, tables, replies>>

Commit(t) ==
  /\ Return(t)
  /\ replies' = [r \in Requests |-> IF r = job[t] THEN answer[t] ELSE replies[r]]
  /\ ForgetAnswer(t)
  /\ UNCHANGED tables

-----------------------------------------------------------------------------
(* insertNewCompany *)

InsertCompany(t) ==
  /\ At(t, "insertCompany")
  /\ connection = "Open"
  /\ job[t].username \notin company
  /\ company' = company \cup {job[t].username}
  /\ GoTo(t, "insertLocation")
  /\ OnlyQueries
  /\ UNCHANGED <<location, answer>>

InsertLocation(t) ==
  /\ At(t, "insertLocation")
  /\ connection = "Open"
  /\ location' = location \cup {job[t].username}
  /\ GoTo(t, "close")
  /\ OnlyQueries
  /\ UNCHANGED <<company, answer>>

(* The company is there already, or the connection has been closed.  Either  *)
(* exception is caught and leads to closeConnection.  Closed while the        *)
(* command runs, the second INSERT may still be executed.                    *)
InsertFails(t) ==
  /\ \/ At(t, "insertCompany") /\ job[t].username \in company /\ UNCHANGED location
     \/ At(t, "insertCompany") /\ connection = "Closed" /\ UNCHANGED location
     \/ /\ At(t, "insertLocation") /\ connection = "Closed"
        /\ location' \in {location, location \cup {job[t].username}}
  /\ GoTo(t, "close")
  /\ OnlyQueries
  /\ UNCHANGED <<company, answer>>

-----------------------------------------------------------------------------
(* searchByName and getCompanyInfo *)

Search(t) ==
  /\ At(t, "search")
  /\ connection = "Open"
  /\ answer' = [answer EXCEPT ![t] =
       [result |-> TRUE, companies |-> company \cap {job[t].searchDeliminator}, locations |-> {}]]
  /\ GoTo(t, "close")
  /\ OnlyQueries
  /\ UNCHANGED tables

(* No such company: the response is a failure, and finally closes. *)
SelectCompany(t) ==
  /\ At(t, "selectCompany")
  /\ connection = "Open"
  /\ GoTo(t, IF job[t].companyName \in company THEN "selectLocation" ELSE "close")
  /\ OnlyQueries
  /\ UNCHANGED <<tables, answer>>

SelectLocation(t) ==
  /\ At(t, "selectLocation")
  /\ connection = "Open"
  /\ LET name == job[t].companyName IN
     answer' = [answer EXCEPT ![t] =
       [result |-> TRUE, companies |-> {name}, locations |-> location \cap {name}]]
  /\ GoTo(t, "close")
  /\ OnlyQueries
  /\ UNCHANGED tables

(* Any exception of a read is caught and its text becomes the response. *)
ReadFails(t) ==
  /\ pc[t] \in Reading
  /\ connection = "Closed"
  /\ GoTo(t, "close")
  /\ OnlyQueries
  /\ UNCHANGED <<tables, answer>>

(* MySQL is lost during a query; an INSERT may have been executed.           *)
QueryFailed(t) ==
  /\ QueryFails(t, Querying)
  /\ GoTo(t, "close")
  /\ \/ UNCHANGED tables
     \/ At(t, "insertCompany") /\ company' = company \cup {job[t].username} /\ UNCHANGED location
     \/ At(t, "insertLocation") /\ location' = location \cup {job[t].username} /\ UNCHANGED company
  /\ UNCHANGED <<status, attempts, job, answer, replies>>

Crash ==
  /\ Restart
  /\ answer' = [t \in Threads |-> Failure]
  /\ UNCHANGED <<tables, replies>>

-----------------------------------------------------------------------------
InsertNewCompany(t) == InsertCompany(t) \/ InsertLocation(t) \/ InsertFails(t)
Reads(t) == Search(t) \/ SelectCompany(t) \/ SelectLocation(t) \/ ReadFails(t)

Step(t) ==
  \/ \E j \in Jobs : Handle(t, j)
  \/ Enter(t) \/ OpenIt(t) \/ CloseIt(t) \/ Leave(t) \/ Commit(t)
  \/ CloseAgain(t) \/ ReleaseAgain(t)
  \/ InsertNewCompany(t) \/ Reads(t)

Fault(t) == OpenFailed(t) \/ QueryFailed(t)

Next ==
  \/ \E j \in Jobs : Arrive(j)
  \/ \E t \in Threads : Step(t) \/ Fault(t)
  \/ Crash
  \/ Finished /\ UNCHANGED vars

Spec == Init /\ [][Next]_vars

(* The pool keeps running every thread that can move. *)
FairSpec == Spec /\ \A t \in Threads : WF_vars(Step(t))

-----------------------------------------------------------------------------
(* Properties *)

(* Between WaitOne and ReleaseMutex a handler owns the mutex, in spite of    *)
(* the releases of threads that do not.                                      *)
MutualExclusion == Owned(Querying)

(* No path through a handler leaves the mutex with a thread that is done:    *)
(* the retirement of idle threads can abandon nothing here.                  *)
MutexReleasedByEveryHandler ==
  \A t \in Threads : Holds(t) => pc[t] \in Locked(Querying)

(* A company without a row in location can be left behind, a location        *)
(* without its company cannot.                                               *)
NoLocationWithoutCompany == location \subseteq company

(* "This handler will add the newly created account to the list of companies *)
(* upon the creation of a business account": once it has given up, the        *)
(* company is listed.                                                        *)
CreatedCompaniesAreListed ==
  \A a \in Accounts : a.type = "business" /\ status[a] = "error" => a.username \in company

(* Every request is answered and every event is handled or moved to the      *)
(* error queue: whatever fails, no handler waits for the mutex for ever.     *)
EveryMessageSettles ==
  /\ \A r \in Requests : status[r] = "queued" ~> status[r] = "done"
  /\ \A a \in Accounts : status[a] = "queued" ~> status[a] \in {"done", "error"}
=============================================================================
