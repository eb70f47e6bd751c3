-------------------- MODULE AuthenticationServiceProofs --------------------
(***************************************************************************)
(* Theorems about AuthenticationService, for any number of connections and *)
(* users and any number of faults.                                         *)
(***************************************************************************)
EXTENDS AuthenticationService, TLAPS

USE DEF request

Faults == [asks : 0 .. MaxAsks, crashes : 0 .. MaxCrashes, outages : 0 .. MaxOutages,
           broken : 0 .. MaxBrokenQueries]

(* The mutex is entered once at a time and never abandoned, and the           *)
(* connection is closed before the mutex is released.                         *)
MutexInv ==
  /\ DatabaseIsHandedOn
  /\ mutex.depth \in {0, 1}
  /\ ~ mutex.abandoned
  /\ \A c \in Connections : At(c, "release") => connection = "Closed"

(* c is served as a client that has logged in.                                *)
Admitted(c) ==
  \/ c \in endpoints \cup asked \cup replies
  \/ pc[c] \in {"startEndpoint", "listen", "await", "answer"}

(* What a thread has to tell its client, and has told him, is what the        *)
(* database said; an event is published, and a client admitted, only after it *)
(* said yes.                                                                  *)
Answered(c) ==
  /\ result[c] = TRUE => Valid(c)
  /\ result[c] = TRUE /\ Kind[c] = "create" => c \in accounts
  /\ TRUE \in told[c] \/ authenticated[c] = TRUE => result[c] = TRUE
  /\ Admitted(c) => result[c] = TRUE
  /\ pc[c] \in Locked \cup {"new", "waitOne"} =>
       told[c] = {} /\ authenticated[c] = FALSE /\ ~ Admitted(c)
  /\ Kind[c] = "create" /\ pc[c] \in {"startEndpoint", "publish"} => c \in accounts
  /\ Kind[c] = "create" /\ c \in announced \cup publishing => c \in accounts

AnswersInv == \A c \in Connections : Answered(c)

(* Neither a name nor an e-mail address is stored twice. *)
UniqueInv ==
  \A c, d \in accounts : UserOf[c] = UserOf[d] \/ email[c] = email[d] => c = d

AuthenticationInv == TypeOK /\ MutexInv /\ AnswersInv /\ UniqueInv

-----------------------------------------------------------------------------
LEMMA InitInv == Init => AuthenticationInv
<1> SUFFICES ASSUME Init PROVE AuthenticationInv
  OBVIOUS
<1>1. TypeOK
  BY FaultsAssumption, RequestsAssumption DEF Init, TypeOK, DbInit, DbTypeOK, FreeMutex
<1>2. MutexInv
  BY NoThreadAssumption
     DEF Init, DbInit, FreeMutex, MutexInv, DatabaseIsHandedOn, Holds, Locked, At, Connections
<1>3. AnswersInv /\ UniqueInv
  BY DEF Init, AnswersInv, Answered, Admitted, UniqueInv
<1> QED  BY <1>1, <1>2, <1>3 DEF AuthenticationInv

(* Counting a fault stays within its bound. *)
LEMMA Counted ==
  ASSUME TypeOK,
         \/ Count("asks", MaxAsks) \/ Count("crashes", MaxCrashes)
         \/ Count("outages", MaxOutages) \/ Count("broken", MaxBrokenQueries)
  PROVE  faults' \in Faults
<1>1. faults \in Faults
  BY DEF TypeOK, Faults
<1>2. CASE Count("asks", MaxAsks)
  <2>1. faults.asks + 1 \in 0 .. MaxAsks
    BY <1>1, <1>2, FaultsAssumption DEF Count, Faults
  <2> QED  BY <1>1, <1>2, <2>1 DEF Count, Faults
<1>3. CASE Count("crashes", MaxCrashes)
  <2>1. faults.crashes + 1 \in 0 .. MaxCrashes
    BY <1>1, <1>3, FaultsAssumption DEF Count, Faults
  <2> QED  BY <1>1, <1>3, <2>1 DEF Count, Faults
<1>4. CASE Count("outages", MaxOutages)
  <2>1. faults.outages + 1 \in 0 .. MaxOutages
    BY <1>1, <1>4, FaultsAssumption DEF Count, Faults
  <2> QED  BY <1>1, <1>4, <2>1 DEF Count, Faults
<1>5. CASE Count("broken", MaxBrokenQueries)
  <2>1. faults.broken + 1 \in 0 .. MaxBrokenQueries
    BY <1>1, <1>5, FaultsAssumption DEF Count, Faults
  <2> QED  BY <1>1, <1>5, <2>1 DEF Count, Faults
<1> QED  BY <1>2, <1>3, <1>4, <1>5

(* One entry of the mutex: whoever owns it leaves it free when he releases it. *)
LEMMA Released ==
  ASSUME AuthenticationInv, NEW c \in Connections, ReleaseMutex(c)
  PROVE  mutex' = FreeMutex
BY NoThreadAssumption
   DEF AuthenticationInv, TypeOK, DbTypeOK, MutexInv, ReleaseMutex, Holds, Connections

LEMMA Entered ==
  ASSUME AuthenticationInv, NEW c \in Connections, At(c, "waitOne"), WaitOne(c)
  PROVE  /\ mutex.owner = NoThread
         /\ mutex' = [owner |-> c, depth |-> 1, abandoned |-> FALSE]
<1>1. mutex.owner = NoThread
  BY NoThreadAssumption
     DEF AuthenticationInv, MutexInv, DatabaseIsHandedOn, At, Locked, WaitOne, Holds
<1>2. mutex.depth = 0
  BY <1>1 DEF AuthenticationInv, TypeOK, DbTypeOK
<1> QED  BY <1>1, <1>2 DEF WaitOne

-----------------------------------------------------------------------------
(* Types. *)
LEMMA TypeStep ==
  ASSUME AuthenticationInv, NEW c \in Connections
  PROVE  /\ Accept(c) \/ Handling(c) \/ OpenConnectionFails(c) \/ QueryFails(c) => TypeOK'
         /\ Published(c) \/ Ask(c) \/ ServiceReplies(c) \/ TakingReply(c) => TypeOK'
<1> USE DEF AuthenticationInv
<1>1. ASSUME Accept(c) \/ Reply(c) \/ AnswerClient(c) PROVE TypeOK'
  BY <1>1 DEF Accept, Reply, AnswerClient, At, GoTo, TypeOK, Working, Locked, dbVars, DbTypeOK,
              threadVars, busVars
<1>2. ASSUME EnterMutex(c) PROVE TypeOK'
  <2>1. DbTypeOK'
    BY <1>2, Entered, NoThreadAssumption DEF EnterMutex, WaitOne, TypeOK, DbTypeOK, Connections
  <2> QED  BY <1>2, <2>1 DEF EnterMutex, At, GoTo, TypeOK, Working, Locked, busVars
<1>3. ASSUME OpenConnection(c) \/ CloseConnection(c) PROVE TypeOK'
  <2>1. DbTypeOK'
    BY <1>3 DEF OpenConnection, CloseConnection, Open, Close, TypeOK, DbTypeOK
  <2> QED  BY <1>3, <2>1 DEF OpenConnection, CloseConnection, At, GoTo, TypeOK, Working, Locked, busVars
<1>4. ASSUME OpenConnectionFails(c) PROVE TypeOK'
  <2>1. mutex' = FreeMutex /\ UNCHANGED connection
    BY <1>4, Released DEF OpenConnectionFails, OpenFails, ReleaseMutex
  <2>2. DbTypeOK'
    BY <2>1 DEF FreeMutex, TypeOK, DbTypeOK
  <2>3. faults' \in Faults
    BY <1>4, Counted DEF OpenConnectionFails
  <2> QED  BY <1>4, <2>2, <2>3 DEF OpenConnectionFails, Decide, GoTo, TypeOK, Working, Faults, busVars
<1>5. ASSUME Insert(c) \/ Select(c) PROVE TypeOK'
  <2>1. Clashes(c) \in BOOLEAN /\ Valid(c) \in BOOLEAN
    BY DEF Clashes, Valid
  <2>2. CASE Insert(c)
    BY <2>1, <2>2 DEF Insert, GoTo, TypeOK, Working, Locked, dbVars, DbTypeOK, busVars
  <2>3. CASE Select(c)
    BY <2>1, <2>3 DEF Select, GoTo, TypeOK, Working, Locked, dbVars, DbTypeOK, busVars
  <2> QED  BY <1>5, <2>2, <2>3
<1>6. ASSUME QueryFails(c) PROVE TypeOK'
  <2>1. DbTypeOK'
    BY <1>6 DEF QueryFails, QueryBreaks, TypeOK, DbTypeOK
  <2>2. faults' \in Faults
    BY <1>6, Counted DEF QueryFails
  <2> QED  BY <1>6, <2>1, <2>2 DEF QueryFails, GoTo, TypeOK, Working, Locked, Faults, busVars
<1>7. ASSUME LeaveMutex(c) PROVE TypeOK'
  <2>1. mutex' = FreeMutex /\ UNCHANGED connection
    BY <1>7, Released DEF LeaveMutex, ReleaseMutex
  <2>2. DbTypeOK'
    BY <2>1 DEF FreeMutex, TypeOK, DbTypeOK
  <2> QED  BY <1>7, <2>2 DEF LeaveMutex, Decide, GoTo, TypeOK, Working, busVars
<1>8. ASSUME StartEndpoint(c) \/ Publish(c) PROVE TypeOK'
  BY <1>8 DEF StartEndpoint, Publish, GoTo, TypeOK, Working, dbVars, DbTypeOK
<1>9. ASSUME Published(c) \/ ServiceReplies(c) PROVE TypeOK'
  BY <1>9 DEF Published, ServiceReplies, TypeOK, dbVars, DbTypeOK, threadVars
<1>10. ASSUME Ask(c) PROVE TypeOK'
  <2>1. faults' \in Faults
    BY <1>10, Counted DEF Ask
  <2> QED  BY <1>10, <2>1 DEF Ask, GoTo, TypeOK, dbVars, DbTypeOK, Faults
<1>11. ASSUME TakingReply(c) PROVE TypeOK'
  <2>1. PICK e \in Connections : TakeReply(e, c)
    BY <1>11 DEF TakingReply
  <2>2. pc' \in [Connections -> Working \cup {"new", "listen", "await", "answer", "ended"}]
    BY <2>1 DEF TakeReply, GoTo, TypeOK
  <2> QED  BY <2>1, <2>2 DEF TakeReply, TypeOK, dbVars, DbTypeOK
<1> QED  BY <1>1, <1>2, <1>3, <1>4, <1>5, <1>6, <1>7, <1>8, <1>9, <1>10, <1>11 DEF Handling

-----------------------------------------------------------------------------
(* The mutex. *)

(* A step of c outside the locked places that leaves the mutex alone.         *)
LEMMA OutsideStep ==
  ASSUME AuthenticationInv, NEW c \in Connections, NEW place,
         pc[c] \notin Locked, place \notin Locked,
         pc' = pc \/ GoTo(c, place), UNCHANGED dbVars
  PROVE  MutexInv'
BY DEF AuthenticationInv, MutexInv, TypeOK, DatabaseIsHandedOn, GoTo, At, Holds, dbVars, Locked

(* A step of c, which owns the mutex, from one locked place to another.       *)
LEMMA InsideStep ==
  ASSUME AuthenticationInv, NEW c \in Connections, NEW place \in Locked,
         pc[c] \in Locked, GoTo(c, place), mutex' = mutex,
         place = "release" => connection' = "Closed"
  PROVE  MutexInv'
<1> USE DEF AuthenticationInv, MutexInv, DatabaseIsHandedOn, Holds
<1>1. mutex.owner = c /\ mutex.owner # NoThread
  BY NoThreadAssumption DEF Connections
<1>2. \A d \in Connections : pc'[d] = IF d = c THEN place ELSE pc[d]
  BY DEF GoTo, TypeOK
<1>3. \A d \in Connections : d # c => pc[d] \notin Locked
  BY <1>1
<1>4. "release" \in Locked
  BY DEF Locked
<1> QED  BY <1>1, <1>2, <1>3, <1>4 DEF At

(* c gives the mutex back, with the connection closed.                        *)
LEMMA LeavingStep ==
  ASSUME AuthenticationInv, NEW c \in Connections, NEW place,
         pc[c] \in Locked, place \notin Locked, GoTo(c, place),
         ReleaseMutex(c), connection = "Closed"
  PROVE  MutexInv'
<1> USE DEF AuthenticationInv, MutexInv, DatabaseIsHandedOn, Holds
<1>1. mutex' = FreeMutex /\ connection' = "Closed"
  BY Released DEF ReleaseMutex
<1>2. \A d \in Connections : pc'[d] = IF d = c THEN place ELSE pc[d]
  BY DEF GoTo, TypeOK
<1>3. \A d \in Connections : d # c => pc[d] \notin Locked
  OBVIOUS
<1> QED  BY <1>1, <1>2, <1>3, NoThreadAssumption DEF At, FreeMutex, Locked, Connections

LEMMA MutexStep ==
  ASSUME AuthenticationInv, NEW c \in Connections
  PROVE  /\ Accept(c) \/ Handling(c) \/ OpenConnectionFails(c) \/ QueryFails(c) => MutexInv'
         /\ Published(c) \/ Ask(c) \/ ServiceReplies(c) \/ TakingReply(c) => MutexInv'
<1>1. ASSUME Accept(c) PROVE MutexInv'
  BY <1>1, OutsideStep DEF Accept, At, Locked
<1>2. ASSUME EnterMutex(c) PROVE MutexInv'
  <2> USE DEF AuthenticationInv, MutexInv, DatabaseIsHandedOn, Holds
  <2>1. /\ mutex.owner = NoThread
        /\ mutex' = [owner |-> c, depth |-> 1, abandoned |-> FALSE]
    BY <1>2, Entered DEF EnterMutex
  <2>2. \A d \in Connections : pc'[d] = IF d = c THEN "open" ELSE pc[d]
    BY <1>2 DEF EnterMutex, GoTo, TypeOK
  <2>3. \A d \in Connections : pc[d] \notin Locked
    BY <2>1, NoThreadAssumption DEF Connections
  <2> QED  BY <2>1, <2>2, <2>3, NoThreadAssumption DEF At, Locked, Connections
<1>3. ASSUME OpenConnection(c) PROVE MutexInv'
  BY <1>3, InsideStep DEF OpenConnection, Open, At, Locked
<1>4. ASSUME OpenConnectionFails(c) PROVE MutexInv'
  <2>1. PICK place \in {"startEndpoint", "publish", "reply"} : GoTo(c, place)
    BY <1>4 DEF OpenConnectionFails, Decide
  <2> QED  BY <1>4, <2>1, LeavingStep DEF OpenConnectionFails, OpenFails, At, Locked
<1>5. ASSUME Insert(c) \/ Select(c) PROVE MutexInv'
  BY <1>5, InsideStep DEF Insert, Select, At, Locked, dbVars
<1>6. ASSUME QueryFails(c) PROVE MutexInv'
  BY <1>6, InsideStep DEF QueryFails, QueryBreaks, At, Locked
<1>7. ASSUME CloseConnection(c) PROVE MutexInv'
  BY <1>7, InsideStep DEF CloseConnection, Close, At, Locked
<1>8. ASSUME LeaveMutex(c) PROVE MutexInv'
  <2>1. PICK place \in {"startEndpoint", "publish", "reply"} : GoTo(c, place)
    BY <1>8 DEF LeaveMutex, Decide
  <2>2. connection = "Closed"
    BY <1>8 DEF LeaveMutex, AuthenticationInv, MutexInv
  <2> QED  BY <1>8, <2>1, <2>2, LeavingStep DEF LeaveMutex, At, Locked
<1>9. ASSUME StartEndpoint(c) \/ Publish(c) \/ Reply(c) \/ AnswerClient(c) \/ Ask(c) PROVE MutexInv'
  <2>1. PICK place \in {"publish", "reply", "listen", "ended", "await"} : GoTo(c, place)
    BY <1>9 DEF StartEndpoint, Publish, Reply, AnswerClient, Ask
  <2> QED  BY <1>9, <2>1, OutsideStep
           DEF StartEndpoint, Publish, Reply, AnswerClient, Ask, At, Locked
<1>10. ASSUME Published(c) \/ ServiceReplies(c) PROVE MutexInv'
  BY <1>10 DEF Published, ServiceReplies, dbVars, threadVars, AuthenticationInv, MutexInv,
               DatabaseIsHandedOn, Holds, At
<1>11. ASSUME TakingReply(c) PROVE MutexInv'
  <2>1. PICK e \in Connections : TakeReply(e, c)
    BY <1>11 DEF TakingReply
  <2>2. CASE At(c, "await")
    BY <2>1, <2>2, OutsideStep DEF TakeReply, At, Locked
  <2>3. CASE ~ At(c, "await")
    BY <2>1, <2>3 DEF TakeReply, dbVars, AuthenticationInv, MutexInv, DatabaseIsHandedOn, Holds, At
  <2> QED  BY <2>2, <2>3
<1> QED  BY <1>1, <1>2, <1>3, <1>4, <1>5, <1>6, <1>7, <1>8, <1>9, <1>10, <1>11 DEF Handling

-----------------------------------------------------------------------------
(* Accounts, answers and events. *)

(* A step of c answers for no other connection.                               *)
LEMMA OthersAnswered ==
  ASSUME AuthenticationInv, NEW c \in Connections, NEW d \in Connections, d # c,
         accounts \subseteq accounts',
         password' = password, UNCHANGED <<result[d], authenticated[d], told[d]>>, pc'[d] = pc[d],
         d \in endpoints' \cup asked' \cup replies' => d \in endpoints \cup asked \cup replies,
         d \in announced' \cup publishing' => d \in announced \cup publishing
  PROVE  Answered(d)'
BY DEF AuthenticationInv, AnswersInv, Answered, Admitted, Valid

(* Nor does a step of c change its answer, unless the database gives it.      *)
LEMMA StillAnswered ==
  ASSUME AuthenticationInv, NEW c \in Connections,
         \A d \in Connections \ {c} : pc'[d] = pc[d],
         accounts \subseteq accounts',
         password' = password, result' = result, authenticated' = authenticated, told' = told,
         Admitted(c)' => Admitted(c),
         \A d \in Connections \ {c} :
           d \in endpoints' \cup asked' \cup replies' => d \in endpoints \cup asked \cup replies,
         pc'[c] \in Locked \cup {"new", "waitOne"} => pc[c] \in Locked \cup {"new", "waitOne"},
         Kind[c] = "create" /\ pc'[c] \in {"startEndpoint", "publish"} => c \in accounts,
         announced' \subseteq announced \cup publishing,
         publishing' \subseteq publishing \cup {c},
         Kind[c] = "create" /\ c \in announced' \cup publishing' => c \in accounts
  PROVE  AnswersInv'
<1>1. Valid(c) => Valid(c)'
  BY DEF Valid
<1>2. Answered(c)
  BY DEF AuthenticationInv, AnswersInv
<1>3. Answered(c)'
  BY <1>1, <1>2 DEF Answered
<1>4. ASSUME NEW d \in Connections, d # c PROVE Answered(d)'
  BY <1>4, OthersAnswered
<1> QED  BY <1>3, <1>4 DEF AnswersInv

(* The database answers c, or c decides what the answer means.                *)
LEMMA NewlyAnswered ==
  ASSUME AuthenticationInv, NEW c \in Connections, NEW place, GoTo(c, place),
         accounts \subseteq accounts', accounts' \subseteq Connections,
         UNCHANGED <<password, told, announced, publishing, endpoints, asked, replies>>,
         \A d \in Connections \ {c} : UNCHANGED <<result[d], authenticated[d]>>,
         told[c] = {}, ~ Admitted(c),
         result'[c] = TRUE => Valid(c)' /\ (Kind[c] = "create" => c \in accounts'),
         authenticated'[c] = TRUE => result'[c] = TRUE,
         place \in Locked => authenticated'[c] = FALSE,
         place \notin {"new", "waitOne", "listen", "await", "answer"},
         (place = "startEndpoint" \/ (place = "publish" /\ Kind[c] = "create")) => result'[c] = TRUE
  PROVE  AnswersInv'
<1>1. pc'[c] = place /\ \A d \in Connections \ {c} : pc'[d] = pc[d]
  BY DEF AuthenticationInv, TypeOK, GoTo
<1>2. Kind[c] = "create" /\ c \in announced \cup publishing => c \in accounts
  BY DEF AuthenticationInv, AnswersInv, Answered
<1>3. Answered(c)'
  <2>1. Admitted(c)' <=> place = "startEndpoint"
    BY <1>1 DEF Admitted
  <2>2. "startEndpoint" \notin Locked
    BY DEF Locked
  <2> QED  BY <1>1, <1>2, <2>1, <2>2 DEF Answered
<1>4. ASSUME NEW d \in Connections, d # c PROVE Answered(d)'
  BY <1>1, <1>4, OthersAnswered
<1> QED  BY <1>3, <1>4 DEF AnswersInv

LEMMA AccountsStep ==
  ASSUME AuthenticationInv, NEW c \in Connections
  PROVE  /\ Accept(c) \/ Handling(c) \/ OpenConnectionFails(c) \/ QueryFails(c)
               => AnswersInv' /\ UniqueInv'
         /\ Published(c) \/ Ask(c) \/ ServiceReplies(c) \/ TakingReply(c)
               => AnswersInv' /\ UniqueInv'
<1> USE DEF AuthenticationInv
<1>a. Answered(c)
  BY DEF AnswersInv
<1>b. /\ result[c] \in BOOLEAN /\ authenticated[c] \in BOOLEAN /\ accounts \subseteq Connections
      /\ Valid(c) \in BOOLEAN /\ Clashes(c) \in BOOLEAN
  BY DEF TypeOK, Valid, Clashes
<1>1. ASSUME Accept(c) \/ EnterMutex(c) \/ OpenConnection(c) \/ CloseConnection(c) \/ AnswerClient(c)
      PROVE  AnswersInv' /\ UniqueInv'
  <2>1. UniqueInv'
    BY <1>1 DEF Accept, EnterMutex, OpenConnection, CloseConnection, AnswerClient, UniqueInv
  <2>2. PICK place \in {"waitOne", "open", "query", "release", "listen"} : GoTo(c, place)
    BY <1>1 DEF Accept, EnterMutex, OpenConnection, CloseConnection, AnswerClient
  <2>3. place # "listen" => pc[c] \in Locked \cup {"new", "waitOne"}
    BY <1>1, <2>2 DEF Accept, EnterMutex, OpenConnection, CloseConnection, AnswerClient, At, GoTo,
                      TypeOK, Locked
  <2>4. /\ UNCHANGED <<accounts, password, result, authenticated, told, announced, publishing>>
        /\ UNCHANGED <<endpoints, asked, replies>>
    BY <1>1 DEF Accept, EnterMutex, OpenConnection, CloseConnection, AnswerClient, busVars
  <2>5. place \notin {"startEndpoint", "publish"} /\ "listen" \notin Locked \cup {"new", "waitOne"}
    BY DEF Locked
  <2>6. Kind[c] = "create" /\ c \in announced \cup publishing => c \in accounts
    BY <1>a DEF Answered
  <2>7. pc'[c] = place /\ \A d \in Connections \ {c} : pc'[d] = pc[d]
    BY <2>2 DEF GoTo, TypeOK
  <2>8. place = "listen" => pc[c] = "answer"
    BY <1>1, <2>2, <2>7 DEF Accept, EnterMutex, OpenConnection, CloseConnection, AnswerClient, At,
                            GoTo, TypeOK
  <2>9. Admitted(c)' => Admitted(c)
    BY <2>4, <2>7, <2>8 DEF Admitted
  <2>10. AnswersInv'
    BY <2>3, <2>4, <2>5, <2>6, <2>7, <2>9, StillAnswered
  <2> QED  BY <2>1, <2>10
<1>2. ASSUME Insert(c) PROVE AnswersInv' /\ UniqueInv'
  <2>1. UniqueInv'
    BY <1>2 DEF Insert, Clashes, UniqueInv
  <2>2. /\ accounts \subseteq accounts' /\ accounts' \subseteq Connections
        /\ UNCHANGED <<told, announced, publishing, authenticated, email, password>>
        /\ UNCHANGED <<endpoints, asked, replies>> /\ GoTo(c, "close")
        /\ told[c] = {} /\ authenticated[c] = FALSE /\ ~ Admitted(c)
    BY <1>2, <1>a, <1>b DEF Insert, At, busVars, Answered, Locked
  <2>3. \A d \in Connections \ {c} : result'[d] = result[d]
    BY <1>2 DEF Insert, TypeOK
  <2>4. result'[c] = TRUE => c \in accounts'
    BY <1>2, <1>b DEF Insert, TypeOK
  <2>5. result'[c] = TRUE => Valid(c)'
    BY <2>4 DEF Valid
  <2> QED  BY <2>1, <2>2, <2>3, <2>4, <2>5, NewlyAnswered
<1>3. ASSUME Select(c) PROVE AnswersInv' /\ UniqueInv'
  <2>1. UniqueInv'
    BY <1>3 DEF Select, UniqueInv
  <2>2. /\ UNCHANGED <<accounts, password, told, announced, publishing, authenticated>>
        /\ UNCHANGED <<endpoints, asked, replies>> /\ GoTo(c, "close")
        /\ told[c] = {} /\ authenticated[c] = FALSE /\ ~ Admitted(c) /\ Kind[c] # "create"
    BY <1>3, <1>a, <1>b DEF Select, At, busVars, Answered, Locked
  <2>3. \A d \in Connections \ {c} : result'[d] = result[d]
    BY <1>3 DEF Select, TypeOK
  <2>4. result'[c] = Valid(c)
    BY <1>3, <1>b DEF Select, TypeOK
  <2>5. result'[c] = TRUE => Valid(c)'
    BY <2>2, <2>4 DEF Valid
  <2> QED  BY <1>b, <2>1, <2>2, <2>3, <2>4, <2>5, NewlyAnswered
<1>4. ASSUME NEW outcome \in BOOLEAN, Decide(c, outcome), outcome = TRUE => result[c] = TRUE,
             pc[c] \in Locked, UNCHANGED <<accounts, request, result, told, announced, publishing>>,
             UNCHANGED <<endpoints, asked, replies>>
      PROVE  AnswersInv' /\ UniqueInv'
  <2>1. UniqueInv'
    BY <1>4 DEF UniqueInv
  <2>2. PICK place \in {"startEndpoint", "publish", "reply"} :
          /\ GoTo(c, place)
          /\ (place = "startEndpoint" \/ (place = "publish" /\ Kind[c] = "create")) => outcome = TRUE
    BY <1>4 DEF Decide
  <2>3. authenticated'[c] = outcome /\ \A d \in Connections \ {c} : authenticated'[d] = authenticated[d]
    BY <1>4 DEF Decide, TypeOK
  <2>4. told[c] = {} /\ ~ Admitted(c) /\ place \notin Locked
    BY <1>4, <1>a, <2>2 DEF Answered, Locked
  <2>5. result[c] = TRUE => Valid(c)' /\ (Kind[c] = "create" => c \in accounts')
    BY <1>4, <1>a DEF Answered, Valid
  <2> QED  BY <1>4, <1>b, <2>1, <2>2, <2>3, <2>4, <2>5, NewlyAnswered
<1>5. ASSUME OpenConnectionFails(c) PROVE AnswersInv' /\ UniqueInv'
  BY <1>4, <1>5 DEF OpenConnectionFails, At, Locked, busVars
<1>6. ASSUME LeaveMutex(c) PROVE AnswersInv' /\ UniqueInv'
  BY <1>4, <1>6, <1>b DEF LeaveMutex, At, Locked, busVars
<1>7. ASSUME QueryFails(c) PROVE AnswersInv' /\ UniqueInv'
  <2>1. UniqueInv' /\ accounts \subseteq accounts'
    BY <1>7 DEF QueryFails, Clashes, UniqueInv
  <2>2. /\ pc'[c] = "close" /\ pc[c] \in Locked
        /\ \A d \in Connections \ {c} : pc'[d] = pc[d]
        /\ UNCHANGED <<password, result, authenticated, told, announced, publishing>>
        /\ UNCHANGED <<endpoints, asked, replies>>
    BY <1>7 DEF QueryFails, At, GoTo, TypeOK, busVars, Locked
  <2>3. Kind[c] = "create" /\ c \in announced \cup publishing => c \in accounts
    BY <1>a DEF Answered
  <2>4. Admitted(c)' => Admitted(c)
    BY <2>2 DEF Admitted
  <2>5. AnswersInv'
    BY <2>1, <2>2, <2>3, <2>4, StillAnswered
  <2> QED  BY <2>1, <2>5
<1>8. ASSUME StartEndpoint(c) \/ Publish(c) \/ Ask(c) PROVE AnswersInv' /\ UniqueInv'
  <2>1. UniqueInv'
    BY <1>8 DEF StartEndpoint, Publish, Ask, UniqueInv
  <2>2. PICK place \in {"publish", "reply", "await"} : GoTo(c, place)
    BY <1>8 DEF StartEndpoint, Publish, Ask
  <2>3. place = "publish" => pc[c] = "startEndpoint"
    BY <1>8, <2>2 DEF StartEndpoint, Publish, Ask, At, GoTo, TypeOK
  <2>4. /\ UNCHANGED <<accounts, password, result, authenticated, told, announced>>
        /\ \A d \in Connections \ {c} :
             d \in endpoints' \cup asked' \cup replies' => d \in endpoints \cup asked \cup replies
        /\ pc'[c] = place /\ \A d \in Connections \ {c} : pc'[d] = pc[d]
    BY <1>8, <2>2 DEF StartEndpoint, Publish, Ask, GoTo, TypeOK
  <2>5. CASE Publish(c)
    <3>1. /\ publishing' = publishing \cup {c} /\ pc[c] = "publish"
          /\ pc'[c] = "reply" /\ \A d \in Connections \ {c} : pc'[d] = pc[d]
      BY <2>5 DEF Publish, At, GoTo, TypeOK
    <3>2. "reply" \notin Locked \cup {"new", "waitOne", "startEndpoint", "publish"}
      BY DEF Locked
    <3>3. Kind[c] = "create" => c \in accounts
      BY <1>a, <3>1 DEF Answered
    <3>4. Admitted(c)' => Admitted(c)
      BY <2>5, <3>1 DEF Publish, Admitted
    <3>5. AnswersInv'
      BY <2>4, <3>1, <3>2, <3>3, <3>4, StillAnswered
    <3> QED  BY <2>1, <3>5
  <2>6. CASE StartEndpoint(c) \/ Ask(c)
    <3>1. UNCHANGED publishing
      BY <2>6 DEF StartEndpoint, Ask
    <3>2. {"publish", "reply", "await"} \cap (Locked \cup {"new", "waitOne", "startEndpoint"}) = {}
      BY DEF Locked
    <3>3. /\ Kind[c] = "create" /\ place = "publish" => c \in accounts
          /\ Kind[c] = "create" /\ c \in announced \cup publishing => c \in accounts
      BY <1>a, <2>3 DEF Answered
    <3>4. Admitted(c)
      BY <2>6 DEF StartEndpoint, Ask, At, Admitted
    <3>5. AnswersInv'
      BY <2>4, <3>1, <3>2, <3>3, <3>4, StillAnswered
    <3> QED  BY <2>1, <3>5
  <2> QED  BY <1>8, <2>5, <2>6
<1>9. ASSUME Reply(c) PROVE AnswersInv' /\ UniqueInv'
  <2>1. UniqueInv'
    BY <1>9 DEF Reply, UniqueInv
  <2>2. UNCHANGED <<accounts, password, result, authenticated, announced, publishing>>
        /\ UNCHANGED <<endpoints, asked, replies>>
    BY <1>9 DEF Reply, busVars
  <2>3. pc'[c] = (IF authenticated[c] THEN "listen" ELSE "ended") /\ \A d \in Connections \ {c} : pc'[d] = pc[d]
    BY <1>9 DEF Reply, GoTo, TypeOK
  <2>4. TRUE \in told'[c] => result[c] = TRUE
    BY <1>9, <1>a, <1>b DEF Reply, TypeOK, Answered
  <2>5. Admitted(c)' => result[c] = TRUE
    BY <1>a, <1>b, <2>2, <2>3 DEF Admitted, Answered
  <2>6. pc'[c] \notin Locked \cup {"new", "waitOne", "startEndpoint", "publish"}
    BY <2>3 DEF Locked
  <2>7. Answered(c)'
    BY <1>a, <2>2, <2>4, <2>5, <2>6 DEF Answered, Valid
  <2>8. ASSUME NEW d \in Connections, d # c PROVE Answered(d)'
    BY <1>9, <2>2, <2>3, <2>8, OthersAnswered DEF Reply, TypeOK
  <2> QED  BY <2>1, <2>7, <2>8 DEF AnswersInv
<1>10. ASSUME Published(c) \/ ServiceReplies(c) PROVE AnswersInv' /\ UniqueInv'
  <2>1. UniqueInv'
    BY <1>10 DEF Published, ServiceReplies, threadVars, UniqueInv
  <2>2. ASSUME NEW d \in Connections PROVE Answered(d)'
    <3>1. /\ UNCHANGED <<accounts, pc, email, password, result, authenticated, told>>
          /\ endpoints' \cup asked' \cup replies' \subseteq endpoints \cup asked \cup replies
          /\ announced' \cup publishing' \subseteq announced \cup publishing
      BY <1>10 DEF Published, ServiceReplies, threadVars
    <3>2. Answered(d)
      BY DEF AnswersInv
    <3> QED  BY <3>1, <3>2 DEF Answered, Admitted, Valid
  <2> QED  BY <2>1, <2>2 DEF AnswersInv
<1>11. ASSUME TakingReply(c) PROVE AnswersInv' /\ UniqueInv'
  <2>1. UniqueInv'
    BY <1>11 DEF TakingReply, TakeReply, UniqueInv
  <2>2. GoTo(c, "answer") \/ pc' = pc
    BY <1>11 DEF TakingReply, TakeReply
  <2>3. /\ UNCHANGED <<accounts, password, result, authenticated, told, announced, publishing>>
        /\ UNCHANGED <<endpoints, asked>> /\ replies' \subseteq replies /\ c \in replies
    BY <1>11 DEF TakingReply, TakeReply
  <2>4. "answer" \notin Locked \cup {"new", "waitOne", "startEndpoint", "publish"}
    BY DEF Locked
  <2>5. /\ Kind[c] = "create" /\ c \in announced \cup publishing => c \in accounts
        /\ Kind[c] = "create" /\ pc[c] \in {"startEndpoint", "publish"} => c \in accounts
    BY <1>a DEF Answered
  <2>6. AnswersInv'
    <3>1. pc'[c] \in {"answer", pc[c]} /\ \A d \in Connections \ {c} : pc'[d] = pc[d]
      BY <2>2 DEF GoTo, TypeOK
    <3>2. Admitted(c)
      BY <2>3 DEF Admitted
    <3> QED  BY <2>3, <2>4, <2>5, <3>1, <3>2, StillAnswered
  <2> QED  BY <2>1, <2>6
<1> QED  BY <1>1, <1>2, <1>3, <1>5, <1>6, <1>7, <1>8, <1>9, <1>10, <1>11 DEF Handling

-----------------------------------------------------------------------------
(* The end of the process takes every thread with it, and the mutex.          *)
LEMMA CrashStep ==
  ASSUME AuthenticationInv, Crash
  PROVE  AuthenticationInv'
<1> USE DEF AuthenticationInv, Crash
<1>1. faults' \in Faults
  BY Counted
<1>2. TypeOK'
  BY <1>1 DEF TypeOK, DbTypeOK, FreeMutex, Faults, Working
<1>3. MutexInv'
  BY NoThreadAssumption
     DEF MutexInv, DatabaseIsHandedOn, Holds, FreeMutex, Locked, At, Connections
<1>4. AnswersInv' /\ UniqueInv'
  BY DEF TypeOK, AnswersInv, Answered, Admitted, UniqueInv, Valid, Locked, At
<1> QED  BY <1>2, <1>3, <1>4

LEMMA NextInv == AuthenticationInv /\ [Next]_vars => AuthenticationInv'
<1> SUFFICES ASSUME AuthenticationInv, [Next]_vars PROVE AuthenticationInv'
  OBVIOUS
<1>1. ASSUME NEW c \in Connections,
             \/ Accept(c) \/ Handling(c) \/ OpenConnectionFails(c) \/ QueryFails(c)
             \/ Published(c) \/ Ask(c) \/ ServiceReplies(c) \/ TakingReply(c)
      PROVE  AuthenticationInv'
  BY <1>1, TypeStep, MutexStep, AccountsStep DEF AuthenticationInv
<1>2. CASE Crash
  BY <1>2, CrashStep
<1>3. CASE StartServer \/ UNCHANGED vars
  <2>1. /\ UNCHANGED <<mutex, connection, accounts, pc, request, result, authenticated, told>>
        /\ UNCHANGED <<endpoints, publishing, announced, asked, replies, faults>>
        /\ running' \in {TRUE, running}
    BY <1>3 DEF StartServer, vars, dbVars, threadVars, busVars
  <2>2. TypeOK'
    BY <2>1 DEF AuthenticationInv, TypeOK, DbTypeOK
  <2>3. MutexInv'
    BY <2>1 DEF AuthenticationInv, MutexInv, DatabaseIsHandedOn, Holds, At
  <2>4. AnswersInv' /\ UniqueInv'
    BY <2>1 DEF AuthenticationInv, AnswersInv, Answered, Admitted, UniqueInv, Valid
  <2> QED  BY <2>2, <2>3, <2>4 DEF AuthenticationInv
<1> QED  BY <1>1, <1>2, <1>3 DEF Next

LEMMA InvHolds == Spec => []AuthenticationInv
BY InitInv, NextInv, PTL DEF Spec

(* Types and bookkeeping of the Authentication process (ClientConnection and  *)
(* its two database functions) are well formed.                               *)
THEOREM AuthenticationTypeCorrect == Spec => []TypeOK
<1>1. AuthenticationInv => TypeOK
  BY DEF AuthenticationInv
<1> QED  BY <1>1, InvHolds, PTL

(* insertNewUserAccount and isValidUserInfo hand the mutex and the closed      *)
(* connection on, whatever fails in between.                                  *)
THEOREM AuthenticationHandsDatabaseOn == Spec => []DatabaseIsHandedOn
<1>1. AuthenticationInv => DatabaseIsHandedOn
  BY DEF AuthenticationInv, MutexInv
<1> QED  BY <1>1, InvHolds, PTL

(* No client is told of, and no AccountCreated published for, an account that  *)
(* is not in the table; and no client is told that he is logged in, or served, *)
(* without the password of an account that is.                                 *)
THEOREM AccountsAreRealAlways == Spec => []AccountsAreReal
<1>1. AuthenticationInv => AccountsAreReal
  <2> SUFFICES ASSUME AuthenticationInv, NEW c \in Connections
               PROVE  /\ TRUE \in told[c] \/ authenticated[c] \/ c \in endpoints \cup asked \cup replies =>
                           IF Kind[c] = "create" THEN c \in accounts
                           ELSE \E d \in accounts : UserOf[d] = UserOf[c] /\ password[d] = password[c]
                      /\ Kind[c] = "create" /\ c \in publishing \cup announced => c \in accounts
    BY DEF AccountsAreReal
  <2>1. Answered(c) /\ authenticated[c] \in BOOLEAN
    BY DEF AuthenticationInv, AnswersInv, TypeOK
  <2>2. TRUE \in told[c] \/ authenticated[c] \/ c \in endpoints \cup asked \cup replies => result[c] = TRUE
    BY <2>1 DEF Answered, Admitted
  <2>3. QED  BY <2>1, <2>2 DEF Answered, Valid
<1> QED  BY <1>1, InvHolds, PTL

(* The UNIQUE columns keep accounts, and the events about them, apart.        *)
THEOREM AccountsAreUniqueAlways == Spec => []AccountsAreAnnouncedOnce
<1>1. AuthenticationInv => AccountsAreAnnouncedOnce
  BY DEF AuthenticationInv, AnswersInv, Answered, UniqueInv, AccountsAreAnnouncedOnce, TypeOK
<1> QED  BY <1>1, InvHolds, PTL
=============================================================================
