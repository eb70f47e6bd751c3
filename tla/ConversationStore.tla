------------------------- MODULE ConversationStore -------------------------
(***************************************************************************)
(* What the Chat service promises, without threads, connections, mutexes,  *)
(* tables or retries: a set of stored messages, at most one per            *)
(* conversation and second, the conversations that have been opened, and   *)
(* answers that show the store as it was at one moment while the request   *)
(* was being handled.  ChatService is checked to implement it.             *)
(***************************************************************************)
EXTENDS Naturals

CONSTANTS Messages, HistoryRequests, ContactsRequests

Requests == HistoryRequests \cup ContactsRequests
Jobs     == Messages \cup Requests

VARIABLES
  stage,     \* of each message and request: unsent, pending, done or error
  opened,    \* conversations, each the set of its two users
  stored,    \* messages that are kept for good
  seen       \* what the handler of a request has read, and in the end replied

storeVars == <<stage, opened, stored, seen>>

Nothing == [result |-> FALSE, rows |-> {}]

Conversation(m) == {m.sender, m.receiver}

Clash(m) == \E n \in stored : Conversation(n) = Conversation(m) /\ n.timestamp = m.timestamp

View(r) ==
  [result |-> TRUE,
   rows |-> IF r \in HistoryRequests
            THEN {m \in stored : Conversation(m) = {r.user1, r.user2}}
            ELSE {u \in UNION opened : {u, r.usersname} \in opened}]

Init ==
  /\ stage = [j \in Jobs |-> "unsent"]
  /\ opened = {}
  /\ stored = {}
  /\ seen = [r \in Requests |-> Nothing]

Accept(j) ==
  /\ stage[j] = "unsent"
  /\ stage' = [stage EXCEPT ![j] = "pending"]
  /\ UNCHANGED <<opened, stored, seen>>

OpenConversation(m) ==
  /\ stage[m] = "pending"
  /\ opened' = opened \cup {Conversation(m)}
  /\ UNCHANGED <<stage, stored, seen>>

Store(m) ==
  /\ stage[m] = "pending"
  /\ Conversation(m) \in opened
  /\ ~ Clash(m)
  /\ stored' = stored \cup {m}
  /\ UNCHANGED <<stage, opened, seen>>

Finish(m) ==
  /\ stage[m] = "pending"
  /\ m \in stored
  /\ stage' = [stage EXCEPT ![m] = "done"]
  /\ UNCHANGED <<opened, stored, seen>>

(* Given up: the message is in the error queue (and may be stored or not). *)
Reject(m) ==
  /\ stage[m] = "pending"
  /\ stage' = [stage EXCEPT ![m] = "error"]
  /\ UNCHANGED <<opened, stored, seen>>

(* The last attempt took effect although its handler failed. *)
RejectLate(m) ==
  /\ stage[m] = "pending"
  /\ stage' = [stage EXCEPT ![m] = "error"]
  /\ \/ opened' = opened \cup {Conversation(m)} /\ UNCHANGED stored
     \/ /\ Conversation(m) \in opened /\ ~ Clash(m)
        /\ stored' = stored \cup {m} /\ UNCHANGED opened
  /\ UNCHANGED seen

Read(r) ==
  /\ stage[r] = "pending"
  /\ seen' = [seen EXCEPT ![r] = View(r)]
  /\ UNCHANGED <<stage, opened, stored>>

Reply(r) ==
  /\ stage[r] = "pending"
  /\ stage' = [stage EXCEPT ![r] = "done"]
  /\ UNCHANGED <<opened, stored, seen>>

(* The handlers of the requests not yet answered start over. *)
Forget ==
  /\ seen' = [r \in Requests |-> IF stage[r] = "pending" THEN Nothing ELSE seen[r]]
  /\ UNCHANGED <<stage, opened, stored>>

Next ==
  \/ \E j \in Jobs : Accept(j)
  \/ \E m \in Messages : OpenConversation(m) \/ Store(m) \/ Finish(m)
                       \/ Reject(m) \/ RejectLate(m)
  \/ \E r \in Requests : Read(r) \/ Reply(r)
  \/ Forget

Spec == Init /\ [][Next]_storeVars
=============================================================================
