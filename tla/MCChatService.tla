--------------------------- MODULE MCChatService ---------------------------
(* Small instances of ChatService. *)
EXTENDS ChatService, TLC

CONSTANTS alice, bob, acme, hello, welcome, offer

MCUsers == {alice, bob, acme}
MCTexts == {hello, welcome, offer}

Message(text, sender, receiver, timestamp) ==
  [text |-> text, sender |-> sender, receiver |-> receiver, timestamp |-> timestamp]

(* Two messages of one conversation in the same second, one each way. *)
TwoMessages == {Message(hello, alice, acme, 1), Message(welcome, acme, alice, 1)}

(* No two messages of a conversation in the same second. *)
DistinctSeconds ==
  {Message(hello, alice, acme, 1), Message(welcome, acme, alice, 2), Message(offer, acme, bob, 1)}

OneHistory    == {[user1 |-> acme, user2 |-> alice]}
OneContacts   == {[usersname |-> acme]}
NoRequests    == {}

(* The threads of the pool are alike. *)
ThreadSymmetry == Permutations(Threads)
=============================================================================
