----------------------------- MODULE MCLiveChat -----------------------------
(* Instances of LiveChat for TLC: users a, b and c with their pages.       *)
EXTENDS LiveChat

\* Two pages of a, who has chats with b and c, and one of b.
MCUserOf == [a1 |-> "a", a2 |-> "a", b1 |-> "b"]
MCContacts == [a1 |-> <<"b", "c">>, a2 |-> <<"b">>, b1 |-> <<"a">>]
MCPages == {"a1", "a2", "b1"}
MCOnePage == {"a1"}
MCMessages == {"m1"}
=============================================================================
