---------------------- MODULE MCAuthenticationService ----------------------
(* A small instance of AuthenticationService. *)
EXTENDS AuthenticationService

CONSTANTS create, logIn, other, alice, bob, secret, guess, mail, mail2

MCUsers     == {alice, bob}
MCPasswords == {secret, guess}
MCEmails    == {mail, mail2}

(* alice creates an account and logs in from a second device, before, while   *)
(* or after it exists, with her password or with a wrong one; bob creates one *)
(* with the same e-mail address, so that one of the two is refused, or with   *)
(* another one.                                                               *)
MCKind        == [c \in Threads |-> IF c = logIn THEN "logIn" ELSE "create"]
MCUserOf      == [c \in Threads |-> IF c = other THEN bob ELSE alice]
MCPasswordsOf == [c \in Threads |-> IF c = logIn THEN MCPasswords ELSE {secret}]
MCEmailsOf    == [c \in Threads |-> IF c = other THEN MCEmails ELSE {mail}]
=============================================================================
