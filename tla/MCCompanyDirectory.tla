------------------------- MODULE MCCompanyDirectory -------------------------
(* Small instances of CompanyDirectory. *)
EXTENDS CompanyDirectory, TLC

CONSTANTS acme, globex, alice

MCNames == {acme, globex, alice}

Business(name) == [username |-> name, type |-> "business"]
User(name)     == [username |-> name, type |-> "user"]

OneCompany   == {Business(acme)}
TwoCompanies == {Business(acme), Business(globex)}
CompanyUser  == {Business(acme), User(alice)}

AskInfo   == {[companyName |-> acme]}
AskSearch == {[searchDeliminator |-> acme]}
AskNothing == {}

(* The threads of the pool are alike. *)
ThreadSymmetry == Permutations(Threads)
=============================================================================
