SPECIFICATION Spec

CONSTANTS
    Pages <- MCPages
    UserOf <- MCUserOf
    Contacts <- MCContacts
    Messages <- MCMessages
    NoUser = "nobody"
    LogInPage = "log in"
    MaxSelects = 1
    MaxLosses = 1
    MaxRecycles = 1

INVARIANTS
    TypeOK
    DictionariesAgree
    MessagesStayBetweenTheirUsers
    WhatIsReceivedIsKept

CHECK_DEADLOCK FALSE
