SPECIFICATION Spec

CONSTANTS
    Pages <- MCOnePage
    UserOf <- MCUserOf
    Contacts <- MCContacts
    Messages <- MCMessages
    NoUser = "nobody"
    LogInPage = "log in"
    MaxSelects = 2
    MaxLosses = 1
    MaxRecycles = 0

INVARIANT SelectedChatIsDisplayed

CHECK_DEADLOCK FALSE
