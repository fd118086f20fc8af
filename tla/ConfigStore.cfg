SPECIFICATION FairSpec
CONSTANTS
    Addresses = {"a"}
    Passwords = {"", "p"}
    Messages <- Requests
    PinAnyTime = FALSE
    MaxCrashes = 2
INVARIANTS SavedBeforeGoingOn DueHasSize
PROPERTIES  StoreSpec
