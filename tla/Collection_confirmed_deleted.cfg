\* One entry without files is enough, and one request.
CONSTANTS
    i1 = i1
    c1 = c1
    NoCid = NoCid
    Entries = { i1 }
    Files = { }
    Clients = { c1 }
    MaxSize = 1
    MaxCrashes = 0
SPECIFICATION Spec
PROPERTIES
    ConfirmedNotDeleted
CHECK_DEADLOCK FALSE
