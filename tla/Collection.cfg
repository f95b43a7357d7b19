\* Two entries with a file each, two requests at a time for the only place
\* that the collection has, one interruption.
CONSTANTS
    i1 = i1
    e2 = e2
    f1 = f1
    c1 = c1
    c2 = c2
    NoCid = NoCid
    Entries = { i1, e2 }
    Record = e2
    Files = { f1 }
    Clients = { c1, c2 }
    MaxSize = 1
    MaxCrashes = 1
SPECIFICATION ItemsOrBothSpec
INVARIANTS
    TypeOK
    SizeBounded
    ContentOfPublishedFiles
PROPERTIES
    UploadedOnce
    EventuallySynchronized
CHECK_DEADLOCK FALSE
