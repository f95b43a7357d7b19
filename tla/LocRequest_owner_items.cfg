CONSTANTS
    f1 = f1
    Items = { f1 }
    Files = { f1 }
    Links = {}
    MaxFeed = 2
SPECIFICATION Spec
PROPERTIES
    OwnerItemsClosedOnChain
CHECK_DEADLOCK FALSE
