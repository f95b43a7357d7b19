\* A file, and a metadata item or a link.  As long as there is only the file, up
\* to three extrinsics are ahead of the sync point, so that they are replayed in
\* order and interleaved with every handler; with the second item there is one.
CONSTANTS
    f1 = f1
    m1 = m1
    l1 = l1
    Items = { f1, m1, l1 }
    Files = { f1 }
    Links = { l1 }
    MaxFeed = 3
SPECIFICATION TwoItemsSpec
CONSTRAINTS TwoContents FeedBound
INVARIANTS
    TypeOK
    UserItemsReviewed
    AcknowledgedByAllRequired
    ConfirmationsAreChainFacts
    PendingHasNoDraft
PROPERTIES
    ReviewsAreKept
    ClosesOnlyOverPublished
CHECK_DEADLOCK FALSE
