CONSTANTS
    Alerts = {n1}
    Updates = {u1}
    Contents = {h1, h2}
    Senders = {s1, s2}
    MaxAttempts = 2
    NoRow = NoRow
    NoResult = NoResult
SPECIFICATION FairSpec
CHECK_DEADLOCK FALSE
INVARIANTS
    TypeOK
    SentAtMostOnce
    ReceiptsTruthful
PROPERTIES
    OutcomeFinal
    NotificationsSettle
