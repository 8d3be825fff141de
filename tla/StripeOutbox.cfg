\* Three entries, a crash of the sender, recover retried and a reachable provider.
SPECIFICATION FairSpec
CONSTANTS
    MaxEntries = 3
    MaxCrashes = 1
INVARIANTS
    BilledAtMostOnce
    ReceiptGenuine
PROPERTIES
    AbstractSpec
    AbstractFairSpec
