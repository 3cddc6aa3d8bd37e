SPECIFICATION MCSpec
CONSTANTS
    a1 = a1
    a2 = a2
    a3 = a3
    Apps = {a1, a2, a3}
    NoApp = NoApp
    Garbage = Garbage
    MaxEntries = 3
    Order <- MCOrder
    Listing <- MCListing
    Dated = {a1, a2}
    Rows = 1
    Columns = 2
    MaxColumns = 2
    MaxBubbles = 1
    Installed = {"bootmii"}
    OriginStack = 16
    Sizes <- MCSizes
    MAX_BLOBS = 3
    BLOB_MINSLACK = 3
    Align = 4
    Word = 64
    Lo0 = 16
    Hi0 = 42
INVARIANTS SelInTable
CHECK_DEADLOCK FALSE
