\* Each of the three with every interleaving of its tasks.
SPECIFICATION AllSpec
CONSTANTS
    Senders = {kbd}
    Resizers = {touch, supervisor}
    Rows = {14, 30}
    CfgRows = 30
    Mps = 4
    Packets = 2
    BaseClock = {3000000, 12000000}
    Baud = {300, 115200, 1500000}
    Typed = {1}
    MaxPlugs = 2
    MaxData = 4
    MaxSends = 1
    InitialBackoff = 1000
    MaxBackoff = 30000
    Factor = 2
    FullRows = 30
    KbdRows = 14
    NoRows = 0
INVARIANT OneOwner
INVARIANT CleanWhenDown
INVARIANT ResizeHonoured
INVARIANT StreamIntact
INVARIANT RateHonoured
INVARIANT SizeReplayed
PROPERTY DropCleansUp
PROPERTY ImplementsConnection
PROPERTY ComesBack
PROPERTY Reconnects
