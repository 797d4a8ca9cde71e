\* The session's own state, every interleaving, for what resize() promises.
SPECIFICATION Spec
CONSTANTS
    Senders = {kbd}
    Resizers = {touch, supervisor}
    Rows = {14, 30}
    CfgRows = 30
INVARIANT RemoteIsNotified
