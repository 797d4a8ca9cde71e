SPECIFICATION DiscoSpec
CONSTANTS
  Node = {a, b}
  NoNode = NoNode
  Homed = {a}
  Addr = {x, y}
  Relay = Relay
  NoAddr = NoAddr
  MaxPeers = 2
  NumPending = 2
  MaxPings = 2
  MaxChanges = 1
  MaxAdds = 2
INVARIANT TablesAgree
PROPERTY FallsBack
