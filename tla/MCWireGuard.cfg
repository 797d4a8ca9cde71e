CONSTANTS
  End = {a, b}
  Window = 2
  MaxInit = 2
  MaxSessions = 2
  MaxSent = 4
  MaxPackets = 4
  MaxRestarts = 1
SYMMETRY Symmetry
SPECIFICATION Spec
INVARIANT DeliveredOnce
INVARIANT RefusedForCause
INVARIANT NonceNeverReused
INVARIANT ResponderWaits
