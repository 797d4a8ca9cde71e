\* Two slots, three regions: one region is always left out when both are used.
SPECIFICATION LiveSpec
CONSTANTS
  NumSlots = 2
  Regions = {r1, r2, r3}
  NoRegion = NoRegion
  Senders = {wg, ctrl}
  Tasks = {t1, t2}
  MaxWorkers = 2
INVARIANT OnePerRegion
INVARIANT OneConnector
INVARIANT LinkWhole
PROPERTY RegionComesUp
CHECK_DEADLOCK FALSE
