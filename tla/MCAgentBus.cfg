\* Two tasks or messages, the second of which may be one that does not parse.
SPECIFICATION Spec
CONSTANTS
  a1 = a1
  a2 = a2
  a3 = a3
  p1 = p1
  p2 = p2
  Agents = {a1, a2, a3}
  Stores = {p1, p2}
  StoreOf <- MCStoreOf
  Redis = Redis
  NoBus = NoBus
  Unreadable = {2}
  MaxItems = 2
  MaxFaults = 2
SYMMETRY Neighbours
INVARIANTS
  DamageBounded
  SubscribersHear
PROPERTIES
  StoresAreQueues
  RedisIsQueue
CHECK_DEADLOCK FALSE
