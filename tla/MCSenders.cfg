SPECIFICATION SendersSpec
CONSTANTS
  lo = lo
  eth = eth
  wlan = wlan
  MaxId = 4
  MaxCalls = 6
  Threads = {t1, t2}
  Hosts <- BothSystems
  Commands = {"discover", "force", "wake"}
  Wanted = {eth}
INVARIANTS
  UniqueIds
  TriedEverywhereOnce
  NumbersOnTheWire
  SocketsAreClosed
PROPERTIES
  AtomicSpec
