CONSTANTS
  Nodes = {n1, n2}
  Browsers = {w1, w2}
  MaxRelays = 1
  Addresses = {a, b, s}
  Strangers = {s}
  NoAddress = NoAddress
SPECIFICATION Spec
INVARIANTS
  TypeOK
  StreamBound
  OneLateChunk
  SocketHeld
PROPERTIES
  UnwantedStops
  ActiveStreams
