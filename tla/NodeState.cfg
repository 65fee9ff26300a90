CONSTANTS
  Boards = {b1}
  NoBoard = NoBoard
  Callers = {c1, c2}
  MqttThread = mqtt
  DataTimeout = 2
  StatusTimeout = 3
  LogMax = 1
SPECIFICATION Spec
INVARIANTS
  TypeOK
  OnlyAccepted
  PushedAsAnnounced
  RelayOnlyAwake
PROPERTIES
  SilentGoesOffline
  ImplementsRegistry
