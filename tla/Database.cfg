CONSTANTS
  Boards = {"b1", "b2"}
  MqttThread = "mqtt"
  Requests = {"h1"}
  RenameTo = {2}
  Thresholds = {0, 1}
  Default = 0
  Channels = {"c1"}
SPECIFICATION Spec
INVARIANTS
  TypeOK
  GeneratedFresh
  ChannelsKept
PROPERTY
  ImplementsNodeTable
