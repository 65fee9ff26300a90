CONSTANTS
  Ota0 = Ota0
  Ota1 = Ota1
  Factory = Factory
  Off = Off
  CrashBootLimit = 2
SPECIFICATION Spec
INVARIANT
  TypeOK
PROPERTIES
  StaysBootable
  RecoveryEarned
  NeverBricked
