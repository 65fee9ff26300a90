CONSTANTS
  Slots = {left, right}
  Off = Off
  LockupChunks = 2
  MaxReinits = 2
  Grace = 1
  Wrap = 4
SPECIFICATION Spec
INVARIANTS
  TypeOK
  ReinitsInRow
PROPERTIES
  ReinitAfterSilence
  FollowsAwake
