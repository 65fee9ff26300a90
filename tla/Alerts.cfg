CONSTANTS
  n1 = n1
  n2 = n2
  Nodes = {n1}
  Channels = {c1}
  Rules = {1}
  Configs <- RepeatedRule
  Callers = {h1}
  Threads = {t1}
  Duration = 1
  Window = 1
  RepeatCount = 2
  Cooldown = 2
  Every = 2
  None = None
SPECIFICATION Spec
INVARIANTS
  TypeOK
  OneLateFiring
  References
