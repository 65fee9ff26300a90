CONSTANTS
  n1 = n1
  n2 = n2
  Nodes = {n1, n2}
  Channels = {}
  Rules = {1}
  Configs <- EditedRule
  Callers = {h1}
  Threads = {t1}
  Duration = 2
  Window = 2
  RepeatCount = 2
  Cooldown = 2
  Every = 2
  None = None
SPECIFICATION Spec
PROPERTIES
  NodeRuleFires
  
