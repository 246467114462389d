SPECIFICATION BotsSpec
CONSTANTS
  Bots = {b1}
  Owners = {o1, o2}
  Connectors = {i1}
  Anyone = Anyone
  NoBot = NoBot
  Keys = {y1}
  Clerks = {cl1}
INVARIANT OneOwnerPerScope
CHECK_DEADLOCK FALSE
