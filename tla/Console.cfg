SPECIFICATION Spec
CONSTANTS
  a = a  b = b  x = x
  Loggers = {a, b}
  Timers = {x}
  Configs <- AllConfigs
  WordBits = 3
  Second = 2
CHECK_DEADLOCK FALSE
INVARIANTS MessagesWhole MicrosecondsPadded TimerHonest
PROPERTIES FlagMovesOn
