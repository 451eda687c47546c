SPECIFICATION Spec
CONSTANTS
  Fdts <- MCFdts
  Top <- MCTop
  Debuggers = {TRUE, FALSE}
CHECK_DEADLOCK FALSE
INVARIANTS
  TypeOK
  ConsoleHasDriver
  ConsoleAtBusAddress
  StdoutPathWins
  EveryDriverTried
  BootsWithoutConsole
