SPECIFICATION Spec
CONSTANTS
  Fdts <- OutsideFdts
  Top <- MCTop
  Debuggers = {FALSE}
CHECK_DEADLOCK FALSE
INVARIANTS
  AddressMandatory
