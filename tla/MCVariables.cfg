CONSTANTS
  NoNumber <- MCNoNumber
  Programs <- MCPrograms
SPECIFICATION VASpec
INVARIANTS
  VATypeOK
  NamesDistinct
  MadeNamesHideNoGlobal
  ArraysDeclaredInTime
  SizeNamesCurrent
CHECK_DEADLOCK FALSE
