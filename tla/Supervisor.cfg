CONSTANTS
  MaxHijos = 3
  MaxVigias = 1
  MaxMandos = 4
  MaxCaidas = 1
SPECIFICATION SpecJusta
CHECK_DEADLOCK FALSE
PROPERTIES
  LockSoloCiego
  StopGana
  ParadaManda
  MandoVuelve
