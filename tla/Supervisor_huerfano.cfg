CONSTANTS
  MaxHijos = 2
  MaxVigias = 0
  MaxMandos = 1
  MaxCaidas = 0
SPECIFICATION Spec
CHECK_DEADLOCK FALSE
INVARIANTS
  AlguienRelanza
