CONSTANTS
  Sesiones = {s1}
  Tope = 2
  Lote = 2
  ConTTL = FALSE
  MaxEventos = 3
  MaxConexiones = 1
  MaxCaidas = 0
SPECIFICATION Spec
CHECK_DEADLOCK FALSE
INVARIANTS
  NubeEnOrden
