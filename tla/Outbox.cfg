CONSTANTS
  Sesiones = {s1}
  Tope = 2
  Lote = 2
  ConTTL = TRUE
  MaxEventos = 2
  MaxConexiones = 2
  MaxCaidas = 1
SPECIFICATION SpecJusta
CHECK_DEADLOCK FALSE
INVARIANTS
  NadaSinRastro
  OrdenDelOutbox
PROPERTIES
  DrenajeEnOrden
  VuelveAlVivo
