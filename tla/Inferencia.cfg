CONSTANTS
  Peticiones = {p1, p2, c1}
  Calentamientos = {c1}
  Umbral = 2
  Ventana = 1
  Plazas = 1
  MaxAvisos = 2
SPECIFICATION SpecJusta
INVARIANTS
  FalloConCausa
  AvisoNoSeCalla
PROPERTIES
  TodaPeticionResponde
