CONSTANTS
  Peticiones = {p1, p2}
  Calentamientos = {}
  Umbral = 2
  Ventana = 1
  Plazas = 1
  MaxAvisos = 1
SPECIFICATION Spec
INVARIANTS
  SondeoConDuenno
