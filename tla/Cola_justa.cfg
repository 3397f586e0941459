CONSTANTS
  s1 = s1
  s2 = s2
  c1 = c1
  c2 = c2
  w1 = w1
  w2 = w2
  w3 = w3
  Nadie = Nadie
  Sesiones <- UnaSesion
  Mensajes <- DosChats
  TablasIniciales <- Vacia
  MaxFilas = 2
  TTL = 0
  MaxSeq = 3
  MaxReloj = 0
  MaxCaidas = 1
SPECIFICATION SpecJusta
PROPERTIES
  FilaSale
  ImplementaBuzon
