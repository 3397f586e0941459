CONSTANTS
  s1 = s1
  s2 = s2
  c1 = c1
  c2 = c2
  w1 = w1
  w2 = w2
  w3 = w3
  Nadie = Nadie
  Sesiones <- UnaSesion
  Mensajes <- DosChats
  TablasIniciales <- Heredadas
  MaxFilas = 2
  TTL = 0
  MaxSeq = 4
  MaxReloj = 1
  MaxCaidas = 1
SPECIFICATION Spec
INVARIANTS
  SinPerdidaSilenciosa
  NadieAdelantado
PROPERTIES
  EntregaEnOrden
  ConversacionEntera
  TopeDePendientes
