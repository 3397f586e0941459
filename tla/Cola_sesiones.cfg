CONSTANTS
  s1 = s1
  s2 = s2
  c1 = c1
  c2 = c2
  w1 = w1
  w2 = w2
  w3 = w3
  Nadie = Nadie
  Sesiones <- DosSesiones
  Mensajes <- DosYUno
  TablasIniciales <- Vacia
  MaxFilas = 1
  TTL = 0
  MaxSeq = 3
  MaxReloj = 0
  MaxCaidas = 0
SPECIFICATION Spec
INVARIANTS
  SinDespertarPerdido
