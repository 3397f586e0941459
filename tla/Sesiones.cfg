CONSTANTS
  MaxSes = 3
  Previas = 2
  Numeros = {n1}
  Cupo = 2
  Peticiones = {p1}
  MaxCierres = 1
  MaxBajas = 1
  MaxPercances = 1
  SinNum = SinNum
  MaxTokens = 2
  MaxTardias = 2
SPECIFICATION SpecSesiones
CHECK_DEADLOCK FALSE
INVARIANTS
  BorradoCompleto
  RolesDelNumero
PROPERTIES
  RotacionSinPerdedor
  ZombieNoVuelve
  StopTerminaSinPair
