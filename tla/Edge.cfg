CONSTANTS
  l1 = l1
  l2 = l2
  Lineas = {l1, l2}
  Control = l2
  Ordenes <- MCOrdenes
  TamCola = 1
  Puertas = {TRUE, FALSE}
  MaxOrdenes = 3
  MaxConex = 2
  MaxAltas = 2
  Inferencias = {i1}
  Obreros = {w1, w2}
  Avisos = {a1}
  SinInferencia = nadie
  Mandatos = {o1, o2}
  MaxEnvios = 3
  MaxIds = 2
  TopeCorr = 1
  TTLCorr = 1
  MaxHoraCorr = 2
  Renglones = {1, 2, 3}
  Charlas <- MCCharlas
  Cajeros = {k1, k2}
  MaxFilas = 2
  Plazo = 1
  MaxHora = 3
  MaxSaltos = 1
  MaxReclamos = 3
  Instalaciones = {q1, q2}
  Rancio = 1
  MaxAhora = 5
  MaxAtrasos = 1
  MaxProcesos = 2
  Mensajes = {m1}
  Margen = 1
  MaxReloj = 4
  MaxSockets = 2
  MaxCiclos = 2
  MaxPares = 1
  MaxQR = 3
  TamSenales = 1
  Aplicadores = {d1, d2}
  MaxVersion = 2
  MaxArranques = 1
  Heredadas = {h1, h2}
  MaxInicios = 2
  Activas = {s1}
  Nuevas = {n1}
  MaxEntrantes = 2
SPECIFICATION Spec
CHECK_DEADLOCK FALSE
INVARIANTS
  TodaSesionAnclada
  DEKBorrada
  CorrelacionCoherente
  DiscoYMemoria
  NadaSePierde
  SaludCaduca
  CierreEnOrden
PROPERTIES
  OrdenPorSesion
  KillSwitch
  BucleSigue
  NubeAlDia
  CierreEntero
  VentanaJusta
  NadaTrasUnir
  BajaTermina
  EmparejaTermina
