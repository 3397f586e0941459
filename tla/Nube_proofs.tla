----------------------------- MODULE Nube_proofs -----------------------------
(***************************************************************************)
(* Theorems about the stream of CloudLink seen from the cloud: what its    *)
(* dispatcher, its leases and its registry of sessions promise, for any    *)
(* number of sessions, orders, streams and registrations.                  *)
(***************************************************************************)
EXTENDS CloudDispatcher, TLAPS

(***************************************************************************)
(* The domains.                                                            *)
(***************************************************************************)
Obra == [orden : Orden, alta : Nat, paso : {"atiende", "opera"}]
Cerrojos == {"cerrado", "vigente", "revocado", "sin puerta"}

Dominios ==
  /\ cola \in [Conexiones -> [Lineas -> Seq(Orden)]]
  /\ trabajador \in [Conexiones -> [Lineas -> {"no", "vive", "salio"}]]
  /\ obra \in [Conexiones -> [Lineas -> Obra \cup {SinObra}]]
  /\ mano \in Orden \cup {SinOrden}
  /\ recibidas \in Nat /\ ultima \in [Lineas -> Nat] /\ revocada \in [Lineas -> Nat]
  /\ registro \in [Lineas -> Nat] /\ altas \in Nat
  /\ lease \in [1 .. MaxAltas -> Cerrojos]

\* A stream in use is the last that was opened; an order in hand is a receive loop's.
Fases ==
  /\ tramo \in {"fuera", "ancla", "recibe", "cierra"}
  /\ abiertos \in 0 .. MaxConex
  /\ tramo = "fuera" => cl = 0
  /\ tramo # "fuera" => cl = abiertos /\ abiertos # 0
  /\ mano # SinOrden => tramo = "recibe"

\* Of a stream that is not in use there is no worker and no queue left.
Relevo ==
  /\ \A c \in Conexiones, s \in Lineas :
       c # cl => trabajador[c][s] # "vive" /\ cola[c][s] = <<>>
  /\ \A c \in Conexiones, s \in Lineas : trabajador[c][s] # "vive" => obra[c][s] = SinObra

BaseInv == Dominios /\ Fases /\ Relevo

(***************************************************************************)
(* The registry: no two sessions share a registration.                     *)
(***************************************************************************)
RegistroInv ==
  /\ \A s \in Lineas : registro[s] <= altas
  /\ \A s, t \in Lineas : s # t /\ registro[s] # 0 => registro[s] # registro[t]

(***************************************************************************)
(* The orders of a session grow from what reached WhatsApp to the hand of  *)
(* the receive loop, through the worker and the queue.                     *)
(***************************************************************************)
FilaCreciente ==
  \A c \in Conexiones, s \in Lineas : \A i \in 1 .. Len(cola[c][s]) :
    /\ cola[c][s][i].linea = s
    /\ ultima[s] < cola[c][s][i].n /\ cola[c][s][i].n <= recibidas
    /\ \A j \in 1 .. Len(cola[c][s]) : i < j => cola[c][s][i].n < cola[c][s][j].n
    /\ obra[c][s] # SinObra => obra[c][s].orden.n < cola[c][s][i].n

ObraDelante ==
  \A c \in Conexiones, s \in Lineas : obra[c][s] # SinObra =>
    /\ obra[c][s].orden.n <= recibidas
    /\ obra[c][s].paso = "atiende" => ultima[s] < obra[c][s].orden.n

ManoDetras ==
  mano # SinOrden =>
    /\ mano.n <= recibidas /\ ultima[mano.linea] < mano.n
    /\ \A i \in 1 .. Len(cola[cl][mano.linea]) : cola[cl][mano.linea][i].n < mano.n
    /\ obra[cl][mano.linea] # SinObra => obra[cl][mano.linea].orden.n < mano.n

OrdenInv ==
  /\ \A s \in Lineas : ultima[s] <= recibidas
  /\ FilaCreciente /\ ObraDelante /\ ManoDetras

(***************************************************************************)
(* The revocation of a session is on its way, in its place, or applied.    *)
(***************************************************************************)
Atendiendo == tramo # "fuera" /\ ~Cancelado(cl)
EsLaRevocacion(o, s) == o.n = revocada[s] /\ o.tipo = "revoca"
Sellada(a) == a # 0 => lease[a] \in {"revocado", "sin puerta"}

EnMarcha(s) ==
  \/ mano # SinOrden /\ mano.linea = s /\ EsLaRevocacion(mano, s)
  \/ \E i \in 1 .. Len(cola[cl][s]) : EsLaRevocacion(cola[cl][s][i], s)
  \/ /\ obra[cl][s] # SinObra /\ EsLaRevocacion(obra[cl][s].orden, s)
     /\ obra[cl][s].paso = "atiende" /\ registro[s] \in {0, obra[cl][s].alta}

\* What the worker holds behind the revocation was taken with a sealed entry.
Detras(s) ==
  obra[cl][s] # SinObra /\ obra[cl][s].orden.tipo # "revoca" /\ obra[cl][s].orden.n >= revocada[s]
    => Sellada(obra[cl][s].alta)

Guardada(s) ==
  /\ revocada[s] <= recibidas
  /\ tramo = "fuera" => revocada[s] = 0
  /\ Atendiendo /\ revocada[s] # 0 => (EnMarcha(s) \/ Sellada(registro[s])) /\ Detras(s)

RevocaInv == \A s \in Lineas : Guardada(s)

AltasInv ==
  /\ altas <= MaxAltas
  /\ \A c \in Conexiones, s \in Lineas : obra[c][s] # SinObra => obra[c][s].alta <= altas

-----------------------------------------------------------------------------
(***************************************************************************)
(* Queues: what Append, Head and Tail do to them.                          *)
(***************************************************************************)
LEMMA AlFinal ==
  ASSUME NEW S, NEW q \in Seq(S), NEW x \in S
  PROVE  /\ Append(q, x) \in Seq(S) /\ Len(Append(q, x)) = Len(q) + 1 /\ Len(q) \in Nat
         /\ \A i \in 1 .. Len(q) : Append(q, x)[i] = q[i]
         /\ Append(q, x)[Len(q) + 1] = x
  OBVIOUS

LEMMA SinCabeza ==
  ASSUME NEW S, NEW q \in Seq(S), q # <<>>
  PROVE  /\ Tail(q) \in Seq(S) /\ Len(q) \in Nat \ {0} /\ Len(Tail(q)) = Len(q) - 1
         /\ Head(q) = q[1] /\ Head(q) \in S
         /\ \A i \in 1 .. Len(Tail(q)) : Tail(q)[i] = q[i + 1]
  OBVIOUS

LEMMA Constantes ==
  /\ SinOrden \notin Orden /\ SinObra \notin Obra
  /\ \A o \in Obra : o.orden \in Orden /\ o.alta \in Nat /\ o.paso \in {"atiende", "opera"}
  /\ \A o \in Orden : o.n \in Nat /\ o.n # 0 /\ o.linea \in Lineas /\ o.tipo \in Tipos
  /\ SinObra.paso = "libre"
  BY DEF Orden, SinOrden, SinObra, Obra

LEMMA ConexionNoNula == \A c \in Conexiones : c # 0
  BY OrdenesAssumption DEF Conexiones

LEMMA DominiosIniciales == InitDispatcher => BaseInv
<1> SUFFICES ASSUME InitDispatcher PROVE BaseInv
  OBVIOUS
<1>1. <<>> \in Seq(Orden)
  OBVIOUS
<1>2. cola \in [Conexiones -> [Lineas -> Seq(Orden)]]
  BY <1>1 DEF InitDispatcher
<1>3. /\ trabajador \in [Conexiones -> [Lineas -> {"no", "vive", "salio"}]]
      /\ obra \in [Conexiones -> [Lineas -> Obra \cup {SinObra}]]
  BY DEF InitDispatcher
<1>4. lease \in [1 .. MaxAltas -> Cerrojos]
  BY DEF InitDispatcher, Cerrojos
<1>5. Dominios
  BY <1>2, <1>3, <1>4 DEF InitDispatcher, Dominios
<1>6. Fases
  <2>1. MaxConex \in Nat
    BY OrdenesAssumption
  <2>2. tramo = "fuera" /\ cl = 0 /\ abiertos = 0 /\ mano = SinOrden
    BY DEF InitDispatcher
  <2> QED
    BY <2>1, <2>2 DEF Fases
<1>7. Relevo
  BY DEF InitDispatcher, Relevo
<1> QED
  BY <1>5, <1>6, <1>7 DEF BaseInv

(***************************************************************************)
(* What each action that touches a queue, a worker or its hands leaves.    *)
(***************************************************************************)
LEMMA DispatchCola ==
  ASSUME Dominios, Fases, Dispatch
  PROVE  /\ cola' \in [Conexiones -> [Lineas -> Seq(Orden)]]
         /\ cola'[cl][mano.linea] = Append(cola[cl][mano.linea], mano)
         /\ \A c \in Conexiones, s \in Lineas :
              c # cl \/ s # mano.linea => cola'[c][s] = cola[c][s]
<1>1. cl \in Conexiones /\ mano \in Orden /\ mano.linea \in Lineas
  BY Constantes, OrdenesAssumption DEF Dispatch, Dominios, Fases, Conexiones
<1>2. Append(cola[cl][mano.linea], mano) \in Seq(Orden)
  <2>1. cola[cl][mano.linea] \in Seq(Orden)
    BY <1>1 DEF Dominios
  <2> QED
    BY <2>1, <1>1, AlFinal
<1>3. cola' = [cola EXCEPT ![cl][mano.linea] = Append(cola[cl][mano.linea], mano)]
  BY DEF Dispatch
<1> QED
  BY <1>1, <1>2, <1>3 DEF Dominios


\* The hands of a worker are emptied.
LEMMA ObraLibre ==
  ASSUME Dominios, NEW c \in Conexiones, NEW s \in Lineas, Acaba(c, s)
  PROVE  /\ obra' \in [Conexiones -> [Lineas -> Obra \cup {SinObra}]]
         /\ obra'[c][s] = SinObra
         /\ \A d \in Conexiones, t \in Lineas : d # c \/ t # s => obra'[d][t] = obra[d][t]
  BY DEF Acaba, Dominios

LEMMA TomaObra ==
  ASSUME Dominios, NEW c \in Conexiones, NEW s \in Lineas, Toma(c, s)
  PROVE  /\ obra' \in [Conexiones -> [Lineas -> Obra \cup {SinObra}]]
         /\ obra'[c][s] \in Obra
         /\ obra'[c][s].orden = cola[c][s][1] /\ obra'[c][s].alta = registro[s]
         /\ obra'[c][s].paso = "atiende"
         /\ \A d \in Conexiones, t \in Lineas : d # c \/ t # s => obra'[d][t] = obra[d][t]
         /\ cola' \in [Conexiones -> [Lineas -> Seq(Orden)]]
         /\ Len(cola'[c][s]) = Len(cola[c][s]) - 1 /\ Len(cola[c][s]) \in Nat \ {0}
         /\ \A i \in 1 .. Len(cola'[c][s]) : cola'[c][s][i] = cola[c][s][i + 1]
         /\ \A d \in Conexiones, t \in Lineas : d # c \/ t # s => cola'[d][t] = cola[d][t]
<1> DEFINE q == cola[c][s]
           o == [orden |-> Head(q), alta |-> registro[s], paso |-> "atiende"]
<1>1. q \in Seq(Orden) /\ q # <<>>
  BY DEF Toma, Dominios
<1>2. /\ Tail(q) \in Seq(Orden) /\ Len(q) \in Nat \ {0} /\ Len(Tail(q)) = Len(q) - 1
      /\ Head(q) = q[1] /\ Head(q) \in Orden
      /\ \A i \in 1 .. Len(Tail(q)) : Tail(q)[i] = q[i + 1]
  BY <1>1, SinCabeza
<1>3. o \in Obra
  BY <1>2 DEF Obra, Dominios
<1>4. /\ obra' = [obra EXCEPT ![c][s] = o]
      /\ cola' = [cola EXCEPT ![c][s] = Tail(q)]
  BY DEF Toma
<1>5. /\ o.orden = q[1] /\ o.alta = registro[s] /\ o.paso = "atiende"
  BY <1>2
<1> HIDE DEF o
<1>6. /\ obra' \in [Conexiones -> [Lineas -> Obra \cup {SinObra}]]
      /\ obra'[c][s] = o
      /\ \A d \in Conexiones, t \in Lineas : d # c \/ t # s => obra'[d][t] = obra[d][t]
  BY <1>3, <1>4 DEF Dominios
<1>7. /\ cola' \in [Conexiones -> [Lineas -> Seq(Orden)]]
      /\ cola'[c][s] = Tail(q)
      /\ \A d \in Conexiones, t \in Lineas : d # c \/ t # s => cola'[d][t] = cola[d][t]
  BY <1>2, <1>4 DEF Dominios
<1> QED
  BY <1>2, <1>3, <1>5, <1>6, <1>7

LEMMA PasaObra ==
  ASSUME Dominios, NEW c \in Conexiones, NEW s \in Lineas, PasaLaPuerta(c, s)
  PROVE  /\ obra' \in [Conexiones -> [Lineas -> Obra \cup {SinObra}]]
         /\ obra[c][s] # SinObra /\ obra[c][s].paso = "atiende" /\ obra'[c][s] # SinObra
         /\ obra'[c][s].orden = obra[c][s].orden /\ obra'[c][s].alta = obra[c][s].alta
         /\ obra'[c][s].paso = "opera"
         /\ \A d \in Conexiones, t \in Lineas : d # c \/ t # s => obra'[d][t] = obra[d][t]
<1>1. obra[c][s] # SinObra /\ obra[c][s].paso = "atiende"
  BY Constantes DEF PasaLaPuerta, EnMano
<1>2. obra[c][s] \in Obra
  BY <1>1 DEF Dominios
<1> DEFINE o == [obra[c][s] EXCEPT !.paso = "opera"]
<1>3. /\ o \in Obra /\ o.orden = obra[c][s].orden /\ o.alta = obra[c][s].alta
      /\ o.paso = "opera"
  BY <1>2 DEF Obra
<1>4. obra' = [obra EXCEPT ![c][s] = o]
  BY DEF PasaLaPuerta
<1> HIDE DEF o
<1>5. /\ obra' \in [Conexiones -> [Lineas -> Obra \cup {SinObra}]]
      /\ obra'[c][s] = o
      /\ \A d \in Conexiones, t \in Lineas : d # c \/ t # s => obra'[d][t] = obra[d][t]
  BY <1>3, <1>4 DEF Dominios
<1> QED
  BY <1>1, <1>3, <1>5, Constantes

LEMMA CierraCola ==
  ASSUME Dominios, Fases, Shutdown
  PROVE  /\ cola' \in [Conexiones -> [Lineas -> Seq(Orden)]]
         /\ \A s \in Lineas : cola'[cl][s] = <<>>
         /\ \A c \in Conexiones, s \in Lineas : c # cl => cola'[c][s] = cola[c][s]
<1>1. cl \in Conexiones
  BY OrdenesAssumption DEF Shutdown, Fases, Conexiones
<1>2. [s \in Lineas |-> <<>>] \in [Lineas -> Seq(Orden)]
  <2>1. <<>> \in Seq(Orden)
    OBVIOUS
  <2> QED
    BY <2>1
<1> QED
  BY <1>1, <1>2 DEF Shutdown, Dominios

LEMMA EmpiezaTrabajador ==
  ASSUME Dominios, NEW s \in Lineas, QueueFor(s), cl \in Conexiones
  PROVE  /\ trabajador' \in [Conexiones -> [Lineas -> {"no", "vive", "salio"}]]
         /\ \A c \in Conexiones, t \in Lineas :
              \/ trabajador'[c][t] = trabajador[c][t]
              \/ (c = cl /\ trabajador[c][t] = "no" /\ trabajador'[c][t] = "vive")
<1> DEFINE f == [trabajador EXCEPT ![cl][s] = "vive"]
<1>1. /\ f \in [Conexiones -> [Lineas -> {"no", "vive", "salio"}]]
      /\ f[cl][s] = "vive"
      /\ \A c \in Conexiones, t \in Lineas : c # cl \/ t # s => f[c][t] = trabajador[c][t]
  BY DEF Dominios
<1>2. trabajador' = IF trabajador[cl][s] = "no" THEN f ELSE trabajador
  BY DEF QueueFor
<1> HIDE DEF f
<1>3. trabajador' = trabajador \/ (trabajador' = f /\ trabajador[cl][s] = "no")
  BY <1>2
<1>4. CASE trabajador' = trabajador
  BY <1>4 DEF Dominios
<1>5. CASE trabajador' = f /\ trabajador[cl][s] = "no"
  <2> SUFFICES ASSUME NEW c \in Conexiones, NEW t \in Lineas
               PROVE  \/ f[c][t] = trabajador[c][t]
                      \/ (c = cl /\ trabajador[c][t] = "no" /\ f[c][t] = "vive")
    BY <1>1, <1>5
  <2>1. CASE c = cl /\ t = s
    BY <1>1, <1>5, <2>1
  <2>2. CASE c # cl \/ t # s
    BY <1>1, <2>2
  <2> QED
    BY <2>1, <2>2
<1> QED
  BY <1>3, <1>4, <1>5


LEMMA EnUso == Fases /\ tramo # "fuera" => cl \in Conexiones
  BY OrdenesAssumption DEF Fases, Conexiones

LEMMA BaseSeConserva ==
  ASSUME BaseInv, [NextDispatcher]_varsDispatcher
  PROVE  BaseInv'
<1> USE DEF BaseInv
<1>1. ASSUME NEW s \in Lineas \ {Control}, Register(s) \/ Unregister(s) PROVE BaseInv'
  <2>3. registro' \in [Lineas -> Nat] /\ altas' \in Nat /\ revocada' \in [Lineas -> Nat]
    <3>1. CASE Register(s)
      BY <3>1 DEF Register, Dominios
    <3>2. CASE Unregister(s)
      BY <3>2 DEF Unregister, Dominios
    <3> QED
      BY <1>1, <3>1, <3>2
  <2>1. Dominios'
    BY <1>1, <2>3 DEF Register, Unregister, Dominios, reparto
  <2>2. Fases' /\ Relevo'
    BY <1>1 DEF Register, Unregister, Fases, Relevo, conexion, reparto
  <2> QED
    BY <2>1, <2>2
<1>2. ASSUME NEW a \in 1 .. MaxAltas, Expira(a) PROVE BaseInv'
  <2>1. Dominios'
    BY <1>2 DEF Expira, Dominios, Cerrojos, conexion, reparto, sesiones
  <2>2. Fases' /\ Relevo'
    BY <1>2 DEF Expira, Fases, Relevo, conexion, reparto
  <2> QED
    BY <2>1, <2>2
<1>3. CASE Conecta
  <2>1. Dominios'
    BY <1>3 DEF Conecta, Dominios, reparto, sesiones
  <2>2. Fases'
    BY <1>3, OrdenesAssumption DEF Conecta, Fases, reparto
  <2>3. Relevo'
    <3>1. \A c \in Conexiones : c # cl
      BY <1>3 DEF Conecta, Fases, Conexiones
    <3> QED
      BY <1>3, <3>1 DEF Conecta, Relevo, reparto
  <2> QED
    BY <2>1, <2>2, <2>3
<1>4. CASE HeartbeatAll \/ Rompe \/ Apaga \/ DejaElBucle
  <2>1. Dominios'
    BY <1>4 DEF HeartbeatAll, Rompe, Apaga, DejaElBucle, Dominios, reparto, sesiones
  <2>2. Fases' /\ Relevo'
    BY <1>4 DEF HeartbeatAll, Rompe, Apaga, DejaElBucle, Fases, Relevo, reparto
  <2> QED
    BY <2>1, <2>2
<1>5. ASSUME NEW o \in Ordenes, Recibe(o) PROVE BaseInv'
  <2>1. mano' \in Orden /\ recibidas' \in Nat
    <3>1. o[1] \in Lineas /\ o[2] \in Tipos
      BY OrdenesAssumption
    <3>2. recibidas \in Nat /\ recibidas < MaxOrdenes /\ MaxOrdenes \in Nat
      BY <1>5, OrdenesAssumption DEF Recibe, Dominios
    <3>3. recibidas + 1 \in 1 .. MaxOrdenes
      BY <3>2
    <3> QED
      BY <1>5, <3>1, <3>2, <3>3 DEF Recibe, Orden
  <2>2. revocada' \in [Lineas -> Nat]
    <3>1. revocada' = revocada \/ revocada' = [revocada EXCEPT ![o[1]] = recibidas']
      BY <1>5 DEF Recibe
    <3> QED
      BY <2>1, <3>1 DEF Dominios
  <2>3. Dominios'
    BY <1>5, <2>1, <2>2 DEF Recibe, Dominios, sesiones
  <2>4. Fases' /\ Relevo'
    BY <1>5 DEF Recibe, Fases, Relevo, conexion
  <2> QED
    BY <2>3, <2>4
<1>6. CASE Dispatch \/ DispatchCancelado
  <2>1. mano # SinOrden /\ mano' = SinOrden /\ QueueFor(mano.linea)
    BY <1>6 DEF Dispatch, DispatchCancelado
  <2>2. cl \in Conexiones /\ mano.linea \in Lineas
    BY <2>1, EnUso, Constantes DEF Fases, Dominios
  <2>3. /\ cola' \in [Conexiones -> [Lineas -> Seq(Orden)]]
        /\ \A c \in Conexiones, s \in Lineas : c # cl => cola'[c][s] = cola[c][s]
    BY <1>6, DispatchCola DEF DispatchCancelado, Dominios
  <2>4. /\ trabajador' \in [Conexiones -> [Lineas -> {"no", "vive", "salio"}]]
        /\ \A c \in Conexiones, t \in Lineas :
             \/ trabajador'[c][t] = trabajador[c][t]
             \/ (c = cl /\ trabajador[c][t] = "no" /\ trabajador'[c][t] = "vive")
    BY <2>1, <2>2, EmpiezaTrabajador
  <2>5. /\ UNCHANGED <<tramo, cl, abiertos, obra, recibidas, registro, altas>>
        /\ UNCHANGED <<lease, ultima, revocada>>
    BY <1>6 DEF Dispatch, DispatchCancelado, conexion, sesiones
  <2>6. Dominios'
    BY <2>1, <2>3, <2>4, <2>5 DEF Dominios
  <2>7. Fases'
    BY <2>1, <2>5 DEF Fases
  <2>8. \A c \in Conexiones, t \in Lineas : c # cl => trabajador'[c][t] = trabajador[c][t]
    BY <2>4
  <2>9. \A c \in Conexiones, t \in Lineas :
          trabajador'[c][t] # "vive" => trabajador[c][t] # "vive"
    BY <2>4
  <2>10. cl' = cl /\ obra' = obra
    BY <2>5
  <2>11. \A c \in Conexiones, s \in Lineas :
           c # cl => trabajador'[c][s] # "vive" /\ cola'[c][s] = <<>>
    <3>1. \A c \in Conexiones, s \in Lineas : c # cl => cola'[c][s] = cola[c][s]
      BY <2>3
    <3>2. \A c \in Conexiones, s \in Lineas :
            c # cl => trabajador[c][s] # "vive" /\ cola[c][s] = <<>>
      BY DEF Relevo
    <3> SUFFICES ASSUME NEW c \in Conexiones, NEW s \in Lineas, c # cl
                 PROVE  trabajador'[c][s] # "vive" /\ cola'[c][s] = <<>>
      OBVIOUS
    <3>3. trabajador'[c][s] = trabajador[c][s] /\ cola'[c][s] = cola[c][s]
      BY <3>1, <2>8
    <3> QED
      BY <3>2, <3>3
  <2>12. \A c \in Conexiones, s \in Lineas : trabajador'[c][s] # "vive" => obra[c][s] = SinObra
    BY <2>9 DEF Relevo
  <2>13. Relevo'
    BY <2>10, <2>11, <2>12 DEF Relevo
  <2> QED
    BY <2>6, <2>7, <2>13
<1>7. CASE Shutdown
  <2>1. /\ cola' \in [Conexiones -> [Lineas -> Seq(Orden)]]
        /\ \A s \in Lineas : cola'[cl][s] = <<>>
        /\ \A c \in Conexiones, s \in Lineas : c # cl => cola'[c][s] = cola[c][s]
    BY <1>7, CierraCola
  <2>2. revocada' \in [Lineas -> Nat]
    BY <1>7 DEF Shutdown
  <2>3. Dominios'
    BY <1>7, <2>1, <2>2 DEF Shutdown, Dominios
  <2>4. Fases'
    BY <1>7 DEF Shutdown, Fases
  <2>5. Relevo'
    BY <1>7, <2>1 DEF Shutdown, Relevo
  <2> QED
    BY <2>3, <2>4, <2>5
<1>8. ASSUME NEW c \in Conexiones, NEW s \in Lineas, Toma(c, s) PROVE BaseInv'
  <2>1. Dominios'
    BY <1>8, TomaObra DEF Toma, Dominios, sesiones
  <2>2. Fases'
    BY <1>8 DEF Toma, Fases, conexion
  <2>3. trabajador[c][s] = "vive" /\ c = cl
    BY <1>8 DEF Toma, Relevo
  <2>4. Relevo'
    BY <1>8, <2>3, TomaObra DEF Toma, Relevo, conexion
  <2> QED
    BY <2>1, <2>2, <2>4
<1>9. ASSUME NEW c \in Conexiones, NEW s \in Lineas, SaleWorker(c, s) PROVE BaseInv'
  <2>1. /\ trabajador' \in [Conexiones -> [Lineas -> {"no", "vive", "salio"}]]
        /\ trabajador'[c][s] = "salio"
        /\ \A d \in Conexiones, t \in Lineas :
             d # c \/ t # s => trabajador'[d][t] = trabajador[d][t]
    BY <1>9 DEF SaleWorker, Dominios
  <2>2. Dominios'
    BY <1>9, <2>1 DEF SaleWorker, Dominios, sesiones
  <2>3. Fases'
    BY <1>9 DEF SaleWorker, Fases, conexion
  <2>4. obra[c][s] = SinObra /\ UNCHANGED <<cola, obra, cl>>
    BY <1>9 DEF SaleWorker, conexion
  <2>5. Relevo'
    BY <2>1, <2>4 DEF Relevo
  <2> QED
    BY <2>2, <2>3, <2>5
<1>10. ASSUME NEW c \in Conexiones, NEW s \in Lineas,
              Ignora(c, s) \/ Bloquea(c, s) \/ OperaTermina(c, s) PROVE BaseInv'
  <2>1. Acaba(c, s)
    BY <1>10 DEF Ignora, Bloquea, OperaTermina
  <2>2. Dominios'
    BY <1>10, <2>1, ObraLibre DEF Ignora, Bloquea, OperaTermina, Dominios, sesiones
  <2>3. Fases'
    BY <1>10 DEF Ignora, Bloquea, OperaTermina, Fases, conexion
  <2>4. UNCHANGED <<cola, trabajador, cl>>
    BY <1>10 DEF Ignora, Bloquea, OperaTermina, conexion
  <2>5. Relevo'
    BY <2>1, <2>4, ObraLibre DEF Relevo
  <2> QED
    BY <2>2, <2>3, <2>5
<1>11. ASSUME NEW c \in Conexiones, NEW s \in Lineas, PasaLaPuerta(c, s) PROVE BaseInv'
  <2>1. obra[c][s] # SinObra /\ obra[c][s].orden.n \in Nat
    BY <1>11, PasaObra, Constantes DEF Dominios
  <2>2. ultima' \in [Lineas -> Nat]
    BY <1>11, <2>1 DEF PasaLaPuerta, Dominios
  <2>3. Dominios'
    BY <1>11, <2>2, PasaObra DEF PasaLaPuerta, Dominios, sesiones
  <2>4. Fases'
    BY <1>11 DEF PasaLaPuerta, Fases, conexion
  <2>5. UNCHANGED <<cola, trabajador, cl>>
    BY <1>11 DEF PasaLaPuerta, conexion
  <2>6. Relevo'
    BY <1>11, <2>1, <2>5, PasaObra DEF Relevo
  <2> QED
    BY <2>3, <2>4, <2>6
<1>12. ASSUME NEW c \in Conexiones, NEW s \in Lineas, HandleLeaseUpdate(c, s) PROVE BaseInv'
  <2>1. Acaba(c, s)
    BY <1>12 DEF HandleLeaseUpdate
  <2>2. lease' \in [1 .. MaxAltas -> Cerrojos]
    BY <1>12 DEF HandleLeaseUpdate, Dominios, Aplica, Cerrojos
  <2>3. Dominios'
    BY <1>12, <2>1, <2>2, ObraLibre DEF HandleLeaseUpdate, Dominios, sesiones
  <2>4. Fases'
    BY <1>12 DEF HandleLeaseUpdate, Fases, conexion
  <2>5. UNCHANGED <<cola, trabajador, cl>>
    BY <1>12 DEF HandleLeaseUpdate, conexion
  <2>6. Relevo'
    BY <2>1, <2>5, ObraLibre DEF Relevo
  <2> QED
    BY <2>3, <2>4, <2>6
<1>13. CASE UNCHANGED varsDispatcher
  <2>1. Dominios'
    BY <1>13 DEF varsDispatcher, conexion, reparto, sesiones, Dominios
  <2>2. Fases' /\ Relevo'
    BY <1>13 DEF varsDispatcher, conexion, reparto, Fases, Relevo
  <2> QED
    BY <2>1, <2>2
<1> QED
  BY <1>1, <1>2, <1>3, <1>4, <1>5, <1>6, <1>7, <1>8, <1>9, <1>10, <1>11, <1>12, <1>13
  DEF NextDispatcher, Worker


-----------------------------------------------------------------------------
(***************************************************************************)
(* The first heartbeat of every session.                                   *)
(***************************************************************************)
AnclaInv == BaseInv /\ RegistroInv /\ TodaSesionAnclada

LEMMA AnclaInicial == InitDispatcher => AnclaInv
<1> SUFFICES ASSUME InitDispatcher PROVE AnclaInv
  OBVIOUS
<1>1. tramo = "fuera" /\ altas = 0 /\ registro = [s \in Lineas |-> 0]
  BY DEF InitDispatcher
<1>2. RegistroInv /\ TodaSesionAnclada
  BY <1>1 DEF RegistroInv, TodaSesionAnclada
<1> QED
  BY <1>2, DominiosIniciales DEF AnclaInv

LEMMA RegistroSeConserva ==
  ASSUME BaseInv, RegistroInv, [NextDispatcher]_varsDispatcher
  PROVE  RegistroInv'
<1> USE DEF RegistroInv
<1>0. registro \in [Lineas -> Nat] /\ altas \in Nat
  BY DEF BaseInv, Dominios
<1>1. ASSUME NEW s \in Lineas, Register(s) PROVE RegistroInv'
  <2>1. altas' = altas + 1 /\ registro' = [registro EXCEPT ![s] = altas + 1]
    BY <1>1 DEF Register
  <2>2. \A t \in Lineas : registro'[t] = IF t = s THEN altas + 1 ELSE registro[t]
    BY <1>0, <2>1
  <2>3. \A t \in Lineas : registro[t] <= altas /\ registro[t] \in Nat
    BY <1>0
  <2> QED
    BY <1>0, <2>1, <2>2, <2>3
<1>2. ASSUME NEW s \in Lineas, Unregister(s) PROVE RegistroInv'
  <2>1. altas' = altas /\ registro' = [registro EXCEPT ![s] = 0]
    BY <1>2 DEF Unregister
  <2>2. \A t \in Lineas : registro'[t] = IF t = s THEN 0 ELSE registro[t]
    BY <1>0, <2>1
  <2> QED
    BY <1>0, <2>1, <2>2
<1>3. CASE UNCHANGED <<registro, altas>>
  BY <1>3
<1>4. ASSUME NEW c \in Conexiones, NEW s \in Lineas, Worker(c, s) \/ SaleWorker(c, s)
      PROVE  UNCHANGED <<registro, altas>>
  BY <1>4 DEF Worker, Toma, SaleWorker, Ignora, PasaLaPuerta, Bloquea, OperaTermina,
              HandleLeaseUpdate, sesiones
<1>5. ASSUME NEW o \in Ordenes, Recibe(o) PROVE UNCHANGED <<registro, altas>>
  BY <1>5 DEF Recibe, sesiones
<1>6. ASSUME NEW a \in 1 .. MaxAltas, Expira(a) PROVE UNCHANGED <<registro, altas>>
  BY <1>6 DEF Expira, sesiones
<1>7. ASSUME Conecta \/ HeartbeatAll \/ Dispatch \/ DispatchCancelado \/ Rompe \/ Apaga
               \/ DejaElBucle \/ Shutdown \/ UNCHANGED varsDispatcher
      PROVE  UNCHANGED <<registro, altas>>
  BY <1>7 DEF Conecta, HeartbeatAll, Dispatch, DispatchCancelado, Rompe, Apaga, DejaElBucle,
              Shutdown, varsDispatcher, sesiones
<1> QED
  BY <1>1, <1>2, <1>3, <1>4, <1>5, <1>6, <1>7 DEF NextDispatcher

LEMMA AnclaSeConserva ==
  ASSUME AnclaInv, [NextDispatcher]_varsDispatcher
  PROVE  AnclaInv'
<1>1. BaseInv' /\ RegistroInv'
  BY BaseSeConserva, RegistroSeConserva DEF AnclaInv
<1>2. registro \in [Lineas -> Nat] /\ altas \in Nat
  BY DEF AnclaInv, BaseInv, Dominios
<1> SUFFICES ASSUME tramo' = "recibe" PROVE \A s \in Lineas : registro'[s] # 0 => registro'[s] \in anclada'
  BY <1>1 DEF AnclaInv, TodaSesionAnclada
<1> USE DEF TodaSesionAnclada, AnclaInv
<1>3. ASSUME NEW s \in Lineas, Register(s)
      PROVE  \A t \in Lineas : registro'[t] # 0 => registro'[t] \in anclada'
  <2>1. tramo = "recibe" /\ cl # 0
    <3>1. tramo = "recibe"
      BY <1>3 DEF Register, conexion
    <3> QED
      BY <3>1 DEF BaseInv, Fases
  <2>2. anclada' = (anclada \ {registro[s]}) \cup {altas + 1}
    BY <1>3, <2>1 DEF Register, AnclasDe
  <2>3. \A t \in Lineas : registro'[t] = IF t = s THEN altas + 1 ELSE registro[t]
    BY <1>2, <1>3 DEF Register
  <2> QED
    BY <2>1, <2>2, <2>3 DEF RegistroInv
<1>4. ASSUME NEW s \in Lineas, Unregister(s)
      PROVE  \A t \in Lineas : registro'[t] # 0 => registro'[t] \in anclada'
  <2>1. tramo = "recibe" /\ anclada' = anclada \ {registro[s]}
    BY <1>4 DEF Unregister, conexion
  <2>2. \A t \in Lineas : registro'[t] = IF t = s THEN 0 ELSE registro[t]
    BY <1>2, <1>4 DEF Unregister
  <2> QED
    BY <2>1, <2>2 DEF RegistroInv
<1>5. CASE HeartbeatAll
  BY <1>5 DEF HeartbeatAll
<1>6. CASE UNCHANGED <<tramo, registro, anclada>>
  BY <1>6
<1>7. ASSUME NEW c \in Conexiones, NEW s \in Lineas, Worker(c, s) \/ SaleWorker(c, s)
      PROVE  UNCHANGED <<tramo, registro, anclada>>
  BY <1>7 DEF Worker, Toma, SaleWorker, Ignora, PasaLaPuerta, Bloquea, OperaTermina,
              HandleLeaseUpdate, sesiones, conexion
<1>8. ASSUME NEW o \in Ordenes, Recibe(o) PROVE UNCHANGED <<tramo, registro, anclada>>
  BY <1>8 DEF Recibe, sesiones, conexion
<1>9. ASSUME NEW a \in 1 .. MaxAltas, Expira(a) PROVE UNCHANGED <<tramo, registro, anclada>>
  BY <1>9 DEF Expira, sesiones, conexion
<1>10. ASSUME Dispatch \/ DispatchCancelado \/ Rompe \/ Apaga \/ UNCHANGED varsDispatcher
       PROVE  UNCHANGED <<tramo, registro, anclada>>
  BY <1>10 DEF Dispatch, DispatchCancelado, Rompe, Apaga, varsDispatcher, sesiones, conexion
<1>11. ~(Conecta \/ DejaElBucle \/ Shutdown)
  BY DEF Conecta, DejaElBucle, Shutdown
<1> QED
  BY <1>3, <1>4, <1>5, <1>6, <1>7, <1>8, <1>9, <1>10, <1>11 DEF NextDispatcher

(***************************************************************************)
(* While a stream is attended, every registered session has sent its first *)
(* heartbeat on it or is sending it (adapter.go:413, :722), however many   *)
(* sessions come and go while streams open and break.                      *)
(***************************************************************************)
THEOREM TodasAncladas == SpecDispatcher => []TodaSesionAnclada
<1>1. InitDispatcher => AnclaInv
  BY AnclaInicial
<1>2. AnclaInv /\ [NextDispatcher]_varsDispatcher => AnclaInv'
  BY AnclaSeConserva
<1>3. AnclaInv => TodaSesionAnclada
  BY DEF AnclaInv
<1> QED
  BY <1>1, <1>2, <1>3, PTL DEF SpecDispatcher


-----------------------------------------------------------------------------
(***************************************************************************)
(* The order of each session.                                              *)
(***************************************************************************)
ordenVars == <<cola, obra, mano, ultima, recibidas, cl>>

LEMMA OrdenInicial == InitDispatcher => OrdenInv
<1> SUFFICES ASSUME InitDispatcher PROVE OrdenInv
  OBVIOUS
<1>1. /\ \A c \in Conexiones, s \in Lineas : cola[c][s] = <<>> /\ obra[c][s] = SinObra
      /\ mano = SinOrden /\ recibidas = 0 /\ \A s \in Lineas : ultima[s] = 0
  BY DEF InitDispatcher
<1>2. Len(<<>>) = 0
  OBVIOUS
<1> QED
  BY <1>1, <1>2 DEF OrdenInv, FilaCreciente, ObraDelante, ManoDetras

\* What the numbers are.
LEMMA Numeros ==
  ASSUME Dominios
  PROVE  /\ recibidas \in Nat /\ \A s \in Lineas : ultima[s] \in Nat
         /\ \A c \in Conexiones, s \in Lineas :
              /\ Len(cola[c][s]) \in Nat
              /\ \A i \in 1 .. Len(cola[c][s]) : cola[c][s][i] \in Orden /\ cola[c][s][i].n \in Nat
              /\ obra[c][s] # SinObra => obra[c][s] \in Obra /\ obra[c][s].orden.n \in Nat
         /\ mano # SinOrden => mano \in Orden /\ mano.n \in Nat /\ mano.linea \in Lineas
<1>1. \A c \in Conexiones, s \in Lineas : cola[c][s] \in Seq(Orden)
  BY DEF Dominios
<1>2. \A q \in Seq(Orden) : Len(q) \in Nat /\ \A i \in 1 .. Len(q) : q[i] \in Orden
  OBVIOUS
<1>3. \A c \in Conexiones, s \in Lineas : obra[c][s] # SinObra => obra[c][s] \in Obra
  BY DEF Dominios
<1> QED
  BY <1>1, <1>2, <1>3, Constantes DEF Dominios

LEMMA OrdenRecibe ==
  ASSUME BaseInv, OrdenInv, NEW o \in Ordenes, Recibe(o)
  PROVE  OrdenInv'
<1>1. /\ UNCHANGED <<cola, obra, ultima, cl>> /\ recibidas' = recibidas + 1
      /\ mano' # SinOrden /\ mano'.n = recibidas + 1 /\ mano'.linea = o[1]
      /\ mano = SinOrden
  BY DEF Recibe, SinOrden, conexion
<1>2. o[1] \in Lineas /\ cl \in Conexiones
  BY OrdenesAssumption, EnUso DEF Recibe, BaseInv
<1>3. recibidas \in Nat
  BY DEF BaseInv, Dominios
<1>4. \A s \in Lineas : ultima[s] <= recibidas /\ ultima[s] \in Nat
  BY DEF OrdenInv, BaseInv, Dominios
<1>5. FilaCreciente'
  BY <1>1, <1>3, <1>4, Numeros DEF OrdenInv, FilaCreciente, BaseInv
<1>6. ObraDelante'
  BY <1>1, <1>3, <1>4, Numeros DEF OrdenInv, ObraDelante, BaseInv
<1>7. ManoDetras'
  <2>1. \A i \in 1 .. Len(cola[cl][o[1]]) : cola[cl][o[1]][i].n < recibidas + 1
    BY <1>2, <1>3, Numeros DEF OrdenInv, FilaCreciente, BaseInv
  <2>2. obra[cl][o[1]] # SinObra => obra[cl][o[1]].orden.n < recibidas + 1
    BY <1>2, <1>3, Numeros DEF OrdenInv, ObraDelante, BaseInv
  <2> QED
    BY <1>1, <1>2, <1>3, <1>4, <2>1, <2>2 DEF ManoDetras
<1> QED
  BY <1>1, <1>3, <1>4, <1>5, <1>6, <1>7 DEF OrdenInv

LEMMA OrdenDispatch ==
  ASSUME BaseInv, OrdenInv, Dispatch
  PROVE  OrdenInv'
<1> DEFINE l == mano.linea
           q == cola[cl][l]
<1>1. mano # SinOrden /\ mano' = SinOrden /\ UNCHANGED <<obra, ultima, recibidas, cl>>
  BY DEF Dispatch, conexion
<1>2. cl \in Conexiones /\ l \in Lineas /\ mano \in Orden /\ mano.n \in Nat
  BY <1>1, EnUso, Numeros DEF BaseInv, Fases
<1>3. q \in Seq(Orden)
  BY <1>2 DEF BaseInv, Dominios
<1>4. /\ cola'[cl][l] = Append(q, mano)
      /\ \A c \in Conexiones, s \in Lineas : c # cl \/ s # l => cola'[c][s] = cola[c][s]
  BY DispatchCola DEF BaseInv
<1>5. /\ Len(cola'[cl][l]) = Len(q) + 1 /\ Len(q) \in Nat
      /\ \A i \in 1 .. Len(q) : cola'[cl][l][i] = q[i]
      /\ cola'[cl][l][Len(q) + 1] = mano
  BY <1>2, <1>3, <1>4, AlFinal
<1>6. /\ mano.n <= recibidas /\ ultima[l] < mano.n
      /\ \A i \in 1 .. Len(q) : q[i].n < mano.n
      /\ obra[cl][l] # SinObra => obra[cl][l].orden.n < mano.n
  BY <1>1 DEF OrdenInv, ManoDetras
<1>7. /\ \A i \in 1 .. Len(q) :
           /\ q[i].linea = l /\ ultima[l] < q[i].n /\ q[i].n <= recibidas
           /\ \A j \in 1 .. Len(q) : i < j => q[i].n < q[j].n
           /\ obra[cl][l] # SinObra => obra[cl][l].orden.n < q[i].n
  BY <1>2 DEF OrdenInv, FilaCreciente
<1>8. FilaCreciente'
  <2> SUFFICES ASSUME NEW c \in Conexiones, NEW s \in Lineas, NEW i \in 1 .. Len(cola'[c][s])
               PROVE  /\ cola'[c][s][i].linea = s
                      /\ ultima[s] < cola'[c][s][i].n /\ cola'[c][s][i].n <= recibidas
                      /\ \A j \in 1 .. Len(cola'[c][s]) : i < j => cola'[c][s][i].n < cola'[c][s][j].n
                      /\ obra[c][s] # SinObra => obra[c][s].orden.n < cola'[c][s][i].n
    BY <1>1 DEF FilaCreciente
  <2>1. CASE c # cl \/ s # l
    BY <2>1, <1>4 DEF OrdenInv, FilaCreciente
  <2>2. CASE c = cl /\ s = l
    <3> DEFINE p == cola'[cl][l]
    <3>1. \A k \in 1 .. Len(p) : k \in 1 .. Len(q) \/ k = Len(q) + 1
      BY <1>5
    <3>2. CASE i \in 1 .. Len(q)
      <4>1. \A j \in 1 .. Len(p) : i < j => p[i].n < p[j].n
        <5> SUFFICES ASSUME NEW j \in 1 .. Len(p), i < j PROVE p[i].n < p[j].n
          OBVIOUS
        <5>1. CASE j \in 1 .. Len(q)
          BY <5>1, <3>2, <1>5, <1>7
        <5>2. CASE j = Len(q) + 1
          BY <5>2, <3>2, <1>5, <1>6
        <5> QED
          BY <5>1, <5>2, <3>1
      <4> QED
        BY <2>2, <3>2, <4>1, <1>5, <1>7
    <3>3. CASE i = Len(q) + 1
      <4>1. \A j \in 1 .. Len(p) : ~(i < j)
        BY <3>3, <1>5
      <4> QED
        BY <2>2, <3>3, <4>1, <1>5, <1>6
    <3> QED
      BY <2>2, <3>1, <3>2, <3>3
  <2> QED
    BY <2>1, <2>2
<1>9. ObraDelante' /\ ManoDetras' /\ \A s \in Lineas : ultima'[s] <= recibidas'
  BY <1>1 DEF OrdenInv, ObraDelante, ManoDetras
<1> QED
  BY <1>8, <1>9 DEF OrdenInv


LEMMA OrdenToma ==
  ASSUME BaseInv, OrdenInv, NEW c \in Conexiones, NEW s \in Lineas, Toma(c, s)
  PROVE  OrdenInv'
<1> DEFINE q == cola[c][s]
           p == cola'[c][s]
<1>1. UNCHANGED <<mano, ultima, recibidas, cl>> /\ obra[c][s] = SinObra
  BY DEF Toma, conexion
<1>2. /\ obra'[c][s] # SinObra /\ obra'[c][s].orden = q[1] /\ obra'[c][s].paso = "atiende"
      /\ \A d \in Conexiones, t \in Lineas : d # c \/ t # s => obra'[d][t] = obra[d][t]
      /\ Len(p) = Len(q) - 1 /\ Len(q) \in Nat \ {0}
      /\ \A i \in 1 .. Len(p) : p[i] = q[i + 1]
      /\ \A d \in Conexiones, t \in Lineas : d # c \/ t # s => cola'[d][t] = cola[d][t]
  BY TomaObra, Constantes DEF BaseInv
<1>3. c = cl
  BY DEF Toma, BaseInv, Relevo
<1>4. /\ \A i \in 1 .. Len(q) :
           /\ q[i].linea = s /\ ultima[s] < q[i].n /\ q[i].n <= recibidas
           /\ \A j \in 1 .. Len(q) : i < j => q[i].n < q[j].n
  BY DEF OrdenInv, FilaCreciente
<1>5. 1 \in 1 .. Len(q) /\ \A i \in 1 .. Len(p) : i + 1 \in 1 .. Len(q)
  BY <1>2
<1>6. FilaCreciente'
  <2> SUFFICES ASSUME NEW d \in Conexiones, NEW t \in Lineas, NEW i \in 1 .. Len(cola'[d][t])
               PROVE  /\ cola'[d][t][i].linea = t
                      /\ ultima[t] < cola'[d][t][i].n /\ cola'[d][t][i].n <= recibidas
                      /\ \A j \in 1 .. Len(cola'[d][t]) : i < j => cola'[d][t][i].n < cola'[d][t][j].n
                      /\ obra'[d][t] # SinObra => obra'[d][t].orden.n < cola'[d][t][i].n
    BY <1>1 DEF FilaCreciente
  <2>1. CASE d # c \/ t # s
    BY <2>1, <1>2, SMTT(30) DEF OrdenInv, FilaCreciente
  <2>2. CASE d = c /\ t = s
    <3>1. i \in 1 .. Len(p)
      BY <2>2
    <3>2. p[i] = q[i + 1] /\ i + 1 \in 1 .. Len(q)
      BY <3>1, <1>2, <1>5
    <3>3. \A j \in 1 .. Len(p) : i < j => p[i].n < p[j].n
      <4> SUFFICES ASSUME NEW j \in 1 .. Len(p), i < j PROVE p[i].n < p[j].n
        OBVIOUS
      <4>1. p[j] = q[j + 1] /\ j + 1 \in 1 .. Len(q) /\ i + 1 < j + 1
        BY <3>1, <1>2, <1>5
      <4> QED
        BY <3>2, <4>1, <1>4
    <3>4. q[1].n < p[i].n
      <4>1. 1 < i + 1
        BY <3>1
      <4> QED
        BY <3>2, <4>1, <1>4, <1>5
    <3> QED
      BY <2>2, <3>2, <3>3, <3>4, <1>2, <1>4
  <2> QED
    BY <2>1, <2>2
<1>7. ObraDelante'
  <2> SUFFICES ASSUME NEW d \in Conexiones, NEW t \in Lineas, obra'[d][t] # SinObra
               PROVE  /\ obra'[d][t].orden.n <= recibidas
                      /\ obra'[d][t].paso = "atiende" => ultima[t] < obra'[d][t].orden.n
    BY <1>1 DEF ObraDelante
  <2>1. CASE d # c \/ t # s
    BY <2>1, <1>2 DEF OrdenInv, ObraDelante
  <2>2. CASE d = c /\ t = s
    BY <2>2, <1>2, <1>4, <1>5
  <2> QED
    BY <2>1, <2>2
<1>8. ManoDetras'
  <2> SUFFICES ASSUME mano # SinOrden
               PROVE  /\ mano.n <= recibidas /\ ultima[mano.linea] < mano.n
                      /\ \A i \in 1 .. Len(cola'[cl][mano.linea]) : cola'[cl][mano.linea][i].n < mano.n
                      /\ obra'[cl][mano.linea] # SinObra => obra'[cl][mano.linea].orden.n < mano.n
    BY <1>1 DEF ManoDetras
  <2>0. mano.linea \in Lineas
    BY Numeros DEF BaseInv
  <2>1. /\ mano.n <= recibidas /\ ultima[mano.linea] < mano.n
        /\ \A i \in 1 .. Len(cola[cl][mano.linea]) : cola[cl][mano.linea][i].n < mano.n
        /\ obra[cl][mano.linea] # SinObra => obra[cl][mano.linea].orden.n < mano.n
    BY DEF OrdenInv, ManoDetras
  <2>2. CASE mano.linea # s
    BY <2>0, <2>1, <2>2, <1>2, <1>3
  <2>3. CASE mano.linea = s
    <3>1. \A i \in 1 .. Len(q) : q[i].n < mano.n
      BY <2>1, <2>3, <1>3
    <3>2. \A i \in 1 .. Len(p) : p[i].n < mano.n
      BY <3>1, <1>2, <1>5
    <3>3. q[1].n < mano.n
      BY <3>1, <1>5
    <3> QED
      BY <2>1, <2>3, <3>2, <3>3, <1>2, <1>3
  <2> QED
    BY <2>2, <2>3
<1> QED
  BY <1>1, <1>6, <1>7, <1>8 DEF OrdenInv

\* A worker's hands are emptied, and nothing else that the order depends on changes.
LEMMA OrdenAcaba ==
  ASSUME BaseInv, OrdenInv, NEW c \in Conexiones, NEW s \in Lineas, Acaba(c, s),
         UNCHANGED <<cola, mano, ultima, recibidas, cl>>
  PROVE  OrdenInv'
<1>1. \A d \in Conexiones, t \in Lineas : obra'[d][t] # SinObra => obra'[d][t] = obra[d][t]
  BY ObraLibre DEF BaseInv
<1>2. FilaCreciente'
  BY <1>1 DEF OrdenInv, FilaCreciente
<1>3. ObraDelante'
  BY <1>1 DEF OrdenInv, ObraDelante
<1>4. ManoDetras'
  <2>1. mano # SinOrden => cl \in Conexiones /\ mano.linea \in Lineas
    BY EnUso, Numeros DEF BaseInv, Fases
  <2> QED
    BY <1>1, <2>1 DEF OrdenInv, ManoDetras
<1> QED
  BY <1>2, <1>3, <1>4 DEF OrdenInv

LEMMA OrdenPasa ==
  ASSUME BaseInv, OrdenInv, NEW c \in Conexiones, NEW s \in Lineas, PasaLaPuerta(c, s)
  PROVE  OrdenInv'
<1> DEFINE m == obra[c][s].orden.n
<1>1. /\ obra[c][s] # SinObra /\ obra[c][s].paso = "atiende"
      /\ obra'[c][s].orden = obra[c][s].orden /\ obra'[c][s].paso = "opera"
      /\ \A d \in Conexiones, t \in Lineas : d # c \/ t # s => obra'[d][t] = obra[d][t]
  BY PasaObra DEF BaseInv
<1>2. UNCHANGED <<cola, mano, recibidas, cl>> /\ ultima' = [ultima EXCEPT ![s] = m]
  BY DEF PasaLaPuerta, conexion
<1>3. /\ \A t \in Lineas : t # s => ultima'[t] = ultima[t]
      /\ ultima'[s] = m
  BY <1>2 DEF BaseInv, Dominios
<1>4. m <= recibidas /\ ultima[s] < m /\ m \in Nat
  BY <1>1, Numeros DEF OrdenInv, ObraDelante, BaseInv
<1>5. /\ trabajador[c][s] = "vive" /\ c = cl
      /\ \A d \in Conexiones : d # c => obra[d][s] = SinObra /\ cola[d][s] = <<>>
  BY <1>1 DEF BaseInv, Relevo
<1>6. FilaCreciente'
  <2> SUFFICES ASSUME NEW d \in Conexiones, NEW t \in Lineas, NEW i \in 1 .. Len(cola[d][t])
               PROVE  /\ cola[d][t][i].linea = t
                      /\ ultima'[t] < cola[d][t][i].n /\ cola[d][t][i].n <= recibidas
                      /\ \A j \in 1 .. Len(cola[d][t]) : i < j => cola[d][t][i].n < cola[d][t][j].n
                      /\ obra'[d][t] # SinObra => obra'[d][t].orden.n < cola[d][t][i].n
    BY <1>2 DEF FilaCreciente
  <2>1. CASE t # s
    BY <2>1, <1>1, <1>3 DEF OrdenInv, FilaCreciente
  <2>2. CASE t = s /\ d # c
    BY <2>2, <1>5
  <2>3. CASE t = s /\ d = c
    BY <2>3, <1>1, <1>3 DEF OrdenInv, FilaCreciente
  <2> QED
    BY <2>1, <2>2, <2>3
<1>7. ObraDelante'
  <2> SUFFICES ASSUME NEW d \in Conexiones, NEW t \in Lineas, obra'[d][t] # SinObra
               PROVE  /\ obra'[d][t].orden.n <= recibidas
                      /\ obra'[d][t].paso = "atiende" => ultima'[t] < obra'[d][t].orden.n
    BY <1>2 DEF ObraDelante
  <2>1. CASE t # s
    BY <2>1, <1>1, <1>3 DEF OrdenInv, ObraDelante
  <2>2. CASE t = s /\ d # c
    BY <2>2, <1>1, <1>5
  <2>3. CASE t = s /\ d = c
    BY <2>3, <1>1, <1>4
  <2> QED
    BY <2>1, <2>2, <2>3
<1>8. ManoDetras'
  <2> SUFFICES ASSUME mano # SinOrden
               PROVE  /\ mano.n <= recibidas /\ ultima'[mano.linea] < mano.n
                      /\ \A i \in 1 .. Len(cola[cl][mano.linea]) : cola[cl][mano.linea][i].n < mano.n
                      /\ obra'[cl][mano.linea] # SinObra => obra'[cl][mano.linea].orden.n < mano.n
    BY <1>2 DEF ManoDetras
  <2>0. mano.linea \in Lineas
    BY Numeros DEF BaseInv
  <2>1. CASE mano.linea # s
    BY <2>0, <2>1, <1>1, <1>3, <1>5 DEF OrdenInv, ManoDetras
  <2>2. CASE mano.linea = s
    BY <2>2, <1>1, <1>3, <1>5 DEF OrdenInv, ManoDetras
  <2> QED
    BY <2>1, <2>2
<1>9. \A t \in Lineas : ultima'[t] <= recibidas'
  BY <1>2, <1>3, <1>4 DEF OrdenInv
<1> QED
  BY <1>6, <1>7, <1>8, <1>9 DEF OrdenInv


LEMMA OrdenShutdown ==
  ASSUME BaseInv, OrdenInv, Shutdown
  PROVE  OrdenInv'
<1>1. /\ \A s \in Lineas : cola'[cl][s] = <<>>
      /\ \A c \in Conexiones, s \in Lineas : c # cl => cola'[c][s] = cola[c][s]
  BY CierraCola DEF BaseInv
<1>2. UNCHANGED <<obra, mano, ultima, recibidas>> /\ mano = SinOrden
  BY DEF Shutdown, BaseInv, Fases
<1>3. Len(<<>>) = 0
  OBVIOUS
<1>4. FilaCreciente'
  <2> SUFFICES ASSUME NEW c \in Conexiones, NEW s \in Lineas, NEW i \in 1 .. Len(cola'[c][s])
               PROVE  /\ cola'[c][s][i].linea = s
                      /\ ultima[s] < cola'[c][s][i].n /\ cola'[c][s][i].n <= recibidas
                      /\ \A j \in 1 .. Len(cola'[c][s]) : i < j => cola'[c][s][i].n < cola'[c][s][j].n
                      /\ obra[c][s] # SinObra => obra[c][s].orden.n < cola'[c][s][i].n
    BY <1>2 DEF FilaCreciente
  <2>1. c # cl
    BY <1>1, <1>3
  <2> QED
    BY <2>1, <1>1 DEF OrdenInv, FilaCreciente
<1> QED
  BY <1>2, <1>4 DEF OrdenInv, ObraDelante, ManoDetras

LEMMA OrdenSeConserva ==
  ASSUME BaseInv, OrdenInv, [NextDispatcher]_varsDispatcher
  PROVE  OrdenInv'
<1>1. CASE UNCHANGED ordenVars
  BY <1>1 DEF ordenVars, OrdenInv, FilaCreciente, ObraDelante, ManoDetras
<1>2. ASSUME NEW s \in Lineas \ {Control}, Register(s) \/ Unregister(s) PROVE OrdenInv'
  BY <1>1, <1>2 DEF Register, Unregister, ordenVars, conexion, reparto
<1>3. ASSUME NEW a \in 1 .. MaxAltas, Expira(a) PROVE OrdenInv'
  BY <1>1, <1>3 DEF Expira, ordenVars, conexion, reparto
<1>4. CASE HeartbeatAll \/ Rompe \/ Apaga \/ DejaElBucle \/ UNCHANGED varsDispatcher
  BY <1>1, <1>4 DEF HeartbeatAll, Rompe, Apaga, DejaElBucle, varsDispatcher, ordenVars, conexion,
                    reparto
<1>5. CASE Conecta
  <2>1. UNCHANGED <<cola, obra, mano, ultima, recibidas>> /\ mano = SinOrden
    BY <1>5 DEF Conecta, reparto, BaseInv, Fases
  <2> QED
    BY <2>1 DEF OrdenInv, FilaCreciente, ObraDelante, ManoDetras
<1>6. CASE DispatchCancelado
  <2>1. UNCHANGED <<cola, obra, ultima, recibidas, cl>> /\ mano' = SinOrden
    BY <1>6 DEF DispatchCancelado, conexion
  <2> QED
    BY <2>1 DEF OrdenInv, FilaCreciente, ObraDelante, ManoDetras
<1>7. ASSUME NEW c \in Conexiones, NEW s \in Lineas, SaleWorker(c, s) PROVE OrdenInv'
  BY <1>1, <1>7 DEF SaleWorker, ordenVars, conexion
<1>8. ASSUME NEW c \in Conexiones, NEW s \in Lineas,
             Ignora(c, s) \/ Bloquea(c, s) \/ OperaTermina(c, s) \/ HandleLeaseUpdate(c, s)
      PROVE  OrdenInv'
  <2>1. Acaba(c, s) /\ UNCHANGED <<cola, mano, ultima, recibidas, cl>>
    BY <1>8 DEF Ignora, Bloquea, OperaTermina, HandleLeaseUpdate, conexion
  <2> QED
    BY <2>1, OrdenAcaba
<1> QED
  BY <1>2, <1>3, <1>4, <1>5, <1>6, <1>7, <1>8, OrdenRecibe, OrdenDispatch, OrdenToma, OrdenPasa,
     OrdenShutdown
  DEF NextDispatcher, Worker

\* Only PasaLaPuerta starts an operation.
LEMMA SoloPasa ==
  ASSUME BaseInv, NextDispatcher, NEW c \in Conexiones, NEW s \in Lineas, Empieza(c, s)
  PROVE  PasaLaPuerta(c, s)
<1>1. CASE obra' = obra
  BY <1>1 DEF Empieza
<1>2. ASSUME NEW d \in Conexiones, NEW t \in Lineas, Toma(d, t) PROVE FALSE
  BY <1>2, TomaObra DEF Empieza, BaseInv
<1>3. ASSUME NEW d \in Conexiones, NEW t \in Lineas, Acaba(d, t) PROVE FALSE
  BY <1>3, ObraLibre, Constantes DEF Empieza, BaseInv
<1>4. ASSUME NEW d \in Conexiones, NEW t \in Lineas, PasaLaPuerta(d, t) PROVE PasaLaPuerta(c, s)
  <2>1. d # c \/ t # s => obra'[c][s] = obra[c][s]
    BY <1>4, PasaObra DEF BaseInv
  <2> QED
    BY <1>4, <2>1 DEF Empieza
<1>5. ASSUME NEW d \in Conexiones, NEW t \in Lineas,
             Ignora(d, t) \/ Bloquea(d, t) \/ OperaTermina(d, t) \/ HandleLeaseUpdate(d, t)
      PROVE  FALSE
  BY <1>3, <1>5 DEF Ignora, Bloquea, OperaTermina, HandleLeaseUpdate
<1>6. ASSUME NEW d \in Conexiones, NEW t \in Lineas, SaleWorker(d, t) PROVE FALSE
  BY <1>1, <1>6 DEF SaleWorker, Empieza
<1>7. ASSUME NEW o \in Ordenes, Recibe(o) PROVE FALSE
  BY <1>7 DEF Recibe, Empieza
<1>8. ASSUME NEW t \in Lineas, Register(t) \/ Unregister(t) PROVE FALSE
  BY <1>8 DEF Register, Unregister, reparto, Empieza
<1>9. ASSUME NEW a \in 1 .. MaxAltas, Expira(a) PROVE FALSE
  BY <1>9 DEF Expira, reparto, Empieza
<1>10. ~(Conecta \/ HeartbeatAll \/ Dispatch \/ DispatchCancelado \/ Rompe \/ Apaga
           \/ DejaElBucle \/ Shutdown)
  BY DEF Conecta, HeartbeatAll, Dispatch, DispatchCancelado, Rompe, Apaga, DejaElBucle, Shutdown,
         reparto, Empieza
<1> QED
  BY <1>2, <1>4, <1>5, <1>6, <1>7, <1>8, <1>9, <1>10 DEF NextDispatcher, Worker

(***************************************************************************)
(* The messages of a session reach WhatsApp one at a time and in the order *)
(* the cloud sent them, across the fall of a stream too: the dispatcher    *)
(* that dies is joined before the next one is born (dispatcher.go:18-21).  *)
(***************************************************************************)
THEOREM OrdenDeCadaSesion == SpecDispatcher => OrdenPorSesion
<1> DEFINE Uno(c, s) == /\ obra[c][s].orden.n > ultima[s]
                        /\ \A d \in Conexiones \ {c} : obra[d][s] = SinObra
           EnOrden == \A c \in Conexiones, s \in Lineas : Empieza(c, s) => Uno(c, s)
           Inv == BaseInv /\ OrdenInv
<1>1. InitDispatcher => Inv
  BY DominiosIniciales, OrdenInicial
<1>2. Inv /\ [NextDispatcher]_varsDispatcher => Inv'
  BY BaseSeConserva, OrdenSeConserva
<1>3. Inv /\ [NextDispatcher]_varsDispatcher => [EnOrden]_varsDispatcher
  <2> SUFFICES ASSUME Inv, NextDispatcher, NEW c \in Conexiones, NEW s \in Lineas, Empieza(c, s)
               PROVE  Uno(c, s)
    BY DEF EnOrden
  <2>1. obra[c][s] # SinObra /\ obra[c][s].paso = "atiende"
    BY SoloPasa, PasaObra DEF BaseInv
  <2>2. ultima[s] < obra[c][s].orden.n
    BY <2>1 DEF OrdenInv, ObraDelante
  <2>3. \A d \in Conexiones : d # c => obra[d][s] = SinObra
    BY <2>1 DEF BaseInv, Relevo
  <2>4. ultima[s] \in Nat /\ obra[c][s].orden.n \in Nat
    BY <2>1, Numeros DEF BaseInv
  <2> QED
    BY <2>2, <2>3, <2>4
<1> QED
  BY <1>1, <1>2, <1>3, PTL DEF SpecDispatcher, OrdenPorSesion


-----------------------------------------------------------------------------
(***************************************************************************)
(* The kill-switch.                                                        *)
(***************************************************************************)
SelloInv == BaseInv /\ OrdenInv /\ RegistroInv /\ AltasInv /\ RevocaInv

LEMMA SelloInicial == InitDispatcher => SelloInv
<1> SUFFICES ASSUME InitDispatcher PROVE SelloInv
  OBVIOUS
<1>1. /\ \A c \in Conexiones, s \in Lineas : obra[c][s] = SinObra
      /\ altas = 0 /\ recibidas = 0 /\ tramo = "fuera"
      /\ \A s \in Lineas : revocada[s] = 0
  BY DEF InitDispatcher
<1>2. AltasInv
  BY <1>1, OrdenesAssumption DEF AltasInv
<1>3. RevocaInv
  BY <1>1 DEF RevocaInv, Guardada, Atendiendo
<1> QED
  BY <1>2, <1>3, AnclaInicial, OrdenInicial DEF SelloInv, AnclaInv

LEMMA AltasSeConserva ==
  ASSUME SelloInv, [NextDispatcher]_varsDispatcher
  PROVE  AltasInv'
<1> USE DEF SelloInv, AltasInv
<1>0. /\ altas \in Nat /\ MaxAltas \in Nat
      /\ \A c \in Conexiones, s \in Lineas : obra[c][s] # SinObra => obra[c][s].alta \in Nat
  BY OrdenesAssumption, Constantes, Numeros DEF BaseInv, Dominios
<1>1. ASSUME NEW s \in Lineas, Register(s) PROVE AltasInv'
  BY <1>0, <1>1 DEF Register, reparto
<1>2. CASE UNCHANGED <<obra, altas>>
  BY <1>2
<1>3. ASSUME NEW c \in Conexiones, NEW s \in Lineas, Acaba(c, s), altas' = altas PROVE AltasInv'
  BY <1>3, ObraLibre DEF BaseInv
<1>4. ASSUME NEW c \in Conexiones, NEW s \in Lineas,
             Ignora(c, s) \/ Bloquea(c, s) \/ OperaTermina(c, s) \/ HandleLeaseUpdate(c, s)
      PROVE  AltasInv'
  BY <1>3, <1>4 DEF Ignora, Bloquea, OperaTermina, HandleLeaseUpdate, sesiones
<1>5. ASSUME NEW c \in Conexiones, NEW s \in Lineas, PasaLaPuerta(c, s) PROVE AltasInv'
  <2>1. altas' = altas
    BY <1>5 DEF PasaLaPuerta, sesiones
  <2> QED
    BY <1>5, <2>1, PasaObra DEF BaseInv
<1>6. ASSUME NEW c \in Conexiones, NEW s \in Lineas, Toma(c, s) PROVE AltasInv'
  <2>1. altas' = altas
    BY <1>6 DEF Toma, sesiones
  <2>2. obra'[c][s].alta <= altas
    BY <1>6, TomaObra, SMTT(30) DEF RegistroInv, BaseInv
  <2>3. \A d \in Conexiones, t \in Lineas : d # c \/ t # s => obra'[d][t] = obra[d][t]
    BY <1>6, TomaObra DEF BaseInv
  <2> QED
    BY <2>1, <2>2, <2>3
<1>7. ASSUME NEW c \in Conexiones, NEW s \in Lineas, SaleWorker(c, s) PROVE AltasInv'
  BY <1>2, <1>7 DEF SaleWorker, sesiones
<1>8. ASSUME NEW o \in Ordenes, Recibe(o) PROVE AltasInv'
  BY <1>2, <1>8 DEF Recibe, sesiones
<1>9. ASSUME NEW s \in Lineas, Unregister(s) PROVE AltasInv'
  BY <1>2, <1>9 DEF Unregister, reparto
<1>10. ASSUME NEW a \in 1 .. MaxAltas, Expira(a) PROVE AltasInv'
  BY <1>2, <1>10 DEF Expira, sesiones, reparto
<1>11. CASE Conecta \/ HeartbeatAll \/ Dispatch \/ DispatchCancelado \/ Rompe \/ Apaga
              \/ DejaElBucle \/ Shutdown \/ UNCHANGED varsDispatcher
  BY <1>2, <1>11 DEF Conecta, HeartbeatAll, Dispatch, DispatchCancelado, Rompe, Apaga, DejaElBucle,
                     Shutdown, varsDispatcher, sesiones, reparto
<1> QED
  BY <1>1, <1>4, <1>5, <1>6, <1>7, <1>8, <1>9, <1>10, <1>11 DEF NextDispatcher, Worker

\* The state a revocation depends on, and the two steps of it that cannot break it.
revocaVars == <<mano, cola, obra, registro, lease, revocada, cl, recibidas>>

LEMMA SigueGuardada ==
  ASSUME NEW s \in Lineas, Guardada(s), UNCHANGED revocaVars,
         Atendiendo' => Atendiendo, tramo' = "fuera" => tramo = "fuera"
  PROVE  Guardada(s)'
  BY DEF revocaVars, Guardada, EnMarcha, Sellada, Detras, EsLaRevocacion

LEMMA SinAtender ==
  ASSUME NEW s \in Lineas, Guardada(s), UNCHANGED <<revocada, recibidas>>,
         ~Atendiendo', tramo' = "fuera" => tramo = "fuera"
  PROVE  Guardada(s)'
  BY DEF Guardada

\* What a lease update, or the end of a lease, does to a sealed registration.
LEMMA SelloFirme ==
  ASSUME SelloInv, NEW a \in 1 .. MaxAltas,
         \/ Expira(a)
         \/ \E tipo \in Tipos : lease' = [lease EXCEPT ![a] = Aplica(@, tipo)]
  PROVE  \A b \in 0 .. MaxAltas : Sellada(b) => Sellada(b)'
<1>1. lease \in [1 .. MaxAltas -> Cerrojos]
  BY DEF SelloInv, BaseInv, Dominios
<1>0. \A b \in 0 .. MaxAltas : b = 0 \/ b \in 1 .. MaxAltas
  BY OrdenesAssumption
<1>2. CASE Expira(a)
  BY <1>0, <1>1, <1>2 DEF Expira, Sellada
<1>3. ASSUME NEW tipo \in Tipos, lease' = [lease EXCEPT ![a] = Aplica(@, tipo)]
      PROVE  \A b \in 0 .. MaxAltas : Sellada(b) => Sellada(b)'
  BY <1>0, <1>1, <1>3 DEF Aplica, Sellada
<1> QED
  BY <1>2, <1>3


LEMMA SelloRegistro ==
  ASSUME SelloInv, NEW s \in Lineas, Register(s) \/ Unregister(s), NEW t \in Lineas
  PROVE  Guardada(t)'
<1>1. Guardada(t) /\ revocada \in [Lineas -> Nat] /\ registro \in [Lineas -> Nat]
  BY DEF SelloInv, RevocaInv, BaseInv, Dominios
<1>2. UNCHANGED <<mano, cola, obra, lease, cl, recibidas, tramo, apagado>>
  BY DEF Register, Unregister, conexion, reparto
<1>3. recibidas \in Nat
  BY DEF SelloInv, BaseInv, Dominios
<1>4. CASE revocada'[t] = 0
  BY <1>2, <1>3, <1>4 DEF Guardada
<1>5. CASE revocada'[t] = revocada[t] /\ registro'[t] \in {0, registro[t]}
  <2>1. (Sellada(registro[t]) => Sellada(registro[t])') /\ (Detras(t) => Detras(t)')
    BY <1>2, <1>5 DEF Sellada, Detras
  <2>2. EnMarcha(t) => EnMarcha(t)'
    BY <1>2, <1>5 DEF EnMarcha, EsLaRevocacion
  <2>3. Atendiendo' => Atendiendo
    BY <1>2 DEF Atendiendo, Cancelado
  <2> QED
    BY <1>1, <1>2, <1>5, <2>1, <2>2, <2>3 DEF Guardada
<1>6. CASE Register(s)
  <2>1. revocada' = [revocada EXCEPT ![s] = 0] /\ registro' = [registro EXCEPT ![s] = altas + 1]
    BY <1>6 DEF Register
  <2> QED
    BY <1>1, <1>4, <1>5, <2>1
<1>7. CASE Unregister(s)
  <2>1. revocada' = revocada /\ registro' = [registro EXCEPT ![s] = 0]
    BY <1>7 DEF Unregister
  <2> QED
    BY <1>1, <1>5, <2>1
<1> QED
  BY <1>6, <1>7

LEMMA SelloRecibe ==
  ASSUME SelloInv, NEW o \in Ordenes, Recibe(o), NEW s \in Lineas
  PROVE  Guardada(s)'
<1>1. /\ UNCHANGED <<cola, obra, registro, lease, cl, tramo, apagado>>
      /\ recibidas' = recibidas + 1 /\ recibidas \in Nat /\ mano = SinOrden
      /\ mano' = [n |-> recibidas + 1, linea |-> o[1], tipo |-> o[2]]
      /\ tramo = "recibe"
  BY DEF Recibe, conexion, sesiones, SelloInv, BaseInv, Dominios
<1>2. Guardada(s) /\ revocada[s] \in Nat /\ cl \in Conexiones
  BY <1>1, EnUso DEF SelloInv, RevocaInv, BaseInv, Dominios
<1>3. mano' # SinOrden
  BY <1>1 DEF SinOrden
<1>4. \/ revocada'[s] = revocada[s]
      \/ o[1] = s /\ o[2] = "revoca" /\ revocada'[s] = recibidas + 1
  BY DEF Recibe, SelloInv, BaseInv, Dominios
<1>5. CASE revocada'[s] = revocada[s]
  <2>1. (EnMarcha(s) => EnMarcha(s)') /\ (Detras(s) => Detras(s)')
    BY <1>1, <1>5 DEF EnMarcha, EsLaRevocacion, Detras, Sellada
  <2>2. Sellada(registro[s]) => Sellada(registro[s])'
    BY <1>1 DEF Sellada
  <2>3. Atendiendo' => Atendiendo
    BY <1>1 DEF Atendiendo, Cancelado
  <2> QED
    BY <1>1, <1>2, <1>5, <2>1, <2>2, <2>3 DEF Guardada
<1>6. CASE o[1] = s /\ o[2] = "revoca" /\ revocada'[s] = recibidas + 1
  <2>1. EnMarcha(s)'
    BY <1>1, <1>3, <1>6 DEF EnMarcha, EsLaRevocacion
  <2>2. Detras(s)'
    <3>1. obra[cl][s] # SinObra => obra[cl][s].orden.n <= recibidas /\ obra[cl][s].orden.n \in Nat
      BY <1>2, Numeros DEF SelloInv, OrdenInv, ObraDelante, BaseInv
    <3> QED
      BY <1>1, <1>6, <3>1 DEF Detras
  <2> QED
    BY <1>1, <1>6, <2>1, <2>2 DEF Guardada
<1> QED
  BY <1>4, <1>5, <1>6

LEMMA SelloDispatch ==
  ASSUME SelloInv, Dispatch, NEW s \in Lineas
  PROVE  Guardada(s)'
<1> DEFINE l == mano.linea
           q == cola[cl][l]
<1>1. /\ UNCHANGED <<obra, registro, lease, revocada, recibidas, cl, tramo, apagado>>
      /\ mano # SinOrden /\ mano' = SinOrden
  BY DEF Dispatch, conexion, sesiones
<1>2. cl \in Conexiones /\ l \in Lineas /\ mano \in Orden
  BY <1>1, EnUso, Numeros DEF SelloInv, BaseInv, Fases
<1>3. /\ cola'[cl][l] = Append(q, mano) /\ q \in Seq(Orden)
      /\ s # l => cola'[cl][s] = cola[cl][s]
  BY <1>2, DispatchCola DEF SelloInv, BaseInv, Dominios
<1>4. /\ Len(cola'[cl][l]) = Len(q) + 1 /\ Len(q) \in Nat
      /\ \A i \in 1 .. Len(q) : cola'[cl][l][i] = q[i]
      /\ cola'[cl][l][Len(q) + 1] = mano
  BY <1>2, <1>3, AlFinal
<1>5. Guardada(s)
  BY DEF SelloInv, RevocaInv
<1>6. EnMarcha(s) => EnMarcha(s)'
  <2>1. CASE mano.linea = s /\ EsLaRevocacion(mano, s)
    <3>1. Len(q) + 1 \in 1 .. Len(cola'[cl][s])
      BY <2>1, <1>4
    <3>2. \E i \in 1 .. Len(cola'[cl][s]) : cola'[cl][s][i] = mano
      BY <2>1, <3>1, <1>4
    <3> QED
      BY <2>1, <3>2, <1>1 DEF EnMarcha, EsLaRevocacion
  <2>2. ASSUME NEW i \in 1 .. Len(cola[cl][s]), EsLaRevocacion(cola[cl][s][i], s)
        PROVE  EnMarcha(s)'
    <3>1. i \in 1 .. Len(cola'[cl][s]) /\ cola'[cl][s][i] = cola[cl][s][i]
      BY <1>3, <1>4, SMTT(60)
    <3> QED
      BY <3>1, <2>2, <1>1 DEF EnMarcha, EsLaRevocacion
  <2>3. CASE /\ obra[cl][s] # SinObra /\ EsLaRevocacion(obra[cl][s].orden, s)
             /\ obra[cl][s].paso = "atiende" /\ registro[s] \in {0, obra[cl][s].alta}
    BY <2>3, <1>1 DEF EnMarcha, EsLaRevocacion
  <2> QED
    BY <2>1, <2>2, <2>3 DEF EnMarcha
<1>7. (Sellada(registro[s]) => Sellada(registro[s])') /\ (Detras(s) => Detras(s)')
  BY <1>1 DEF Sellada, Detras
<1>8. Atendiendo' => Atendiendo
  BY <1>1 DEF Atendiendo, Cancelado
<1> QED
  BY <1>1, <1>5, <1>6, <1>7, <1>8 DEF Guardada


LEMMA SelloToma ==
  ASSUME SelloInv, NEW c \in Conexiones, NEW s \in Lineas, Toma(c, s), NEW t \in Lineas
  PROVE  Guardada(t)'
<1> DEFINE q == cola[c][s]
           p == cola'[c][s]
<1>1. UNCHANGED <<mano, registro, lease, revocada, recibidas, cl, tramo, apagado>>
  BY DEF Toma, conexion, sesiones
<1>2. Guardada(t) /\ c = cl /\ obra[c][s] = SinObra
  BY DEF Toma, SelloInv, RevocaInv, BaseInv, Relevo
<1>3. /\ obra'[c][s] # SinObra /\ obra'[c][s].orden = q[1] /\ obra'[c][s].paso = "atiende"
      /\ obra'[c][s].alta = registro[s]
      /\ Len(p) = Len(q) - 1 /\ Len(q) \in Nat \ {0}
      /\ \A i \in 1 .. Len(p) : p[i] = q[i + 1]
  BY TomaObra, Constantes DEF SelloInv, BaseInv
<1>4. t # s => obra'[c][t] = obra[c][t] /\ cola'[c][t] = cola[c][t]
  BY TomaObra DEF SelloInv, BaseInv
<1>5. Atendiendo' => Atendiendo
  BY <1>1 DEF Atendiendo, Cancelado
<1>6. Sellada(registro[t]) => Sellada(registro[t])'
  BY <1>1 DEF Sellada
<1>7. CASE t # s
  <2>1. (EnMarcha(t) => EnMarcha(t)') /\ (Detras(t) => Detras(t)')
    BY <1>1, <1>2, <1>4, <1>7 DEF EnMarcha, EsLaRevocacion, Detras, Sellada
  <2> QED
    BY <1>1, <1>2, <1>5, <1>6, <2>1 DEF Guardada
<1>8. CASE t = s
  <2>1. EnMarcha(s) => EnMarcha(s)'
    <3>1. CASE mano # SinOrden /\ mano.linea = s /\ EsLaRevocacion(mano, s)
      BY <3>1, <1>1 DEF EnMarcha, EsLaRevocacion
    <3>2. ASSUME NEW i \in 1 .. Len(q), EsLaRevocacion(q[i], s) PROVE EnMarcha(s)'
      <4>1. CASE i = 1
        BY <4>1, <3>2, <1>1, <1>2, <1>3 DEF EnMarcha, EsLaRevocacion
      <4>2. CASE i # 1
        <5>1. i - 1 \in 1 .. Len(p) /\ (i - 1) + 1 = i
          BY <4>2, <1>3
        <5>2. \E j \in 1 .. Len(p) : p[j] = q[i]
          BY <5>1, <1>3
        <5> QED
          BY <5>2, <3>2, <1>1, <1>2 DEF EnMarcha, EsLaRevocacion
      <4> QED
        BY <4>1, <4>2
    <3> QED
      BY <3>1, <3>2, <1>2 DEF EnMarcha
  <2>2. Atendiendo /\ revocada[s] # 0 => Detras(s)'
    <3> SUFFICES ASSUME Atendiendo, revocada[s] # 0, q[1].tipo # "revoca", q[1].n >= revocada[s]
                 PROVE  Sellada(registro[s])
      BY <1>1, <1>2, <1>3 DEF Detras, Sellada
    <3>1. /\ 1 \in 1 .. Len(q) /\ revocada[s] \in Nat
          /\ \A i \in 1 .. Len(q) : q[i].n \in Nat
      BY <1>3, Numeros DEF SelloInv, BaseInv, Dominios
    <3>2. ~(mano # SinOrden /\ mano.linea = s /\ EsLaRevocacion(mano, s))
      <4> SUFFICES ASSUME mano # SinOrden, mano.linea = s, mano.n = revocada[s] PROVE FALSE
        BY DEF EsLaRevocacion
      <4>1. q[1].n < mano.n
        BY <3>1, <1>2 DEF SelloInv, OrdenInv, ManoDetras
      <4> QED
        BY <3>1, <4>1
    <3>3. \A i \in 1 .. Len(q) : ~EsLaRevocacion(q[i], s)
      <4> SUFFICES ASSUME NEW i \in 1 .. Len(q), q[i].n = revocada[s], q[i].tipo = "revoca"
                   PROVE  FALSE
        BY DEF EsLaRevocacion
      <4>1. 1 < i
        BY <1>3
      <4>2. q[1].n < q[i].n
        BY <3>1, <4>1 DEF SelloInv, OrdenInv, FilaCreciente
      <4> QED
        BY <3>1, <4>2
    <3> QED
      BY <3>2, <3>3, <1>2, <1>8 DEF Guardada, EnMarcha
  <2> QED
    BY <1>1, <1>2, <1>5, <1>6, <1>8, <2>1, <2>2 DEF Guardada
<1> QED
  BY <1>7, <1>8

\* A worker is about to apply the revocation to the registration its session has.
Lleva(c, s) ==
  /\ EsLaRevocacion(obra[c][s].orden, s) /\ obra[c][s].paso = "atiende"
  /\ registro[s] \in {0, obra[c][s].alta}

\* The worker finishes with its order; what remains is what follows if it held the revocation.
LEMMA SelloAcaba ==
  ASSUME SelloInv, NEW c \in Conexiones, NEW s \in Lineas, Acaba(c, s), NEW t \in Lineas,
         UNCHANGED <<mano, cola, registro, revocada, recibidas, cl, tramo, apagado>>,
         obra[c][s] # SinObra,
         \A b \in 0 .. MaxAltas : Sellada(b) => Sellada(b)',
         Lleva(c, s) => Sellada(registro[s])'
  PROVE  Guardada(t)'
<1>1. Guardada(t) /\ c = cl
  BY DEF SelloInv, RevocaInv, BaseInv, Relevo
<1>2. /\ obra'[c][s] = SinObra
      /\ t # s => obra'[c][t] = obra[c][t]
  BY ObraLibre DEF SelloInv, BaseInv
<1>3. registro[t] \in 0 .. MaxAltas
  <2>1. registro[t] \in Nat /\ registro[t] <= altas /\ altas \in Nat /\ altas <= MaxAltas
    BY DEF SelloInv, BaseInv, Dominios, RegistroInv, AltasInv
  <2>2. MaxAltas \in Nat
    BY OrdenesAssumption
  <2> QED
    BY <2>1, <2>2
<1>4. Sellada(registro[t]) => Sellada(registro[t])'
  <2>1. \A b \in 0 .. MaxAltas : b = registro[t] => (Sellada(b) => Sellada(b)')
    OBVIOUS
  <2>2. registro'[t] = registro[t]
    OBVIOUS
  <2> QED
    BY <2>1, <2>2, <1>3 DEF Sellada
<1>5. EnMarcha(t) => EnMarcha(t)' \/ Sellada(registro[t])'
  <2>1. CASE mano # SinOrden /\ mano.linea = t /\ EsLaRevocacion(mano, t)
    BY <2>1 DEF EnMarcha, EsLaRevocacion
  <2>2. ASSUME NEW i \in 1 .. Len(cola[cl][t]), EsLaRevocacion(cola[cl][t][i], t)
        PROVE  EnMarcha(t)'
    BY <2>2 DEF EnMarcha, EsLaRevocacion
  <2>3. CASE /\ obra[cl][t] # SinObra /\ EsLaRevocacion(obra[cl][t].orden, t)
             /\ obra[cl][t].paso = "atiende" /\ registro[t] \in {0, obra[cl][t].alta}
    <3>1. CASE t = s
      BY <2>3, <3>1, <1>1 DEF Lleva
    <3>2. CASE t # s
      BY <2>3, <3>2, <1>1, <1>2 DEF EnMarcha, EsLaRevocacion
    <3> QED
      BY <3>1, <3>2
  <2> QED
    BY <2>1, <2>2, <2>3 DEF EnMarcha
<1>6. Detras(t) => Detras(t)'
  <2>1. CASE t = s
    BY <2>1, <1>1, <1>2 DEF Detras
  <2>2. CASE t # s /\ obra[cl][t] # SinObra
    <3>1. obra[cl][t].alta \in 0 .. MaxAltas
      <4>1. obra[cl][t].alta <= altas /\ obra[cl][t].alta \in Nat /\ altas \in Nat /\ altas <= MaxAltas
        BY <2>2, <1>1, Numeros, Constantes DEF SelloInv, BaseInv, Dominios, AltasInv
      <4>2. MaxAltas \in Nat
        BY OrdenesAssumption
      <4> QED
        BY <4>1, <4>2
    <3>2. Sellada(obra[cl][t].alta) => \E b \in 0 .. MaxAltas : b = obra[cl][t].alta /\ Sellada(b)'
      BY <3>1
    <3> QED
      BY <3>2, <2>2, <1>1, <1>2 DEF Detras, Sellada
  <2>3. CASE t # s /\ obra[cl][t] = SinObra
    BY <2>3, <1>1, <1>2 DEF Detras
  <2> QED
    BY <2>1, <2>2, <2>3
<1>7. Atendiendo' => Atendiendo
  BY DEF Atendiendo, Cancelado
<1> QED
  BY <1>1, <1>4, <1>5, <1>6, <1>7 DEF Guardada


LEMMA SelloTermina ==
  ASSUME SelloInv, NEW c \in Conexiones, NEW s \in Lineas, NEW t \in Lineas,
         Ignora(c, s) \/ Bloquea(c, s) \/ OperaTermina(c, s)
  PROVE  Guardada(t)'
<1>1. /\ Acaba(c, s)
      /\ UNCHANGED <<mano, cola, registro, revocada, recibidas, cl, tramo, apagado, lease>>
  BY DEF Ignora, Bloquea, OperaTermina, conexion, sesiones
<1>2. obra[c][s] # SinObra
  BY Constantes DEF Ignora, Bloquea, OperaTermina, EnMano
<1>3. \A b \in 0 .. MaxAltas : Sellada(b) => Sellada(b)'
  BY <1>1 DEF Sellada
<1>4. Lleva(c, s) => Sellada(registro[s])'
  <2> SUFFICES ASSUME Lleva(c, s) PROVE Sellada(registro[s])'
    OBVIOUS
  <2> USE DEF Lleva
  <2>1. obra[c][s].orden.tipo = "revoca"
    BY DEF EsLaRevocacion
  <2>2. obra[c][s].alta = 0
    BY <2>1 DEF Ignora, Bloquea, OperaTermina, EnMano
  <2> QED
    BY <1>1, <2>2 DEF Sellada
<1> QED
  BY <1>1, <1>2, <1>3, <1>4, SelloAcaba

LEMMA SelloLease ==
  ASSUME SelloInv, NEW c \in Conexiones, NEW s \in Lineas, NEW t \in Lineas, HandleLeaseUpdate(c, s)
  PROVE  Guardada(t)'
<1> DEFINE a == obra[c][s].alta
<1>1. /\ Acaba(c, s)
      /\ UNCHANGED <<mano, cola, registro, revocada, recibidas, cl, tramo, apagado>>
      /\ lease' = [lease EXCEPT ![a] = Aplica(@, obra[c][s].orden.tipo)]
      /\ a # 0 /\ obra[c][s].orden.tipo \in Tipos
  BY DEF HandleLeaseUpdate, EnMano, conexion, sesiones, Tipos
<1>2. obra[c][s] # SinObra
  BY Constantes DEF HandleLeaseUpdate, EnMano
<1>3. a \in 1 .. MaxAltas
  <2>1. a <= altas /\ a \in Nat /\ altas \in Nat /\ altas <= MaxAltas
    BY <1>2, Numeros, Constantes DEF SelloInv, BaseInv, Dominios, AltasInv
  <2>2. MaxAltas \in Nat
    BY OrdenesAssumption
  <2> QED
    BY <1>1, <2>1, <2>2
<1>4. \A b \in 0 .. MaxAltas : Sellada(b) => Sellada(b)'
  BY <1>1, <1>3, SelloFirme
<1>5. Lleva(c, s) => Sellada(registro[s])'
  <2> SUFFICES ASSUME Lleva(c, s) PROVE Sellada(registro[s])'
    OBVIOUS
  <2> USE DEF Lleva
  <2>1. obra[c][s].orden.tipo = "revoca"
    BY DEF EsLaRevocacion
  <2>2. lease \in [1 .. MaxAltas -> Cerrojos]
    BY DEF SelloInv, BaseInv, Dominios
  <2>3. lease'[a] \in {"revocado", "sin puerta"}
    BY <1>1, <1>3, <2>1, <2>2 DEF Aplica
  <2> QED
    BY <1>1, <2>3 DEF Sellada
<1> QED
  BY <1>1, <1>2, <1>4, <1>5, SelloAcaba

LEMMA SelloPasa ==
  ASSUME SelloInv, NEW c \in Conexiones, NEW s \in Lineas, NEW t \in Lineas, PasaLaPuerta(c, s)
  PROVE  Guardada(t)'
<1>1. /\ UNCHANGED <<mano, cola, registro, revocada, recibidas, cl, tramo, apagado, lease>>
      /\ obra[c][s].orden.tipo = "envio"
  BY DEF PasaLaPuerta, EnMano, conexion, sesiones
<1>2. /\ obra[c][s] # SinObra /\ obra'[c][s] # SinObra
      /\ obra'[c][s].orden = obra[c][s].orden /\ obra'[c][s].alta = obra[c][s].alta
      /\ t # s => obra'[c][t] = obra[c][t]
  BY PasaObra DEF SelloInv, BaseInv
<1>3. Guardada(t) /\ c = cl
  BY <1>2 DEF SelloInv, RevocaInv, BaseInv, Relevo
<1>4. EnMarcha(t) => EnMarcha(t)'
  <2>1. CASE t # s
    BY <2>1, <1>1, <1>2, <1>3 DEF EnMarcha, EsLaRevocacion
  <2>2. CASE t = s
    <3>1. ~EsLaRevocacion(obra[cl][s].orden, s)
      BY <1>1, <1>3 DEF EsLaRevocacion
    <3> QED
      BY <2>2, <3>1, <1>1 DEF EnMarcha, EsLaRevocacion
  <2> QED
    BY <2>1, <2>2
<1>5. Detras(t) => Detras(t)'
  <2>1. CASE t # s
    BY <2>1, <1>1, <1>2, <1>3 DEF Detras, Sellada
  <2>2. CASE t = s
    BY <2>2, <1>1, <1>2, <1>3 DEF Detras, Sellada
  <2> QED
    BY <2>1, <2>2
<1>6. (Atendiendo' => Atendiendo) /\ (Sellada(registro[t]) => Sellada(registro[t])')
  BY <1>1 DEF Atendiendo, Cancelado, Sellada
<1> QED
  BY <1>1, <1>3, <1>4, <1>5, <1>6 DEF Guardada

LEMMA SelloExpira ==
  ASSUME SelloInv, NEW a \in 1 .. MaxAltas, Expira(a), NEW t \in Lineas
  PROVE  Guardada(t)'
<1>1. UNCHANGED <<mano, cola, obra, registro, revocada, recibidas, cl, tramo, apagado>>
  BY DEF Expira, conexion, reparto, sesiones
<1>2. Guardada(t)
  BY DEF SelloInv, RevocaInv
<1>3. \A b \in 0 .. MaxAltas : Sellada(b) => Sellada(b)'
  BY SelloFirme
<1>4. MaxAltas \in Nat /\ altas \in Nat /\ altas <= MaxAltas
  BY OrdenesAssumption DEF SelloInv, BaseInv, Dominios, AltasInv
<1>5. Sellada(registro[t]) => Sellada(registro[t])'
  <2>1. registro[t] \in Nat /\ registro[t] <= altas
    BY DEF SelloInv, BaseInv, Dominios, RegistroInv
  <2>2. Sellada(registro[t]) => \E b \in 0 .. MaxAltas : b = registro[t] /\ Sellada(b)'
    BY <2>1, <1>3, <1>4
  <2> QED
    BY <2>2, <1>1 DEF Sellada
<1>6. Atendiendo' => Atendiendo
  BY <1>1 DEF Atendiendo, Cancelado
<1>7. EnMarcha(t) => EnMarcha(t)'
  BY <1>1 DEF EnMarcha, EsLaRevocacion
<1>8. CASE ~Atendiendo
  BY <1>1, <1>2, <1>6, <1>8 DEF Guardada
<1>9. CASE Atendiendo
  <2>1. cl \in Conexiones
    BY <1>9, EnUso DEF Atendiendo, SelloInv, BaseInv
  <2>2. Detras(t) => Detras(t)'
    <3>1. CASE obra[cl][t] = SinObra
      BY <3>1, <1>1 DEF Detras
    <3>2. CASE obra[cl][t] # SinObra
      <4>1. obra[cl][t].alta <= altas /\ obra[cl][t].alta \in Nat
        BY <2>1, <3>2, Numeros, Constantes DEF SelloInv, BaseInv, AltasInv
      <4>2. Sellada(obra[cl][t].alta) => \E b \in 0 .. MaxAltas : b = obra[cl][t].alta /\ Sellada(b)'
        BY <4>1, <1>3, <1>4
      <4> QED
        BY <4>2, <1>1 DEF Detras, Sellada
    <3> QED
      BY <3>1, <3>2
  <2> QED
    BY <1>1, <1>2, <1>5, <1>6, <1>7, <2>2 DEF Guardada
<1> QED
  BY <1>8, <1>9

LEMMA SelloSeConserva ==
  ASSUME SelloInv, [NextDispatcher]_varsDispatcher
  PROVE  SelloInv'
<1>1. BaseInv' /\ OrdenInv' /\ RegistroInv' /\ AltasInv'
  BY BaseSeConserva, OrdenSeConserva, RegistroSeConserva, AltasSeConserva DEF SelloInv
<1> SUFFICES ASSUME NEW t \in Lineas PROVE Guardada(t)'
  BY <1>1 DEF SelloInv, RevocaInv
<1>2. Guardada(t)
  BY DEF SelloInv, RevocaInv
<1>3. CASE HeartbeatAll \/ Rompe \/ UNCHANGED varsDispatcher
  <2>1. UNCHANGED revocaVars
    BY <1>3 DEF HeartbeatAll, Rompe, varsDispatcher, conexion, reparto, sesiones, revocaVars
  <2>2. (Atendiendo' => Atendiendo) /\ (tramo' = "fuera" => tramo = "fuera")
    BY <1>3 DEF HeartbeatAll, Rompe, varsDispatcher, conexion, Atendiendo, Cancelado
  <2> QED
    BY <1>2, <2>1, <2>2, SigueGuardada
<1>4. CASE Apaga \/ DejaElBucle
  <2>1. UNCHANGED <<revocada, recibidas>> /\ ~Atendiendo' /\ (tramo' = "fuera" => tramo = "fuera")
    BY <1>4 DEF Apaga, DejaElBucle, reparto, Atendiendo, Cancelado
  <2> QED
    BY <1>2, <2>1, SinAtender
<1>5. CASE DispatchCancelado
  <2>1. UNCHANGED <<revocada, recibidas, tramo>> /\ ~Atendiendo'
    BY <1>5 DEF DispatchCancelado, conexion, Atendiendo, Cancelado
  <2> QED
    BY <1>2, <2>1, SinAtender
<1>6. CASE Conecta
  <2>1. UNCHANGED <<revocada, recibidas>> /\ tramo = "fuera" /\ tramo' = "ancla"
    BY <1>6 DEF Conecta, reparto
  <2> QED
    BY <1>2, <2>1 DEF Guardada
<1>7. CASE Shutdown
  <2>1. revocada'[t] = 0 /\ recibidas' = recibidas /\ recibidas \in Nat
    BY <1>7 DEF Shutdown, SelloInv, BaseInv, Dominios
  <2> QED
    BY <2>1 DEF Guardada
<1>8. ASSUME NEW c \in Conexiones, NEW s \in Lineas, SaleWorker(c, s) PROVE Guardada(t)'
  <2>1. UNCHANGED revocaVars /\ UNCHANGED <<tramo, apagado>>
    BY <1>8 DEF SaleWorker, conexion, sesiones, revocaVars
  <2>2. Atendiendo' => Atendiendo
    BY <2>1 DEF Atendiendo, Cancelado, revocaVars
  <2> QED
    BY <1>2, <2>1, <2>2, SigueGuardada
<1> QED
  BY <1>3, <1>4, <1>5, <1>6, <1>7, <1>8, SelloRegistro, SelloExpira, SelloRecibe, SelloDispatch,
     SelloToma, SelloTermina, SelloLease, SelloPasa
  DEF NextDispatcher, Worker

(***************************************************************************)
(* Once a stream has brought the revocation of a session, nothing the      *)
(* cloud sends behind it on that stream reaches WhatsApp, whatever leases  *)
(* follow, workers hold and registrations come and go.                     *)
(***************************************************************************)
THEOREM RevocacionFirme == SpecDispatcher => KillSwitch
<1> DEFINE Callado(c, s) == revocada[s] = 0 \/ obra[c][s].orden.n < revocada[s]
           Sin == \A c \in Conexiones, s \in Lineas :
                    Empieza(c, s) /\ ~Cancelado(c) /\ lease[obra[c][s].alta] # "sin puerta" =>
                      Callado(c, s)
<1>1. InitDispatcher => SelloInv
  BY SelloInicial
<1>2. SelloInv /\ [NextDispatcher]_varsDispatcher => SelloInv'
  BY SelloSeConserva
<1>3. SelloInv /\ [NextDispatcher]_varsDispatcher => [Sin]_varsDispatcher
  <2> SUFFICES ASSUME SelloInv, NextDispatcher, NEW c \in Conexiones, NEW s \in Lineas,
                      Empieza(c, s), ~Cancelado(c), lease[obra[c][s].alta] # "sin puerta",
                      ~Callado(c, s)
               PROVE  FALSE
    BY DEF Sin
  <2>1. PasaLaPuerta(c, s)
    BY SoloPasa DEF SelloInv
  <2>2. /\ obra[c][s] # SinObra /\ obra[c][s].orden.tipo = "envio" /\ obra[c][s].alta # 0
        /\ lease[obra[c][s].alta] = "vigente"
    BY <2>1, Constantes DEF PasaLaPuerta, EnMano
  <2>3. c = cl /\ Guardada(s)
    BY <2>2 DEF SelloInv, BaseInv, Relevo, RevocaInv
  <2>4. Atendiendo
    <3>1. cl # 0
      BY <2>3, ConexionNoNula
    <3>2. tramo # "fuera"
      BY <3>1 DEF SelloInv, BaseInv, Fases
    <3> QED
      BY <2>3, <3>2 DEF Atendiendo
  <2>5. obra[c][s].orden.n >= revocada[s] /\ revocada[s] # 0
    BY <2>2, Numeros DEF SelloInv, BaseInv, Dominios, Callado
  <2> QED
    BY <2>2, <2>3, <2>4, <2>5 DEF Guardada, Detras, Sellada
<1> QED
  BY <1>1, <1>2, <1>3, PTL DEF SpecDispatcher, KillSwitch
=============================================================================
