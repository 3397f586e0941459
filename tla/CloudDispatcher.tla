-------------------------- MODULE CloudDispatcher --------------------------
(***************************************************************************)
(* The stream of CloudLink seen from the cloud's side: the one receive     *)
(* loop, the queue and the worker each session gets, the leases that gate  *)
(* what a session may send, and the registry of sessions, which the        *)
(* session manager changes while all this runs.                            *)
(*                                                                         *)
(* One stream at a time: runOnce returns once the workers of its           *)
(* dispatcher have gone.  Workers and queues carry the number of their     *)
(* stream nevertheless, so that the model does not take that for granted.  *)
(* Answers (Ack, Pong) go out on the stream and change nothing here.       *)
(* ConfigUpdate, DiagnosticsRequest, UserAuthResponse and Ping are the     *)
(* order "suelta": they occupy a worker and touch neither registry nor     *)
(* lease.  The lease validator is a library; what is modelled of it is     *)
(* that it starts closed and that a revocation is final.  An Edge without  *)
(* the public key of the leases has no validator ("sin puerta").           *)
(***************************************************************************)
EXTENDS Naturals, Sequences, FiniteSets

CONSTANTS
  Lineas,      \* the sessions of the multiplex
  Control,     \* controlSessionID, which is never registered
  Ordenes,     \* what the cloud may send: pairs of a session and a kind of order
  TamCola,     \* cmdQueueSize
  Puertas,     \* whether the Edge has the public key of the leases: TRUE, FALSE or either
  MaxOrdenes,  \* bound on the orders of a run
  MaxConex,    \* bound on the streams
  MaxAltas     \* bound on the calls of Register

Tipos == {"envio", "renueva", "revoca", "suelta"}

ASSUME OrdenesAssumption ==
  /\ Puertas \subseteq BOOLEAN /\ Control \in Lineas /\ Ordenes \subseteq Lineas \X Tipos
  /\ TamCola \in Nat \ {0} /\ MaxOrdenes \in Nat /\ MaxConex \in Nat \ {0} /\ MaxAltas \in Nat

VARIABLES
  tramo,     \* where Run and runOnce are
  cl,        \* Adapter.cl: the stream in use, 0 for nil
  abiertos,  \* streams opened so far
  roto,      \* the stream in use has broken
  apagado,   \* the context of the daemon is cancelled
  mano,      \* the order the receive loop wants to queue
  cola,      \* the queue of each session, per stream
  trabajador, \* its worker: not started, running, or gone
  obra,      \* the order in its hands, and the entry it resolved
  registro,  \* Adapter.sessions: which registration each session has (0 = none)
  altas,     \* registrations made so far
  lease,     \* per registration, its validator
  anclada,   \* registrations with a first heartbeat on the stream in use, sent or being sent
  recibidas, \* orders received
  ultima,    \* history: the last order of each session that reached WhatsApp
  revocada   \* history: the revocation its registration got on this stream (0 = none)

conexion == <<tramo, cl, abiertos, roto, apagado>>
reparto  == <<mano, cola, trabajador, obra, recibidas>>
sesiones == <<registro, altas, anclada>>
varsDispatcher == <<conexion, reparto, sesiones, lease, ultima, revocada>>

Conexiones == 1 .. MaxConex
Orden == [n : 1 .. MaxOrdenes, linea : Lineas, tipo : Tipos]
SinOrden == [n |-> 0]
SinObra == [orden |-> SinOrden, alta |-> 0, paso |-> "libre"]

(* The context of a dispatcher: cancelled by its shutdown and by the daemon. *)
Cancelado(c) == apagado \/ c # cl \/ tramo = "cierra"

InitDispatcher ==
  /\ tramo = "fuera" /\ cl = 0 /\ abiertos = 0 /\ roto = FALSE /\ apagado = FALSE
  /\ mano = SinOrden /\ recibidas = 0
  /\ cola = [c \in Conexiones |-> [s \in Lineas |-> <<>>]]
  /\ trabajador = [c \in Conexiones |-> [s \in Lineas |-> "no"]]
  /\ obra = [c \in Conexiones |-> [s \in Lineas |-> SinObra]]
  /\ registro = [s \in Lineas |-> 0] /\ altas = 0 /\ anclada = {}
  /\ \E conPuerta \in Puertas :
       lease = [a \in 1 .. MaxAltas |-> IF conPuerta THEN "cerrado" ELSE "sin puerta"]
  /\ ultima = [s \in Lineas |-> 0] /\ revocada = [s \in Lineas |-> 0]

-----------------------------------------------------------------------------
(* The registry.  Register enters the session and reads the stream in one  *)
(* critical section, and sends its first heartbeat, sendHeartbeat, after.  *)

\* Mutant: the heartbeat of a session that arrives while a stream is up is forgotten.
SinAncla(a) == {}

AnclasDe(a) == IF cl = 0 THEN {} ELSE {a}

Register(s) ==
  /\ altas < MaxAltas
  /\ altas' = altas + 1
  /\ registro' = [registro EXCEPT ![s] = altas + 1]
  /\ anclada' = (anclada \ {registro[s]}) \cup AnclasDe(altas + 1)
  /\ revocada' = [revocada EXCEPT ![s] = 0]
  /\ UNCHANGED <<conexion, reparto, lease, ultima>>

Unregister(s) ==
  /\ registro[s] # 0
  /\ registro' = [registro EXCEPT ![s] = 0]
  /\ anclada' = anclada \ {registro[s]}
  /\ UNCHANGED <<conexion, reparto, altas, lease, ultima, revocada>>

(* The lease of a registration runs out. *)
Expira(a) ==
  /\ lease[a] = "vigente"
  /\ lease' = [lease EXCEPT ![a] = "cerrado"]
  /\ UNCHANGED <<conexion, reparto, sesiones, ultima, revocada>>

-----------------------------------------------------------------------------
(* Run and runOnce. *)

Conecta ==
  /\ tramo = "fuera" /\ ~apagado /\ abiertos < MaxConex
  /\ abiertos' = abiertos + 1 /\ cl' = abiertos + 1
  /\ tramo' = "ancla"
  /\ UNCHANGED <<roto, apagado, reparto, sesiones, lease, ultima, revocada>>

(* heartbeatAll: the sessions of one snapshot of the registry. *)
HeartbeatAll ==
  /\ tramo = "ancla"
  /\ tramo' = "recibe"
  /\ anclada' = anclada \cup {registro[s] : s \in {t \in Lineas : registro[t] # 0}}
  /\ UNCHANGED <<cl, abiertos, roto, apagado, reparto, registro, altas, lease, ultima, revocada>>

(* What had arrived before the stream broke is still received. *)
Recibe(o) ==
  /\ tramo = "recibe" /\ mano = SinOrden /\ recibidas < MaxOrdenes
  /\ recibidas' = recibidas + 1
  /\ mano' = [n |-> recibidas + 1, linea |-> o[1], tipo |-> o[2]]
  /\ revocada' = IF o[2] = "revoca" /\ registro[o[1]] # 0 /\ revocada[o[1]] = 0
                 THEN [revocada EXCEPT ![o[1]] = recibidas + 1] ELSE revocada
  /\ UNCHANGED <<conexion, cola, trabajador, obra, sesiones, lease, ultima>>

(* The worker of a session starts with its queue, once per stream.         *)
QueueFor(s) ==
  trabajador' = IF trabajador[cl][s] = "no" THEN [trabajador EXCEPT ![cl][s] = "vive"]
                                            ELSE trabajador

(* dispatch: the loop waits here while the queue is full, and sees neither *)
(* the end of its stream nor the orders of other sessions.                 *)
Dispatch ==
  /\ mano # SinOrden
  /\ Len(cola[cl][mano.linea]) < TamCola
  /\ cola' = [cola EXCEPT ![cl][mano.linea] = Append(@, mano)]
  /\ QueueFor(mano.linea)
  /\ mano' = SinOrden
  /\ UNCHANGED <<conexion, obra, recibidas, sesiones, lease, ultima, revocada>>

DispatchCancelado ==
  /\ mano # SinOrden /\ Cancelado(cl)
  /\ QueueFor(mano.linea)
  /\ mano' = SinOrden
  /\ UNCHANGED <<conexion, cola, obra, recibidas, sesiones, lease, ultima, revocada>>

(* The last stream of the bound ends with the daemon. *)
Rompe ==
  /\ cl # 0 /\ ~roto /\ abiertos < MaxConex
  /\ roto' = TRUE
  /\ UNCHANGED <<tramo, cl, abiertos, apagado, reparto, sesiones, lease, ultima, revocada>>

Apaga ==
  /\ ~apagado
  /\ apagado' = TRUE
  /\ UNCHANGED <<tramo, cl, abiertos, roto, reparto, sesiones, lease, ultima, revocada>>

(* The loop leaves, and the deferred shutdown cancels the workers... *)
DejaElBucle ==
  /\ tramo = "recibe" /\ mano = SinOrden /\ (roto \/ apagado)
  /\ tramo' = "cierra"
  /\ UNCHANGED <<cl, abiertos, roto, apagado, reparto, sesiones, lease, ultima, revocada>>

(* ...and waits for them before the client is withdrawn. *)
\* Mutant: shutdown cancels the workers and does not wait.
CierraSinEsperar ==
  /\ tramo = "cierra"
  /\ tramo' = "fuera" /\ cl' = 0
  /\ anclada' = {}
  /\ UNCHANGED <<abiertos, roto, apagado, reparto, registro, altas, lease, ultima, revocada>>

Shutdown ==
  /\ tramo = "cierra"
  /\ \A s \in Lineas : trabajador[cl][s] # "vive"
  /\ tramo' = "fuera" /\ cl' = 0
  /\ cola' = [cola EXCEPT ![cl] = [s \in Lineas |-> <<>>]]
  /\ anclada' = {} /\ roto' = FALSE /\ revocada' = [s \in Lineas |-> 0]
  /\ UNCHANGED <<abiertos, apagado, mano, trabajador, obra, recibidas, registro, altas, lease, ultima>>

-----------------------------------------------------------------------------
(* The workers.  The entry of the session is read once, when the order is  *)
(* taken; by the time the order is carried out it may have been replaced.  *)

Acaba(c, s) == obra' = [obra EXCEPT ![c][s] = SinObra]

Toma(c, s) ==
  /\ trabajador[c][s] = "vive" /\ obra[c][s] = SinObra /\ cola[c][s] # <<>>
  /\ obra' = [obra EXCEPT ![c][s] = [orden |-> Head(cola[c][s]), alta |-> registro[s], paso |-> "atiende"]]
  /\ cola' = [cola EXCEPT ![c][s] = Tail(@)]
  /\ UNCHANGED <<conexion, mano, trabajador, recibidas, sesiones, lease, ultima, revocada>>

(* Go picks either branch of the select of a cancelled worker. *)
SaleWorker(c, s) ==
  /\ trabajador[c][s] = "vive" /\ obra[c][s] = SinObra /\ Cancelado(c)
  /\ trabajador' = [trabajador EXCEPT ![c][s] = "salio"]
  /\ UNCHANGED <<conexion, mano, cola, obra, recibidas, sesiones, lease, ultima, revocada>>

EnMano(c, s, tipos) == obra[c][s].paso = "atiende" /\ obra[c][s].orden.tipo \in tipos

(* An order for a session nobody knows, and one that is not a session's. *)
Ignora(c, s) ==
  /\ EnMano(c, s, Tipos)
  /\ obra[c][s].alta = 0 \/ obra[c][s].orden.tipo = "suelta"
  /\ Acaba(c, s)
  /\ UNCHANGED <<conexion, mano, cola, trabajador, recibidas, sesiones, lease, ultima, revocada>>

(* CanOperate: the lease of the entry, and the key of the session.         *)
PasaLaPuerta(c, s) ==
  /\ EnMano(c, s, {"envio"}) /\ obra[c][s].alta # 0
  /\ lease[obra[c][s].alta] \in {"vigente", "sin puerta"}
  /\ obra' = [obra EXCEPT ![c][s].paso = "opera"]
  /\ ultima' = [ultima EXCEPT ![s] = obra[c][s].orden.n]
  /\ UNCHANGED <<conexion, mano, cola, trabajador, recibidas, sesiones, lease, revocada>>

Bloquea(c, s) ==
  /\ EnMano(c, s, {"envio"}) /\ obra[c][s].alta # 0
  /\ \E hayDEK \in BOOLEAN :
       \/ lease[obra[c][s].alta] \in {"cerrado", "revocado"}
       \/ lease[obra[c][s].alta] = "vigente" /\ ~hayDEK
  /\ Acaba(c, s)
  /\ UNCHANGED <<conexion, mano, cola, trabajador, recibidas, sesiones, lease, ultima, revocada>>

(* sendFunc returns, by itself or because its deadline or its stream ended; *)
(* a panic ends it too.                                                     *)
\* Mutant: the operation lives as long as its stream (before plan 027).
OperaSinPlazo(c, s) ==
  /\ obra[c][s].paso = "opera" /\ Cancelado(c)
  /\ Acaba(c, s)
  /\ UNCHANGED <<conexion, mano, cola, trabajador, recibidas, sesiones, lease, ultima, revocada>>

OperaTermina(c, s) ==
  /\ obra[c][s].paso = "opera"
  /\ Acaba(c, s)
  /\ UNCHANGED <<conexion, mano, cola, trabajador, recibidas, sesiones, lease, ultima, revocada>>

(* handleLeaseUpdate: the validator of the entry; a revocation is final.   *)
\* Mutant: a later lease lifts the revocation.
AplicaSinMemoria(l, tipo) ==
  CASE l = "sin puerta" -> l [] tipo = "revoca" -> "revocado" [] OTHER -> "vigente"

Aplica(l, tipo) ==
  CASE l \in {"sin puerta", "revocado"} -> l [] tipo = "revoca" -> "revocado" [] OTHER -> "vigente"

HandleLeaseUpdate(c, s) ==
  /\ EnMano(c, s, {"renueva", "revoca"}) /\ obra[c][s].alta # 0
  /\ lease' = [lease EXCEPT ![obra[c][s].alta] = Aplica(@, obra[c][s].orden.tipo)]
  /\ Acaba(c, s)
  /\ UNCHANGED <<conexion, mano, cola, trabajador, recibidas, sesiones, ultima, revocada>>

Worker(c, s) ==
  \/ Toma(c, s) \/ Ignora(c, s) \/ PasaLaPuerta(c, s) \/ Bloquea(c, s)
  \/ OperaTermina(c, s) \/ HandleLeaseUpdate(c, s)

NextDispatcher ==
  \/ \E s \in Lineas \ {Control} : Register(s) \/ Unregister(s)
  \/ \E a \in 1 .. MaxAltas : Expira(a)
  \/ Conecta \/ HeartbeatAll \/ Dispatch \/ DispatchCancelado \/ Rompe \/ Apaga \/ DejaElBucle \/ Shutdown
  \/ \E o \in Ordenes : Recibe(o)
  \/ \E c \in Conexiones, s \in Lineas : Worker(c, s) \/ SaleWorker(c, s)

(* Goroutines run, and an operation ends at its deadline at the latest.    *)
FairDispatcher ==
  /\ WF_varsDispatcher(Dispatch \/ DispatchCancelado) /\ WF_varsDispatcher(Shutdown)
  /\ \A c \in Conexiones, s \in Lineas :
       WF_varsDispatcher(Worker(c, s) \/ SaleWorker(c, s))

SpecDispatcher == InitDispatcher /\ [][NextDispatcher]_varsDispatcher /\ FairDispatcher

-----------------------------------------------------------------------------
TipoDispatcher ==
  /\ tramo \in {"fuera", "ancla", "recibe", "cierra"} /\ cl \in 0 .. abiertos /\ abiertos \in 0 .. MaxConex
  /\ roto \in BOOLEAN /\ apagado \in BOOLEAN /\ recibidas \in 0 .. MaxOrdenes
  /\ mano \in Orden \cup {SinOrden}
  /\ \A c \in Conexiones, s \in Lineas :
       /\ trabajador[c][s] \in {"no", "vive", "salio"}
       /\ Len(cola[c][s]) <= TamCola /\ \A i \in DOMAIN cola[c][s] : cola[c][s][i] \in Orden
       /\ obra[c][s] = SinObra \/ (obra[c][s].orden \in Orden /\ obra[c][s].orden.linea = s
                                     /\ obra[c][s].alta \in 0 .. altas /\ obra[c][s].paso \in {"atiende", "opera"})
  /\ registro \in [Lineas -> 0 .. altas] /\ altas \in 0 .. MaxAltas
  /\ lease \in [1 .. MaxAltas -> {"cerrado", "vigente", "revocado", "sin puerta"}]
  /\ anclada \subseteq 1 .. altas

Empieza(c, s) == obra[c][s].paso # "opera" /\ obra'[c][s].paso = "opera"

(* The messages of a session reach WhatsApp one at a time and in the order *)
(* the cloud sent them, across the fall of a stream too: the dispatcher    *)
(* that dies is joined before the next one is born (dispatcher.go).        *)
OrdenPorSesion ==
  [][\A c \in Conexiones, s \in Lineas : Empieza(c, s) =>
       /\ obra[c][s].orden.n > ultima[s]
       /\ \A d \in Conexiones \ {c} : obra[d][s] = SinObra]_varsDispatcher

(* The kill-switch: once a stream has brought the revocation of a session, *)
(* nothing the cloud sends behind it on that stream reaches WhatsApp, even *)
(* if leases keep coming; only a new registration clears it.  (A worker    *)
(* that is being cancelled may still try, with a cancelled context.)       *)
KillSwitch ==
  [][\A c \in Conexiones, s \in Lineas :
       Empieza(c, s) /\ ~Cancelado(c) /\ lease[obra[c][s].alta] # "sin puerta" =>
         revocada[s] = 0 \/ obra[c][s].orden.n < revocada[s]]_varsDispatcher

(* While a stream is attended, every registered session has sent its first *)
(* heartbeat on it or is sending it: the one that registers as the stream    *)
(* opens is seen by Register or by heartbeatAll (adapter.go:413, :722).    *)
TodaSesionAnclada ==
  tramo = "recibe" =>
    \A s \in Lineas : registro[s] # 0 => registro[s] \in anclada

(* The receive loop never stays at a full queue, and a stream that is      *)
(* closing gets closed: both wait for a worker, and a worker for an        *)
(* operation that has a deadline.                                          *)
BucleSigue == (mano # SinOrden \/ tramo = "cierra") ~> (mano = SinOrden /\ tramo # "cierra")
=============================================================================
