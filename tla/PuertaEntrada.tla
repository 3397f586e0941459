---------------------------- MODULE PuertaEntrada ---------------------------
(***************************************************************************)
(* The door of the Edge: what the listener of a session does with a        *)
(* message of WhatsApp before the inbox sees it (onMessage), and what the  *)
(* acknowledgement it returns makes WhatsApp do.  ColaEntrantes has the    *)
(* rest of enqueueCola: here it leaves a row or fails.                     *)
(*                                                                         *)
(* The temporal window (inbound_window.go) compares the hour the server    *)
(* put on the message with the hour at which the socket in use came up,    *)
(* which is of the clock of the machine.  That clock may run ahead of the  *)
(* server's by as much as the margin, and may be corrected at any moment.  *)
(* The library keeps its queue of events when a socket falls: a message    *)
(* that came by one connection may be judged under the next.  It sends an  *)
(* acknowledgement only on a socket that is up, and the server repeats,    *)
(* on the next connection, what was not acknowledged.                      *)
(***************************************************************************)
EXTENDS Naturals

CONSTANTS
  Mensajes,
  Margen,       \* defaultConnectMargin
  MaxReloj,     \* bound on the clock of the server
  MaxSockets    \* bound on the connections

ASSUME PuertaAssumption == Margen \in Nat \ {0} /\ MaxReloj \in Nat /\ MaxSockets \in Nat

VARIABLES
  reloj,    \* the clock of the server
  desfase,  \* how far the local clock is ahead of it
  socket,   \* how many there have been, whether one is up, LastSuccessfulConnect, and the server's hour of it
  mensaje,  \* per message: where it is, its kind, its hour, and what it left behind
  pasiva    \* the profile of the session

varsPuerta == <<reloj, desfase, socket, mensaje, pasiva>>

Clases == {"cliente", "sin hora", "propio", "grupo"}
SinConexion == 0
Caido(n) == [n |-> n, arriba |-> FALSE, sello |-> SinConexion, desde |-> 0]
Carta(donde, clase, ts, rastro) == [donde |-> donde, clase |-> clase, ts |-> ts, rastro |-> rastro]
PorEscribir == Carta("telefono", "cliente", 0, "nada")

InitPuerta ==
  /\ reloj = 1 /\ desfase \in 0 .. Margen /\ pasiva = FALSE
  /\ socket = Caido(0)
  /\ mensaje = [m \in Mensajes |-> PorEscribir]

Pon(m, donde, rastro) == mensaje' = [mensaje EXCEPT ![m] = Carta(donde, @.clase, @.ts, rastro)]

-----------------------------------------------------------------------------
(* WhatsApp and its library. *)

Redacta(m, clase) ==
  /\ mensaje[m].donde = "telefono"
  /\ mensaje' = [mensaje EXCEPT ![m] =
                   Carta("servidor", clase, IF clase = "sin hora" THEN 0 ELSE reloj, "nada")]
  /\ UNCHANGED <<reloj, desfase, socket, pasiva>>

(* handleConnectSuccess stamps the connection; what was kept is repeated. *)
SubeElSocket ==
  /\ ~socket.arriba /\ socket.n < MaxSockets
  /\ socket' = [n |-> socket.n + 1, arriba |-> TRUE, sello |-> reloj + desfase, desde |-> reloj]
  /\ mensaje' = [m \in Mensajes |-> IF mensaje[m].donde = "retenido"
                                      THEN [mensaje[m] EXCEPT !.donde = "servidor"] ELSE mensaje[m]]
  /\ UNCHANGED <<reloj, desfase, pasiva>>

(* The stamp stays until the next success. *)
CaeElSocket ==
  /\ socket.arriba
  /\ socket' = [n |-> socket.n, arriba |-> FALSE, sello |-> socket.sello, desde |-> socket.desde]
  /\ UNCHANGED <<reloj, desfase, mensaje, pasiva>>

(* A new cycle of the listener has a new client, without queue or stamp. *)
CicloNuevo ==
  /\ ~socket.arriba /\ socket.sello # SinConexion
  /\ socket' = Caido(socket.n)
  /\ mensaje' = [m \in Mensajes |-> IF mensaje[m].donde = "mano"
                                      THEN [mensaje[m] EXCEPT !.donde = "retenido"] ELSE mensaje[m]]
  /\ UNCHANGED <<reloj, desfase, pasiva>>

Llama(m) ==
  /\ socket.arriba /\ mensaje[m].donde = "servidor"
  /\ Pon(m, "mano", mensaje[m].rastro)
  /\ UNCHANGED <<reloj, desfase, socket, pasiva>>

Pasa == reloj < MaxReloj /\ reloj' = reloj + 1 /\ UNCHANGED <<desfase, socket, mensaje, pasiva>>

Corrige == desfase' \in (0 .. Margen) \ {desfase} /\ UNCHANGED <<reloj, socket, mensaje, pasiva>>

CambiaPerfil == pasiva' = ~pasiva /\ UNCHANGED <<reloj, desfase, socket, mensaje>>

-----------------------------------------------------------------------------
(* onMessage. *)

(* resolveThreshold, without its margin.  A stamp that is missing, or that *)
(* is in the future, is the present.                                       *)
\* Mutant: the window is measured from now.
UmbralAhora == reloj + desfase

Umbral == IF socket.sello = SinConexion \/ socket.sello > reloj + desfase THEN reloj + desfase ELSE socket.sello

(* True is acknowledged, unless the socket has fallen meanwhile. *)
Acusa(m, rastro) ==
  /\ mensaje[m].donde = "mano"
  /\ Pon(m, IF socket.arriba THEN "acusado" ELSE "retenido", rastro)
  /\ UNCHANGED <<reloj, desfase, socket, pasiva>>

(* The door before the window: one's own messages, and the passive profile. *)
EnLaPuerta(m) == mensaje[m].clase = "propio" \/ pasiva
FueraDeVentana(m) == mensaje[m].clase # "sin hora" /\ mensaje[m].ts + Margen < Umbral

DescartaPuerta(m) == EnLaPuerta(m) /\ Acusa(m, "puerta")

DescartaVentana(m) == ~EnLaPuerta(m) /\ FueraDeVentana(m) /\ Acusa(m, "ventana")

DescartaGrupo(m) ==
  /\ ~EnLaPuerta(m) /\ ~FueraDeVentana(m) /\ mensaje[m].clase = "grupo"
  /\ Acusa(m, "puerta")

Encola(m) ==
  /\ ~EnLaPuerta(m) /\ ~FueraDeVentana(m) /\ mensaje[m].clase # "grupo"
  /\ Acusa(m, "fila")

(* enqueueCola fails or panics: false, and WhatsApp will send it again. *)
NoEncola(m) ==
  /\ mensaje[m].donde = "mano"
  /\ ~EnLaPuerta(m) /\ ~FueraDeVentana(m) /\ mensaje[m].clase # "grupo"
  /\ Pon(m, "retenido", mensaje[m].rastro)
  /\ UNCHANGED <<reloj, desfase, socket, pasiva>>

OnMessage(m) ==
  DescartaPuerta(m) \/ DescartaVentana(m) \/ DescartaGrupo(m) \/ Encola(m) \/ NoEncola(m)

NextPuerta ==
  \/ SubeElSocket \/ CaeElSocket \/ CicloNuevo \/ Pasa \/ Corrige \/ CambiaPerfil
  \/ \E m \in Mensajes :
       \/ Llama(m) \/ OnMessage(m)
       \/ \E clase \in Clases : Redacta(m, clase)

SpecPuerta == InitPuerta /\ [][NextPuerta]_varsPuerta

-----------------------------------------------------------------------------
TipoPuerta ==
  /\ reloj \in 1 .. MaxReloj /\ desfase \in 0 .. Margen /\ pasiva \in BOOLEAN
  /\ socket.n \in 0 .. MaxSockets /\ socket.arriba \in BOOLEAN
  /\ mensaje \in [Mensajes -> [donde : {"telefono", "servidor", "mano", "retenido", "acusado"},
                               clase : Clases, ts : 0 .. MaxReloj,
                               rastro : {"nada", "fila", "ventana", "puerta"}]]

Juzga(m, rastro) ==
  /\ mensaje[m].donde = "mano" /\ mensaje'[m].donde # "mano" /\ socket' = socket
  /\ mensaje'[m].rastro = rastro /\ mensaje[m].clase # "sin hora"

(* The window takes what it was made for.  Nothing written after the       *)
(* socket in use came up is dropped, however late the machine gets to it   *)
(* and whatever happens to its clock within the margin; and nothing older  *)
(* than the margin before that gets a row (inbound_window.go:5-16).        *)
VentanaJusta ==
  [][\A m \in Mensajes :
       /\ Juzga(m, "ventana") => mensaje[m].ts < socket.desde
       /\ Juzga(m, "fila") => mensaje[m].ts + Margen >= socket.desde]_varsPuerta
=============================================================================
