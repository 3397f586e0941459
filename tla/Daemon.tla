-------------------------------- MODULE Daemon --------------------------------
(***************************************************************************)
(* Daemon.Run: the start-up of the daemon, step by step and with the       *)
(* failures that end it, its service, and its shutdown: close /v1 (five    *)
(* seconds for the requests in flight), Manager.Stop, the final block of   *)
(* the latency heartbeat, and the deferred closes of the two databases.    *)
(*                                                                         *)
(* Sessions and pairings hang from context.Background: only Stop cancels a *)
(* session, and nobody a pairing.  SessionMgr has their detail; here a     *)
(* pairing registers a session and then arms it, and an armed session      *)
(* writes rows into the inbox and seals them.  The diagnostic injection of *)
(* /v1 writes a row as well, through the listener of a session but on the  *)
(* thread and the context of its request.  The stream to the cloud and the *)
(* proactive refresh hang from the context of the daemon; nobody waits for *)
(* them, and the refresh, which touches nothing of this module, is left    *)
(* out.                                                                    *)
(***************************************************************************)
EXTENDS Naturals, FiniteSets

CONSTANTS
  Activas,      \* the sessions that were active when the daemon starts
  Nuevas,       \* the sessions the control plane may pair
  MaxEntrantes  \* bound on the rows pending in the inbox

ASSUME SesionesAssumption == Activas \cap Nuevas = {}
ASSUME EntrantesAssumption == MaxEntrantes \in Nat

VARIABLES
  enRun,       \* where Daemon.Run is
  abiertas,    \* the databases that are open
  plano,       \* the server of /v1: no, sirve, caido or cerrado
  handler,     \* the request of /v1 in flight: no, atiende, or inyecta (it holds a listener)
  senal,       \* the context of the daemon is cancelled
  flujoNube,   \* the goroutine of Adapter.Run: no, corre or fin
  latencia,    \* the goroutine of Latido: no, corre, parar or fin
  registradas, \* Manager.live
  escuchan,    \* the sessions whose threads run (the WaitGroup)
  canceladas,  \* the sessions whose context is cancelled
  par,         \* per new session: the pairing that creates it
  pendientes,  \* rows of the inbox that are not dispatched
  foto,        \* cola_pendientes of the final block ({} before it, or if the COUNT fails)
  tardias,     \* ghost: sessions armed after Stop had returned
  inyectada    \* ghost: a row was injected after Stop had returned

sesionesD == <<registradas, escuchan, canceladas, tardias>>
colaD     == <<pendientes, foto, inyectada>>
varsD     == <<enRun, abiertas, plano, handler, senal, flujoNube, latencia, sesionesD, par, colaD>>

PasosRun == {"BD", "cola", "cableado", "restaura", "socket", "sirve", "cierra", "para", "espera",
             "bloque", "sale", "fin"}

TipoDaemon ==
  /\ enRun \in PasosRun /\ abiertas \subseteq {"edge", "cola"}
  /\ plano \in {"no", "sirve", "caido", "cerrado"} /\ handler \in {"no", "atiende", "inyecta"}
  /\ {senal, inyectada} \subseteq BOOLEAN
  /\ flujoNube \in {"no", "corre", "fin"} /\ latencia \in {"no", "corre", "parar", "fin"}
  /\ {registradas, escuchan, canceladas, tardias} \subseteq SUBSET (Activas \cup Nuevas)
  /\ par \in [Nuevas -> {"no", "corre", "registrado", "guardado", "fin"}]
  /\ pendientes \in 0 .. MaxEntrantes /\ foto \subseteq 0 .. MaxEntrantes

\* Any number of rows may be waiting from the last life of the daemon.
InitDaemon ==
  /\ enRun = "BD" /\ abiertas = {} /\ plano = "no" /\ handler = "no" /\ senal = FALSE
  /\ flujoNube = "no" /\ latencia = "no"
  /\ registradas = {} /\ escuchan = {} /\ canceladas = {} /\ tardias = {}
  /\ par = [n \in Nuevas |-> "no"]
  /\ pendientes \in 0 .. MaxEntrantes /\ foto = {} /\ inyectada = FALSE

----------------------------------------------------------------------------
(* Start-up.  A step that fails makes Run return: only the deferred closes *)
(* run, and whatever already listens is neither cancelled nor waited for.  *)

\* Opens the database b and goes on; it may not open, or open and then fail.
AbreBase(b, sigue) ==
  /\ \/ enRun' = sigue /\ abiertas' = abiertas \cup {b}
     \/ enRun' = "sale" /\ abiertas' \in {abiertas, abiertas \cup {b}}
  /\ UNCHANGED <<plano, handler, senal, flujoNube, latencia, sesionesD, par, colaD>>

\* Open, Migrate and the restoration of archived sessions, whose error is only logged.
AbreBD == enRun = "BD" /\ AbreBase("edge", "cola")

\* OpenCola, MigrateCola and BuildCola: without the inbox there is no daemon.
AbreCola == enRun = "cola" /\ AbreBase("cola", "cableado")

\* The stream is launched if there is an endpoint that can be dialled.
BuildMux == flujoNube' \in {"no", "corre"}

\* The wiring: nothing in it is fatal; the stream becomes a thread (and the refresh, left out).
Cablea ==
  /\ enRun = "cableado" /\ enRun' = "restaura" /\ BuildMux
  /\ UNCHANGED <<abiertas, plano, handler, senal, latencia, sesionesD, par, colaD>>

\* The list of active sessions may fail; a session whose custody is invalid is skipped.
RestoreSesiones ==
  /\ enRun = "restaura"
  /\ \/ enRun' = "sale" /\ UNCHANGED sesionesD
     \/ \E sanas \in SUBSET Activas :
          /\ enRun' = "socket" /\ registradas' = sanas /\ escuchan' = sanas
          /\ UNCHANGED <<canceladas, tardias>>
  /\ UNCHANGED <<abiertas, plano, handler, senal, flujoNube, latencia, par, colaD>>

\* The socket may not be available; otherwise the server and Latido start.
ListenV1 ==
  /\ enRun = "socket"
  /\ \/ enRun' = "sale" /\ UNCHANGED <<plano, latencia>>
     \/ enRun' = "sirve" /\ plano' = "sirve" /\ latencia' = "corre"
  /\ UNCHANGED <<abiertas, handler, senal, flujoNube, sesionesD, par, colaD>>

----------------------------------------------------------------------------
(* What goes on meanwhile.                                                 *)

SenalDeCierre ==
  /\ ~senal /\ senal' = TRUE
  /\ UNCHANGED <<enRun, abiertas, plano, handler, flujoNube, latencia, sesionesD, par, colaD>>

CaeV1 ==
  /\ plano = "sirve" /\ plano' = "caido"
  /\ UNCHANGED <<enRun, abiertas, handler, senal, flujoNube, latencia, sesionesD, par, colaD>>

StopVolvio == enRun \in {"bloque", "sale", "fin"}

\* A request arrives while /v1 serves, and ends when its handler returns.
Peticion ==
  /\ \/ plano = "sirve" /\ handler = "no" /\ handler' = "atiende"
     \/ handler = "atiende" /\ handler' = "no"
  /\ UNCHANGED <<enRun, abiertas, plano, senal, flujoNube, latencia, sesionesD, par, colaD>>

\* The opt-in diagnostic injection takes the live listener of a session...
TomaListener ==
  /\ handler = "atiende" /\ registradas \cap escuchan # {} /\ handler' = "inyecta"
  /\ UNCHANGED <<enRun, abiertas, plano, senal, flujoNube, latencia, sesionesD, par, colaD>>

\* ... and runs its handler, whether that session still listens or not.
InyectarEntrante ==
  /\ handler = "inyecta" /\ handler' = "atiende"
  /\ \/ UNCHANGED <<pendientes, inyectada>>
     \/ /\ "cola" \in abiertas /\ pendientes < MaxEntrantes /\ pendientes' = pendientes + 1
        /\ inyectada' = (inyectada \/ StopVolvio)
  /\ UNCHANGED <<enRun, abiertas, plano, senal, flujoNube, latencia, sesionesD, par, foto>>

\* pairManager.start: one pairing at a time, in a goroutine that outlives its request.
StartPairing(n) ==
  /\ handler = "atiende" /\ par[n] = "no" /\ \A o \in Nuevas : par[o] \in {"no", "fin"}
  /\ par' = [par EXCEPT ![n] = "corre"]
  /\ UNCHANGED <<enRun, abiertas, plano, handler, senal, flujoNube, latencia, sesionesD, colaD>>

ParRegistra(n) ==
  /\ par[n] = "corre"
  /\ par' = [par EXCEPT ![n] = "registrado"] /\ registradas' = registradas \cup {n}
  /\ UNCHANGED <<enRun, abiertas, plano, handler, senal, flujoNube, latencia, escuchan, canceladas,
                 tardias, colaD>>

\* The active row is stored, if the database is still open.
ParGuarda(n) ==
  /\ par[n] = "registrado" /\ "edge" \in abiertas /\ par' = [par EXCEPT ![n] = "guardado"]
  /\ UNCHANGED <<enRun, abiertas, plano, handler, senal, flujoNube, latencia, sesionesD, colaD>>

\* The pairing fails, or its row cannot be stored: nothing is left registered.
ParFalla(n) ==
  /\ par[n] \in {"corre", "registrado"}
  /\ par' = [par EXCEPT ![n] = "fin"] /\ registradas' = registradas \ {n}
  /\ UNCHANGED <<enRun, abiertas, plano, handler, senal, flujoNube, latencia, escuchan, canceladas,
                 tardias, colaD>>

\* startListener, which looks neither at the daemon's context nor at a Stop under way.
ParArma(n) ==
  /\ par[n] = "guardado"
  /\ par' = [par EXCEPT ![n] = "fin"] /\ escuchan' = escuchan \cup {n}
  /\ tardias' = IF StopVolvio THEN tardias \cup {n} ELSE tardias
  /\ UNCHANGED <<enRun, abiertas, plano, handler, senal, flujoNube, latencia, registradas,
                 canceladas, colaD>>

\* The listener of s writes a row, or its dispatcher seals one; neither can on a closed inbox.
Entrante(s) ==
  /\ s \in escuchan /\ "cola" \in abiertas
  /\ pendientes' \in {pendientes - 1, pendientes + 1} \cap (0 .. MaxEntrantes)
  /\ UNCHANGED <<enRun, abiertas, plano, handler, senal, flujoNube, latencia, sesionesD, par, foto,
                 inyectada>>

\* Both threads of s end once its context is cancelled.
EscuchaSale(s) ==
  /\ s \in escuchan \cap canceladas /\ escuchan' = escuchan \ {s}
  /\ UNCHANGED <<enRun, abiertas, plano, handler, senal, flujoNube, latencia, registradas,
                 canceladas, tardias, par, colaD>>

\* Adapter.Run returns when the context of the daemon is cancelled.
FlujoSale ==
  /\ flujoNube = "corre" /\ senal /\ flujoNube' = "fin"
  /\ UNCHANGED <<enRun, abiertas, plano, handler, senal, latencia, sesionesD, par, colaD>>

----------------------------------------------------------------------------
(* Shutdown.                                                               *)

\* The select of Run (the signal, or the server that fell) and the close of the socket.
SaleDelSelect ==
  /\ enRun = "sirve" /\ (senal \/ plano = "caido")
  /\ enRun' = "cierra" /\ plano' = "cerrado"
  /\ UNCHANGED <<abiertas, handler, senal, flujoNube, latencia, sesionesD, par, colaD>>

\* Server.Shutdown returns with no request in flight, or after five seconds with one.
ShutdownV1 ==
  /\ enRun = "cierra" /\ enRun' = "para"
  /\ UNCHANGED <<abiertas, plano, handler, senal, flujoNube, latencia, sesionesD, par, colaD>>

\* Manager.Stop cancels the registered sessions that are armed...
StopManager ==
  /\ enRun = "para" /\ enRun' = "espera"
  /\ canceladas' = canceladas \cup (registradas \cap escuchan)
  /\ UNCHANGED <<abiertas, plano, handler, senal, flujoNube, latencia, registradas, escuchan,
                 tardias, par, colaD>>

\* Mutant: Stop does not wait for the threads it has cancelled.
StopSinEspera ==
  /\ enRun = "espera" /\ enRun' = "bloque" /\ latencia' = "parar"
  /\ UNCHANGED <<abiertas, plano, handler, senal, flujoNube, sesionesD, par, colaD>>

\* ... and waits for all their threads; then Latido is told to end.
StopEspera ==
  /\ enRun = "espera" /\ escuchan = {} /\ enRun' = "bloque" /\ latencia' = "parar"
  /\ UNCHANGED <<abiertas, plano, handler, senal, flujoNube, sesionesD, par, colaD>>

\* The final block counts the inbox under its own deadline; Run waits for it.
BloqueFinal ==
  /\ latencia = "parar" /\ latencia' = "fin" /\ enRun = "bloque" /\ enRun' = "sale"
  /\ foto' \in {{}, {pendientes}}
  /\ UNCHANGED <<abiertas, plano, handler, senal, flujoNube, sesionesD, par, pendientes, inyectada>>

\* The deferred calls, last in, first out: the inbox, the database, the context.
Difiere ==
  /\ enRun = "sale"
  /\ IF abiertas = {}
     THEN enRun' = "fin" /\ senal' = TRUE /\ UNCHANGED abiertas
     ELSE /\ abiertas' = abiertas \ {IF "cola" \in abiertas THEN "cola" ELSE "edge"}
          /\ UNCHANGED <<enRun, senal>>
  /\ UNCHANGED <<plano, handler, flujoNube, latencia, sesionesD, par, colaD>>

NextDaemon ==
  \/ AbreBD \/ AbreCola \/ Cablea \/ RestoreSesiones \/ ListenV1
  \/ SenalDeCierre \/ CaeV1 \/ Peticion \/ TomaListener \/ InyectarEntrante \/ FlujoSale
  \/ \E n \in Nuevas :
       StartPairing(n) \/ ParRegistra(n) \/ ParGuarda(n) \/ ParFalla(n) \/ ParArma(n)
  \/ \E s \in Activas \cup Nuevas : Entrante(s) \/ EscuchaSale(s)
  \/ SaleDelSelect \/ ShutdownV1 \/ StopManager \/ StopEspera \/ BloqueFinal \/ Difiere

SpecDaemon == InitDaemon /\ [][NextDaemon]_varsD

----------------------------------------------------------------------------
\* When the daemon shuts down in order, no session it had started meets a closed
\* inbox, and the count of the final block stays true: nothing is written or
\* dispatched after it.  Two things are outside of it: a session that a pairing arms
\* once Stop has returned, and a diagnostic injection whose request outlives the five
\* seconds of Shutdown (daemon.go:363-377, manager.go:388-393).
CierreEnOrden ==
  plano = "cerrado" /\ tardias = {} =>
    /\ "cola" \notin abiertas => escuchan = {}
    /\ ~inyectada => \A f \in foto : f = pendientes
=============================================================================
