---------------------------- MODULE CicloEscucha ----------------------------
(***************************************************************************)
(* The listening cycles of one session, which SessionMgr sees as "runs" or *)
(* "has ended": each loads the DEK under a watchdog, connects, listens     *)
(* until the session is stopped, or fails and waits for the next.  And     *)
(* what unlinking the session has to clean once they have ended: its entry *)
(* in the health registry and the DEK the inbox keeps for it.              *)
(*                                                                         *)
(* Two things outlive a cycle.  A load of the DEK cannot be cancelled: an  *)
(* abandoned one returns when the dialogue of the Keychain is answered.    *)
(* And the library calls the listener from goroutines of its own, which    *)
(* Disconnect does not wait for.  The backoff is left out of the model: a  *)
(* wait ends.  So are the counters of the health registry, whose methods   *)
(* all create the entry they do not find.                                  *)
(***************************************************************************)
EXTENDS Naturals

CONSTANTS MaxCiclos   \* bound on the cycles, and so on the loads of the DEK

ASSUME CiclosAssumption == MaxCiclos \in Nat \ {0}

VARIABLES
  hilo,       \* runListener
  ciclo,      \* the cycle it is in
  cancelada,  \* the context of the session
  carga,      \* per cycle, its load of the DEK
  dek,        \* per cycle, whether the DEK it brought is in memory
  conexionWA, \* the client of the cycle in course
  llamadas,   \* callbacks of clients, of this cycle or of earlier ones, that have not returned
  despachando,\* the dispatcher of the session runs
  sobre,      \* the inbox keeps the DEK of the session (crypter)
  salud,      \* its entry in the health registry
  baja        \* how far Unlink is

hiloVars == <<hilo, ciclo, cancelada, carga, dek, conexionWA>>
varsEscucha == <<hiloVars, llamadas, despachando, sobre, salud, baja>>

Ciclos == 1 .. MaxCiclos
AvisosWA == {"Connected", "Disconnected", "LoggedOut", "Message"}
SinEntrada == "sin entrada"

InitEscucha ==
  /\ hilo = "quieto" /\ ciclo = 0 /\ cancelada = FALSE
  /\ carga = [k \in Ciclos |-> "no"] /\ dek = [k \in Ciclos |-> FALSE]
  /\ conexionWA = "nil" /\ llamadas = {}
  /\ despachando = FALSE /\ sobre = FALSE
  /\ salud = SinEntrada /\ baja = "no"

(* Registry.entry: whoever writes creates the entry. *)
ConEntrada == IF salud = SinEntrada THEN "" ELSE salud

-----------------------------------------------------------------------------
(* startListener and runListener. *)

StartListener ==
  /\ hilo = "quieto" /\ baja = "no"
  /\ hilo' = "bucle" /\ despachando' = TRUE /\ salud' = "connecting"
  /\ UNCHANGED <<ciclo, cancelada, carga, dek, conexionWA, llamadas, sobre, baja>>

RunListenOnce ==
  /\ hilo = "bucle" /\ ~cancelada /\ ciclo < MaxCiclos
  /\ ciclo' = ciclo + 1
  /\ salud' = "connecting"
  /\ carga' = [carga EXCEPT ![ciclo + 1] = "en curso"]
  /\ hilo' = "carga"
  /\ UNCHANGED <<cancelada, dek, conexionWA, llamadas, despachando, sobre, baja>>

(* custody.Load, in the goroutine of the watchdog, with the DEK or not. *)
LoadVuelve(k) ==
  /\ carga[k] \in {"en curso", "abandonada"}
  /\ carga' = [carga EXCEPT ![k] = IF @ = "en curso" THEN "devuelta" ELSE "tarde"]
  /\ \E hay \in BOOLEAN : dek' = [dek EXCEPT ![k] = hay]
  /\ UNCHANGED <<hilo, ciclo, cancelada, conexionWA, llamadas, despachando, sobre, salud, baja>>

(* Guard gets the result... *)
TomaDEK ==
  /\ hilo = "carga" /\ carga[ciclo] = "devuelta"
  /\ carga' = [carga EXCEPT ![ciclo] = "hecha"]
  /\ hilo' = IF dek[ciclo] THEN "conecta" ELSE "listener_down"
  /\ salud' = IF dek[ciclo] THEN ConEntrada ELSE salud
  /\ UNCHANGED <<ciclo, cancelada, dek, conexionWA, llamadas, despachando, sobre, baja>>

(* ...or its timer, which wins over a result that has just come. *)
\* Mutant: the load is waited for.
AbandonaNunca == FALSE

Abandona ==
  /\ hilo = "carga" /\ carga[ciclo] \in {"en curso", "devuelta"}
  /\ carga' = [carga EXCEPT ![ciclo] = IF @ = "en curso" THEN "abandonada" ELSE "tarde"]
  /\ hilo' = "dek_load_timeout"
  /\ UNCHANGED <<ciclo, cancelada, dek, conexionWA, llamadas, despachando, sobre, salud, baja>>

(* onLate: the duration is reported, the key is wiped. *)
\* Mutant: the late key is left to the collector.
OnLateSinBorrar(k) ==
  /\ carga[k] = "tarde"
  /\ carga' = [carga EXCEPT ![k] = "hecha"]
  /\ salud' = IF dek[k] THEN ConEntrada ELSE salud
  /\ UNCHANGED <<hilo, ciclo, cancelada, dek, conexionWA, llamadas, despachando, sobre, baja>>

OnLate(k) ==
  /\ carga[k] = "tarde"
  /\ carga' = [carga EXCEPT ![k] = "hecha"]
  /\ dek' = [dek EXCEPT ![k] = FALSE]
  /\ salud' = IF dek[k] THEN ConEntrada ELSE salud
  /\ UNCHANGED <<hilo, ciclo, cancelada, conexionWA, llamadas, despachando, sobre, baja>>

(* Listen: the device is loaded, the client is published and connects. *)
Serve ==
  /\ hilo = "conecta"
  /\ hilo' = "escucha" /\ conexionWA' = "abierta"
  /\ UNCHANGED <<ciclo, cancelada, carga, dek, llamadas, despachando, sobre, salud, baja>>

(* Run returns, whichever way: its deferred call wipes the DEK, and those  *)
(* of serve withdraw the client and close its socket.                      *)
SaleDeRun(porque) ==
  /\ hilo' = porque
  /\ dek' = [dek EXCEPT ![ciclo] = FALSE] /\ conexionWA' = "nil"
  /\ UNCHANGED <<ciclo, cancelada, carga, llamadas, despachando, sobre, salud, baja>>

ServeFalla == hilo = "conecta" /\ SaleDeRun("listener_down")

ServeTermina == hilo = "escucha" /\ cancelada /\ SaleDeRun("bucle")

Fallos == {"dek_load_timeout", "listener_down"}

(* The cycle has failed: degraded, with its reason, and a wait. *)
Degrada ==
  /\ hilo \in Fallos
  /\ IF cancelada THEN hilo' = "fin" /\ salud' = salud
                  ELSE hilo' = "espera" /\ salud' = hilo
  /\ UNCHANGED <<ciclo, cancelada, carga, dek, conexionWA, llamadas, despachando, sobre, baja>>

FinDeEspera ==
  /\ hilo = "espera"
  /\ hilo' = "bucle"
  /\ UNCHANGED <<ciclo, cancelada, carga, dek, conexionWA, llamadas, despachando, sobre, salud, baja>>

SignalDone ==
  /\ hilo = "bucle" /\ cancelada
  /\ hilo' = "fin"
  /\ UNCHANGED <<ciclo, cancelada, carga, dek, conexionWA, llamadas, despachando, sobre, salud, baja>>

-----------------------------------------------------------------------------
(* The library, and the listener it calls (handleEvent). *)

LlamaWA(k) ==
  /\ conexionWA = "abierta"
  /\ llamadas' = llamadas \cup {k}
  /\ conexionWA' = IF k = "LoggedOut" THEN "cerrada por WhatsApp" ELSE conexionWA
  /\ UNCHANGED <<hilo, ciclo, cancelada, carga, dek, despachando, sobre, salud, baja>>

(* onConnected, onDisconnected, onLoggedOut, and of onMessage what it does *)
(* to the registry and, through Enqueue, to the cache of the inbox.        *)
HandleEvent(k) ==
  /\ k \in llamadas
  /\ llamadas' = llamadas \ {k}
  /\ salud' = CASE k = "Connected" -> "connected"
                [] k = "Disconnected" -> "connecting"
                [] k = "LoggedOut" -> "dead"
                [] k = "Message" -> ConEntrada
  /\ sobre' \in IF k = "Message" THEN {sobre, TRUE} ELSE {sobre}
  /\ UNCHANGED <<hiloVars, despachando, baja>>

-----------------------------------------------------------------------------
(* The dispatcher asks the inbox for the head in each round. *)

CabezaDeSesionAbre ==
  /\ despachando
  /\ sobre' = TRUE
  /\ UNCHANGED <<hiloVars, llamadas, despachando, salud, baja>>

DespachadorSale ==
  /\ despachando /\ cancelada
  /\ despachando' = FALSE
  /\ UNCHANGED <<hiloVars, llamadas, sobre, salud, baja>>

-----------------------------------------------------------------------------
(* stopLive, called by Unlink. *)

StopLiveCancela ==
  /\ baja = "no"
  /\ baja' = "une" /\ cancelada' = TRUE
  /\ UNCHANGED <<hilo, ciclo, carga, dek, conexionWA, llamadas, despachando, sobre, salud>>

(* Both joins, then Forget. *)
\* Mutant: as it was before plan 051, the cache is emptied before the goroutines are joined.
OlvidaAntesDeUnir ==
  /\ baja = "une"
  /\ baja' = "olvida" /\ sobre' = FALSE
  /\ UNCHANGED <<hiloVars, llamadas, despachando, salud>>

UneYOlvida ==
  /\ baja = "une" /\ hilo \in {"quieto", "fin"} /\ ~despachando
  /\ baja' = "olvida" /\ sobre' = FALSE
  /\ UNCHANGED <<hiloVars, llamadas, despachando, salud>>

RemoveSalud ==
  /\ baja = "olvida"
  /\ baja' = "hecha" /\ salud' = SinEntrada
  /\ UNCHANGED <<hiloVars, llamadas, despachando, sobre>>

HiloSigue ==
  \/ RunListenOnce \/ TomaDEK \/ Abandona \/ Serve \/ ServeFalla \/ ServeTermina
  \/ Degrada \/ FinDeEspera \/ SignalDone

NextEscucha ==
  \/ StartListener \/ HiloSigue
  \/ \E k \in Ciclos : LoadVuelve(k) \/ OnLate(k)
  \/ \E k \in AvisosWA : LlamaWA(k) \/ HandleEvent(k)
  \/ CabezaDeSesionAbre \/ DespachadorSale
  \/ StopLiveCancela \/ UneYOlvida \/ RemoveSalud

(* The goroutine of the session runs, its dials and waits end, and so does *)
(* the dispatcher once cancelled.  Nothing is assumed of custody.Load.     *)
FairEscucha ==
  /\ WF_varsEscucha(HiloSigue) /\ WF_varsEscucha(DespachadorSale)
  /\ WF_varsEscucha(UneYOlvida \/ RemoveSalud)

SpecEscucha == InitEscucha /\ [][NextEscucha]_varsEscucha /\ FairEscucha

-----------------------------------------------------------------------------
TipoEscucha ==
  /\ hilo \in {"quieto", "bucle", "carga", "conecta", "escucha", "espera", "fin"} \cup Fallos
  /\ ciclo \in 0 .. MaxCiclos /\ cancelada \in BOOLEAN
  /\ carga \in [Ciclos -> {"no", "en curso", "devuelta", "abandonada", "tarde", "hecha"}]
  /\ dek \in [Ciclos -> BOOLEAN]
  /\ conexionWA \in {"nil", "abierta", "cerrada por WhatsApp"} /\ llamadas \subseteq AvisosWA
  /\ despachando \in BOOLEAN /\ sobre \in BOOLEAN
  /\ salud \in {SinEntrada, "", "connecting", "connected", "dead"} \cup Fallos
  /\ baja \in {"no", "une", "olvida", "hecha"}

(* The DEK is in clear in memory only while the socket it opened lives     *)
(* (app/listen.go:21-23), or for as long as a load takes to be picked up:  *)
(* whichever way a cycle ends, and whenever an abandoned load returns.     *)
DEKBorrada ==
  \A k \in Ciclos :
    dek[k] => carga[k] \in {"devuelta", "tarde"} \/ (k = ciclo /\ hilo \in {"conecta", "escucha"})

(* Once the joined session has been forgotten, neither its health nor its  *)
(* key comes back, save by what the join cannot reach: a callback of the   *)
(* library, or an abandoned load (unlink.go:178-195).                      *)
NadaTrasUnir ==
  [][/\ baja \in {"olvida", "hecha"} /\ ~sobre /\ sobre' => "Message" \in llamadas \ llamadas'
     /\ baja = "hecha" /\ salud = SinEntrada /\ salud' # SinEntrada =>
          llamadas' # llamadas \/ \E k \in Ciclos : carga[k] = "tarde" /\ carga'[k] = "hecha"]_varsEscucha

(* A session that is being unlinked gets unlinked, even if the dialogue of *)
(* the Keychain is never answered (app/listen.go:37-44).                   *)
BajaTermina == baja = "une" ~> baja = "hecha"
=============================================================================
