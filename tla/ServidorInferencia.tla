------------------------- MODULE ServidorInferencia -------------------------
(***************************************************************************)
(* The inference server of `agent cajero`: the handlers that serve the     *)
(* requests of the Cloud (Inferir), the circuit breaker and the aforo they *)
(* share, and the notice that the prompt prefix went cold.                 *)
(*                                                                         *)
(* A handler runs on its own goroutine; the breaker and the aforo are      *)
(* atomic, what a handler remembers of them is not.  The local model is    *)
(* outside the repository: it answers, late or in time, or it does not.    *)
(***************************************************************************)
EXTENDS Naturals, FiniteSets

CONSTANTS
  Peticiones,     \* requests that may be in flight at a time (each may come again)
  Calentamientos, \* the ones that are a warm-up
  Umbral,         \* breaker.threshold
  Ventana,        \* breaker.openFor, in ticks of the clock
  Plazas,         \* the capacity of the aforo
  MaxAvisos       \* bound on the notices in flight

ASSUME PeticionesAssumption == IsFiniteSet(Peticiones) /\ Calentamientos \subseteq Peticiones
ASSUME UmbralAssumption == Umbral \in Nat \ {0} /\ Ventana \in Nat \ {0}
ASSUME PlazasAssumption == Plazas \in Nat \ {0} /\ MaxAvisos \in Nat \ {0}

VARIABLES
  failures,   \* Breaker.failures, capped at Umbral: it is only compared with it
  ventana,    \* ticks until openUntil (0 once it is past)
  probing,    \* Breaker.probing
  pc,         \* per request: where its handler is
  eraSondeo,  \* per request: what State() said before BeginAttempt
  colgada,    \* per request: its ctx is cancelled (the client hung up)
  avisado,    \* Cajero.prefijoFrioAvisado
  avisando,   \* goroutines with a notice on its way
  sondea,     \* ghost: the requests in flight that BeginAttempt gave the probe to
  enfermo,    \* ghost: the model has failed, or been slow, since its last success
  rezagadas,  \* ghost: the requests that success found still to try, after reading half-open
  enterado    \* ghost: a notice has arrived since the last warm inference

circuito == <<failures, ventana, probing>>
prefijo  == <<avisado, avisando, enterado>>
historia == <<enfermo, rezagadas>>
vars == <<circuito, pc, eraSondeo, colgada, prefijo, sondea, historia>>

Cuenta(p) == p \notin Calentamientos
EnPlaza   == {p \in Peticiones : pc[p] \in {"modelo", "servida", "fallida"}}

\* The requests that read half-open and have neither tried nor given up.
Indecisas == {p \in Peticiones : eraSondeo[p] /\ pc[p] \in {"pide", "espera", "modelo"}}

TypeOK ==
  /\ failures \in 0 .. Umbral /\ ventana \in 0 .. Ventana /\ probing \in BOOLEAN
  /\ pc \in [Peticiones -> {"fuera", "estado", "pide", "espera", "modelo", "servida", "fallida"}]
  /\ eraSondeo \in [Peticiones -> BOOLEAN] /\ colgada \in [Peticiones -> BOOLEAN]
  /\ avisado \in BOOLEAN /\ avisando \in 0 .. MaxAvisos /\ enterado \in BOOLEAN
  /\ sondea \subseteq {p \in Peticiones : pc[p] # "fuera"}
  /\ enfermo \in BOOLEAN /\ rezagadas \subseteq Peticiones
  /\ Cardinality(EnPlaza) <= Plazas

Init ==
  /\ failures = 0 /\ ventana = 0 /\ probing = FALSE
  /\ pc = [p \in Peticiones |-> "fuera"]
  /\ eraSondeo = [p \in Peticiones |-> FALSE]
  /\ colgada = [p \in Peticiones |-> FALSE]
  /\ avisado = FALSE /\ avisando = 0 /\ enterado = FALSE
  /\ sondea = {} /\ enfermo = FALSE /\ rezagadas = {}

-----------------------------------------------------------------------------
(***************************************************************************)
(* breaker.Breaker: each method under its own mutex.                       *)
(***************************************************************************)
Cerrado      == failures < Umbral
Abierto      == ~Cerrado /\ ventana > 0
MedioAbierto == ~Cerrado /\ ventana = 0

RecordSuccess == failures' = 0 /\ probing' = FALSE /\ ventana' = 0

RecordFailure ==
  /\ failures' = IF Cerrado THEN failures + 1 ELSE failures
  /\ probing' = FALSE
  /\ ventana' = IF failures' = Umbral THEN Ventana ELSE ventana

Tic ==
  /\ ventana > 0
  /\ ventana' = ventana - 1
  /\ UNCHANGED <<failures, probing, pc, eraSondeo, colgada, prefijo, sondea, historia>>
-----------------------------------------------------------------------------
(***************************************************************************)
(* Inferir.                                                                *)
(***************************************************************************)
Pasa(p, l)  == pc' = [pc EXCEPT ![p] = l]

\* Inferir returns: what the handler knew goes with it.
Responde(p) ==
  /\ Pasa(p, "fuera")
  /\ eraSondeo' = [eraSondeo EXCEPT ![p] = FALSE]
  /\ colgada' = [colgada EXCEPT ![p] = FALSE]
  /\ sondea' = sondea \ {p}

\* A warm-up does not ask the breaker.
Llega(p) ==
  /\ pc[p] = "fuera"
  /\ Pasa(p, IF Cuenta(p) THEN "estado" ELSE "espera")
  /\ UNCHANGED <<circuito, eraSondeo, colgada, prefijo, sondea, historia>>

\* The daemon gives up, the stream falls, or the process is told to stop.
Cuelga(p) ==
  /\ pc[p] # "fuera" /\ ~colgada[p]
  /\ colgada' = [colgada EXCEPT ![p] = TRUE]
  /\ UNCHANGED <<circuito, pc, eraSondeo, prefijo, sondea, historia>>

LeeEstado(p) ==
  /\ pc[p] = "estado"
  /\ eraSondeo' = [eraSondeo EXCEPT ![p] = MedioAbierto]
  /\ Pasa(p, "pide")
  /\ UNCHANGED <<circuito, colgada, prefijo, sondea, historia>>

\* Closed: go on.  Half-open: the first one takes the probe.  Otherwise the
\* request is answered BREAKER_OPEN.
BeginAttempt(p) ==
  /\ pc[p] = "pide"
  /\ \/ /\ Cerrado
        /\ Pasa(p, "espera")
        /\ UNCHANGED <<probing, eraSondeo, colgada, sondea>>
     \/ /\ MedioAbierto /\ ~probing
        /\ probing' = TRUE /\ sondea' = sondea \cup {p}
        /\ Pasa(p, "espera")
        /\ UNCHANGED <<eraSondeo, colgada>>
     \/ /\ Abierto \/ (MedioAbierto /\ probing)
        /\ Responde(p) /\ UNCHANGED probing
  /\ UNCHANGED <<failures, ventana, prefijo, historia>>

\* Mutant: a request that gives up always counts as a failure.
CierraComoFallo(p) == RecordFailure

\* A permission that was not used is a failure only if it was the probe.
CerrarSinIntentar(p) == IF eraSondeo[p] THEN RecordFailure ELSE UNCHANGED circuito

TomaPlaza(p) ==
  /\ pc[p] = "espera" /\ Cardinality(EnPlaza) < Plazas
  /\ Pasa(p, "modelo")
  /\ UNCHANGED <<circuito, eraSondeo, colgada, prefijo, sondea, historia>>

\* Mutant: only the ctx ends the wait for a place.
SinPlazaSinPlazo(p) ==
  /\ pc[p] = "espera" /\ colgada[p]
  /\ CerrarSinIntentar(p) /\ Responde(p)
  /\ UNCHANGED <<prefijo, historia>>

\* The plazo runs out, or the ctx is cancelled, while it waits for a place; or
\* the place comes with no plazo left.
SinPlaza(p) ==
  /\ pc[p] \in {"espera", "modelo"}
  /\ CerrarSinIntentar(p) /\ Responde(p)
  /\ UNCHANGED <<prefijo, historia>>

ModeloFalla == enfermo' = TRUE /\ rezagadas' = {}

\* chat returns an answer; one that took most of its plazo counts as a failure.
Acierto(p) ==
  /\ pc[p] = "modelo"
  /\ IF Cuenta(p)
       THEN \/ RecordSuccess /\ enfermo' = FALSE /\ rezagadas' = Indecisas \ {p}
            \/ RecordFailure /\ ModeloFalla
       ELSE UNCHANGED <<circuito, historia>>
  /\ Pasa(p, "servida")
  /\ UNCHANGED <<eraSondeo, colgada, prefijo, sondea>>

\* avisarPrefijoFrio: the CompareAndSwap lets one goroutine go.
AvisarPrefijoFrio ==
  /\ IF avisado THEN UNCHANGED <<avisado, avisando>>
                ELSE avisando < MaxAvisos /\ avisado' = TRUE /\ avisando' = avisando + 1
  /\ UNCHANGED enterado

\* What the prefill says: cold, warm (the episode is over), or neither.
Regimen(p) ==
  /\ pc[p] = "servida"
  /\ \/ Cuenta(p) /\ AvisarPrefijoFrio
     \/ avisado' = FALSE /\ enterado' = FALSE /\ UNCHANGED avisando
     \/ UNCHANGED prefijo
  /\ Responde(p)
  /\ UNCHANGED <<circuito, historia>>

\* chat fails and the ctx of the request is gone: nobody to answer.
Aborta(p) ==
  /\ pc[p] = "modelo" /\ colgada[p]
  /\ CerrarSinIntentar(p) /\ Responde(p)
  /\ UNCHANGED <<prefijo, historia>>

\* chat fails: the plazo ran out with the model at work, which is taken as a
\* cold prefix, or the provider is down.
Fallo(p) ==
  /\ pc[p] = "modelo" /\ ~colgada[p]
  /\ (Cuenta(p) /\ AvisarPrefijoFrio) \/ UNCHANGED prefijo
  /\ Pasa(p, "fallida")
  /\ UNCHANGED <<circuito, eraSondeo, colgada, sondea, historia>>

RegistrarFallo(p) ==
  /\ pc[p] = "fallida"
  /\ IF Cuenta(p) THEN RecordFailure /\ ModeloFalla ELSE UNCHANGED <<circuito, historia>>
  /\ Responde(p)
  /\ UNCHANGED <<prefijo>>

\* Mutant: a notice that is lost leaves the guard up.
AvisoSinRearmar ==
  /\ avisando > 0
  /\ avisando' = avisando - 1
  /\ enterado' \in {enterado, TRUE}
  /\ UNCHANGED <<circuito, pc, eraSondeo, colgada, avisado, sondea, historia>>

\* The goroutine of a notice ends: it arrived, or the guard is armed again.
Aviso ==
  /\ avisando > 0
  /\ avisando' = avisando - 1
  /\ \/ enterado' = TRUE /\ UNCHANGED avisado
     \/ avisado' = FALSE /\ UNCHANGED enterado
  /\ UNCHANGED <<circuito, pc, eraSondeo, colgada, sondea, historia>>

NextServidor(p) ==
  \/ LeeEstado(p) \/ BeginAttempt(p) \/ TomaPlaza(p) \/ SinPlaza(p)
  \/ Acierto(p) \/ Regimen(p) \/ Aborta(p) \/ Fallo(p) \/ RegistrarFallo(p)

Next ==
  \/ \E p \in Peticiones : Llega(p) \/ Cuelga(p) \/ NextServidor(p)
  \/ Aviso \/ Tic

\* The handlers run, chat and the timer of the plazo return, a notice ends.
Spec      == Init /\ [][Next]_vars
SpecJusta == Spec /\ (\A p \in Peticiones : WF_vars(NextServidor(p))) /\ WF_vars(Aviso)
-----------------------------------------------------------------------------
\* Every failure the breaker counts has a cause: while the model has not failed since
\* its last success, there is at most one for each request which that success found
\* still to try with a State() it had read half-open (servidor.go:139-141).  Requests
\* that came later, that found no place or that are warm-ups never add any,
\* however many they are (servidor.go:567-570).
FalloConCausa == ~enfermo => failures <= Cardinality(rezagadas)

\* A notice that is lost does not silence the episode: with the guard up and no
\* notice on its way, one has arrived since the last warm inference.
AvisoNoSeCalla == avisado /\ avisando = 0 => enterado

\* Every request is answered: the wait for a place is bounded by the plazo even
\* if others keep taking it.
TodaPeticionResponde == \A p \in Peticiones : pc[p] # "fuera" ~> pc[p] = "fuera"

\* servidor.go: leaving the probe reserved for ever "exigiria que cinco fallos y
\* sesenta segundos cupieran entre dos instrucciones".  Whoever the probe is
\* reserved for is still there to resolve it.
SondeoConDuenno == probing => sondea # {}
=============================================================================
