-------------------------- MODULE CarrilInferencia -------------------------
(***************************************************************************)
(* The lane of the inference requests of CloudLink, and what the Edge says *)
(* to the cloud about its capacity to serve them: the readiness.           *)
(*                                                                         *)
(* The lane lives with its stream: no buffer, a fixed number of workers,   *)
(* one lease gate with a grace, one call to the cajero (inferenciacliente) *)
(* per request.  The readiness outlives streams.  It is written by the     *)
(* workers, from what the cajero answers, and by the notices of the cajero *)
(* (control/server/readiness.go); every heartbeat reads it as it is built  *)
(* and is sent a little later.  The heartbeats of one heartbeatAll are one *)
(* here: the cloud keeps one readiness per Edge.                           *)
(***************************************************************************)
EXTENDS Naturals, Sequences, FiniteSets

CONSTANTS
  Inferencias,  \* the command ids of the requests; the cloud may repeat one
  Obreros,      \* the workers of the lane (inferenciaMaxInflight)
  Avisos,       \* the handlers of POST /v1/inference/readiness
  SinInferencia \* what an idle worker serves

ASSUME CarrilAssumption ==
  /\ IsFiniteSet(Inferencias) /\ Obreros # {} /\ Obreros \cap Avisos = {}
  /\ SinInferencia \notin Inferencias

VARIABLES
  fase,        \* the stream of runOnce: "fuera", "abierto", "cortado" (nobody has seen it), "cierra"
  enVuelo,     \* carrilInferencia.enVuelo
  obrero,      \* per worker, its request and where it is
  infReadiness,\* Adapter.infReadiness
  marca,       \* MarcarInferenciaReadiness in progress, per thread that runs it
  latido,      \* what the heartbeat loop is about to send
  nube,        \* the readiness the cloud last saw
  cajeroVivo   \* whether the cajero and its provider are there

obreroVars == <<enVuelo, obrero>>
varsCarril == <<fase, obreroVars, infReadiness, marca, latido, nube, cajeroVivo>>

Hilos == Obreros \cup Avisos
Readiness == {"desconocida", "listo", "caida"}
Ocioso == [id |-> SinInferencia, paso |-> "libre"]
SinLatido == "nada"

(* MarcarInferenciaReadiness as each thread runs it: the values still to   *)
(* be marked, and the heartbeat on its way.                                *)
Plan(valores) == [valores |-> valores, paso |-> IF valores = <<>> THEN "fin" ELSE "marca", valor |-> SinLatido]
SinPlan == Plan(<<>>)

InitCarril ==
  /\ fase = "fuera"
  /\ enVuelo = {} /\ obrero = [w \in Obreros |-> Ocioso]
  /\ infReadiness = "desconocida" /\ marca = [h \in Hilos |-> SinPlan] /\ latido = SinLatido
  /\ nube = "desconocida" /\ cajeroVivo \in BOOLEAN

(* What the cloud learns from a heartbeat.                                 *)
Llega(valor) == nube' = valor

-----------------------------------------------------------------------------
(* The stream.  runOnce opens it with a heartbeat and an empty enVuelo.    *)

Abre ==
  /\ fase = "fuera"
  /\ fase' = "abierto"
  /\ enVuelo' = {}
  /\ latido' = infReadiness
  /\ UNCHANGED <<obrero, infReadiness, marca, nube, cajeroVivo>>

(* The heartbeats on their way are lost with it. *)
Corta ==
  /\ fase = "abierto"
  /\ fase' = "cortado"
  /\ latido' = SinLatido
  /\ marca' = [h \in Hilos |-> IF marca[h].paso = "envia" THEN Plan(Tail(marca[h].valores)) ELSE marca[h]]
  /\ UNCHANGED <<obreroVars, infReadiness, nube, cajeroVivo>>

DejaDeRecibir ==
  /\ fase = "cortado"
  /\ fase' = "cierra"
  /\ UNCHANGED <<obreroVars, infReadiness, marca, latido, nube, cajeroVivo>>

(* shutdown: cancels the inferences in flight and waits for the workers. *)
ShutdownCarril ==
  /\ fase = "cierra" /\ \A w \in Obreros : obrero[w] = Ocioso
  /\ fase' = "fuera"
  /\ UNCHANGED <<obreroVars, infReadiness, marca, latido, nube, cajeroVivo>>

(* heartbeatLoop: each heartbeat reads the readiness and is sent after. *)
LatidoLee ==
  /\ fase = "abierto" /\ latido = SinLatido
  /\ latido' = infReadiness
  /\ UNCHANGED <<fase, obreroVars, infReadiness, marca, nube, cajeroVivo>>

\* Mutant: the periodic heartbeat carries no readiness, only the one of a transition does.
LatidoSinReadiness ==
  /\ latido # SinLatido /\ latido' = SinLatido
  /\ UNCHANGED <<fase, obreroVars, infReadiness, marca, nube, cajeroVivo>>

LatidoEnvia ==
  /\ latido # SinLatido /\ latido' = SinLatido
  /\ Llega(latido)
  /\ UNCHANGED <<fase, obreroVars, infReadiness, marca, cajeroVivo>>

-----------------------------------------------------------------------------
(* MarcarInferenciaReadiness, one value after another: a swap, and on a    *)
(* change a heartbeat, which is built from the readiness of that moment    *)
(* and sent in a later step.  Without a stream that lives there is no      *)
(* heartbeat.                                                              *)

Sigue(h, p) == marca' = [marca EXCEPT ![h] = p]
Resto(h) == Plan(Tail(marca[h].valores))

Marca(h) ==
  LET v == Head(marca[h].valores) IN
  /\ marca[h].paso = "marca"
  /\ infReadiness' = v
  /\ Sigue(h, IF infReadiness = v THEN Resto(h) ELSE [marca[h] EXCEPT !.paso = "lee"])
  /\ UNCHANGED <<fase, obreroVars, latido, nube, cajeroVivo>>

LeeYLate(h) ==
  /\ marca[h].paso = "lee"
  /\ Sigue(h, IF fase # "abierto" THEN Resto(h) ELSE [marca[h] EXCEPT !.paso = "envia", !.valor = infReadiness])
  /\ UNCHANGED <<fase, obreroVars, infReadiness, latido, nube, cajeroVivo>>

EnviaLatido(h) ==
  /\ marca[h].paso = "envia"
  /\ Sigue(h, Resto(h))
  /\ Llega(marca[h].valor)
  /\ UNCHANGED <<fase, obreroVars, infReadiness, latido, cajeroVivo>>

-----------------------------------------------------------------------------
(* The notices of the cajero.  One that is about another installation, or  *)
(* that is malformed, changes nothing.                                     *)

Avisa(h, listo) ==
  /\ marca[h] = SinPlan
  /\ cajeroVivo = listo
  /\ Sigue(h, Plan(<<IF listo THEN "listo" ELSE "caida">>))
  /\ UNCHANGED <<fase, obreroVars, infReadiness, latido, nube, cajeroVivo>>

(* ReponerCalentamientoInferencia: a transition is provoked, because the   *)
(* cloud warms on transitions only.                                        *)
CaidaYListo == <<"caida", "listo">>

ReponerCalentamientoInferencia(h) ==
  /\ marca[h] = SinPlan /\ cajeroVivo /\ infReadiness # "desconocida"
  /\ Sigue(h, Plan(CaidaYListo))
  /\ UNCHANGED <<fase, obreroVars, infReadiness, latido, nube, cajeroVivo>>

CajeroCambia ==
  /\ cajeroVivo' = ~cajeroVivo
  /\ UNCHANGED <<fase, obreroVars, infReadiness, marca, latido, nube>>

-----------------------------------------------------------------------------
(* The lane.  A request that finds no worker free is answered at once      *)
(* (EDGE_SIN_CAPACIDAD) and leaves no trace, and so does a repetition.     *)

Despachar(w, id) ==
  /\ fase \in {"abierto", "cortado"} /\ obrero[w] = Ocioso /\ id \notin enVuelo
  /\ enVuelo' = enVuelo \cup {id}
  /\ obrero' = [obrero EXCEPT ![w] = [id |-> id, paso |-> "atiende"]]
  /\ UNCHANGED <<fase, infReadiness, marca, latido, nube, cajeroVivo>>

Libera(w) ==
  /\ obrero' = [obrero EXCEPT ![w] = Ocioso]
  /\ enVuelo' = enVuelo \ {obrero[w].id}

MarcaCon(w, valor) ==
  /\ obrero' = [obrero EXCEPT ![w].paso = "marca"]
  /\ Sigue(w, Plan(<<valor>>))

(* leaseVigente: some session can operate, or the grace runs out and the   *)
(* request is refused.  Once through, the cajero may refuse it too, with   *)
(* an error that says nothing about its health.                            *)
AtenderSinMarcar(w) ==
  /\ obrero[w].paso = "atiende"
  /\ Libera(w)
  /\ UNCHANGED <<fase, infReadiness, marca, latido, nube, cajeroVivo>>

AtenderServida(w) ==
  /\ obrero[w].paso = "atiende" /\ cajeroVivo
  /\ MarcaCon(w, "listo")
  /\ UNCHANGED <<fase, enVuelo, infReadiness, latido, nube, cajeroVivo>>

(* OLLAMA_DOWN: the socket or the provider does not answer.  The client of *)
(* the socket gives the same error when the context of the lane is         *)
(* cancelled, that is, when the stream falls (cliente.go, errorDeTransporte).*)
AtenderCaida(w) ==
  /\ obrero[w].paso = "atiende"
  /\ ~cajeroVivo \/ fase = "cierra"
  /\ MarcaCon(w, "caida")
  /\ UNCHANGED <<fase, enVuelo, infReadiness, latido, nube, cajeroVivo>>

Responde(w) ==
  /\ obrero[w].paso = "marca" /\ marca[w] = SinPlan
  /\ Libera(w)
  /\ UNCHANGED <<fase, infReadiness, marca, latido, nube, cajeroVivo>>

Atender(w) == AtenderSinMarcar(w) \/ AtenderServida(w) \/ AtenderCaida(w) \/ Responde(w)
MarcarInferenciaReadiness(h) == Marca(h) \/ LeeYLate(h) \/ EnviaLatido(h)

NextCarril ==
  \/ Abre \/ Corta \/ DejaDeRecibir \/ ShutdownCarril \/ LatidoLee \/ LatidoEnvia \/ CajeroCambia
  \/ \E h \in Hilos : MarcarInferenciaReadiness(h)
  \/ \E h \in Avisos : ReponerCalentamientoInferencia(h) \/ \E listo \in BOOLEAN : Avisa(h, listo)
  \/ \E w \in Obreros : Atender(w) \/ \E id \in Inferencias : Despachar(w, id)

(* Goroutines run; the grace of the lease and the deadline of the call end *)
(* a request whatever the cajero does; the ticker of the heartbeats ticks. *)
FairCarril ==
  /\ WF_varsCarril(LatidoLee \/ LatidoEnvia)
  /\ \A h \in Avisos : WF_varsCarril(MarcarInferenciaReadiness(h))
  /\ \A w \in Obreros : WF_varsCarril(MarcarInferenciaReadiness(w) \/ Atender(w))

SpecCarril == InitCarril /\ [][NextCarril]_varsCarril /\ FairCarril

-----------------------------------------------------------------------------
TipoCarril ==
  /\ fase \in {"fuera", "abierto", "cortado", "cierra"}
  /\ enVuelo \subseteq Inferencias
  /\ \A w \in Obreros : obrero[w] = Ocioso \/ obrero[w] \in [id : Inferencias, paso : {"atiende", "marca"}]
  /\ infReadiness \in Readiness /\ nube \in Readiness /\ latido \in Readiness \cup {SinLatido}
  /\ \A h \in Hilos : marca[h].paso \in {"marca", "lee", "envia", "fin"}
  /\ cajeroVivo \in BOOLEAN

(* Two transitions may be published in the wrong order, a swap and its     *)
(* heartbeat being two steps; the next heartbeats put it right: on a stream*)
(* that lasts the cloud ends up with what the Edge says.                   *)
NubeAlDia ==
  <>[](fase = "abierto") =>
    \A v \in Readiness : <>[](infReadiness = v) => <>[](nube = v)
=============================================================================
