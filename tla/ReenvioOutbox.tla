---------------------------- MODULE ReenvioOutbox ----------------------------
(***************************************************************************)
(* The way out of the Edge: Adapter.forward sends an event on the live     *)
(* CloudLink stream or persists it in the outbox, and one drainLoop per    *)
(* stream re-sends the backlog.  `pending` is the in-memory guard that is  *)
(* meant to keep the order of a session: while it has backlog, its new     *)
(* events go behind it.  The guard and the table are not updated together. *)
(*                                                                         *)
(* Streams are numbered; stream d is alive while d = conexiones and vivo,  *)
(* and its context is not cancelled while cliente = d.  Drainer d belongs  *)
(* to stream d and may outlive it; drainer 0 is the recomputePending that  *)
(* Run makes before its first connection.  The CloudLink client is outside *)
(* the repository: its Send is taken as the code takes it, a nil is an     *)
(* event the cloud has.                                                    *)
(***************************************************************************)
EXTENDS Naturals, FiniteSets, SequencesExt

CONSTANTS
  Sesiones,
  Tope,          \* Store.maxEvents
  Lote,          \* outboxDrainBatch
  ConTTL,        \* ttl > 0
  MaxEventos,    \* bound on the events of a session
  MaxConexiones, \* bound on the streams
  MaxCaidas      \* bound on process deaths

ASSUME TopeAssumption == Tope \in Nat \ {0} /\ Lote \in Nat \ {0} /\ ConTTL \in BOOLEAN
ASSUME CotasAssumption == MaxEventos \in Nat /\ MaxConexiones \in Nat /\ MaxCaidas \in Nat

VARIABLES
  outbox,      \* the table: rows with their seq, session and event number
  orden,       \* Store.seq
  pending,     \* Adapter.pending, the sessions believed to have backlog
  conexiones,  \* streams opened so far
  vivo,        \* the transport of the last stream works
  cliente,     \* Adapter.client (0 = nil)
  fpc,         \* per session: where its forward is
  fcl,         \* per session: the client forward captured
  falta,       \* per session: toDrop of dropOldestLocked
  dpc,         \* per drainer: where it is
  lote,        \* per drainer: the rows of its batch it still has to send
  foto,        \* per drainer: what PendingSessions returned
  siguiente,   \* per session: the event its caller will hand over next
  sellado,     \* per session: its caller has sealed the events up to this one
  caidas,      \* ghost: process deaths so far
  nube,        \* ghost, per session: events in the order the cloud first got them
  perdidos,    \* ghost: events whose enqueue failed, after forward gave up on the stream
  descartados, \* ghost: events deleted by the cap or by the TTL
  drenado      \* ghost, per session: last event sent by a drainer

almacen == <<outbox, orden>>
flujo   == <<conexiones, vivo, cliente>>
envio   == <<fpc, fcl, falta, siguiente, sellado>>
drenaje == <<dpc, lote, foto>>
vars == <<almacen, pending, flujo, envio, drenaje, caidas, nube, perdidos, descartados, drenado>>

Drenadores == 0 .. MaxConexiones
Evento(r) == <<r.sesion, r.k>>
Fila == [orden : Nat \ {0}, sesion : Sesiones, k : 1 .. MaxEventos]

TypeOK ==
  /\ outbox \subseteq Fila /\ orden \in Nat
  /\ pending \subseteq Sesiones
  /\ conexiones \in 0 .. MaxConexiones /\ vivo \in BOOLEAN /\ cliente \in {0, conexiones}
  /\ fpc \in [Sesiones -> {"libre", "cliente", "envia", "marca", "cuenta", "inserta"}]
  /\ fcl \in [Sesiones -> Drenadores] /\ falta \in [Sesiones -> Nat]
  /\ dpc \in [Drenadores -> {"fin", "lee", "envia", "borra", "relee", "fija", "duerme"}]
  /\ \A d \in Drenadores : /\ lote[d] \subseteq Fila /\ foto[d] \subseteq Sesiones
                           /\ dpc[d] \in {"envia", "borra"} => lote[d] # {}
  /\ siguiente \in [Sesiones -> 1 .. MaxEventos + 1] /\ sellado \in [Sesiones -> 0 .. MaxEventos]
  /\ \A s \in Sesiones : nube[s] \in Seq(1 .. MaxEventos)
  /\ perdidos \subseteq Sesiones \X (1 .. MaxEventos)
  /\ descartados \subseteq Sesiones \X (1 .. MaxEventos)
  /\ drenado \in [Sesiones -> 0 .. MaxEventos]

Init ==
  /\ outbox = {} /\ orden = 0 /\ pending = {}
  /\ conexiones = 0 /\ vivo = FALSE /\ cliente = 0
  /\ fpc = [s \in Sesiones |-> "libre"]
  /\ fcl = [s \in Sesiones |-> 0] /\ falta = [s \in Sesiones |-> 0]
  /\ dpc = [d \in Drenadores |-> IF d = 0 THEN "relee" ELSE "fin"]
  /\ lote = [d \in Drenadores |-> {}] /\ foto = [d \in Drenadores |-> {}]
  /\ siguiente = [s \in Sesiones |-> 1] /\ sellado = [s \in Sesiones |-> 0]
  /\ caidas = 0
  /\ nube = [s \in Sesiones |-> <<>>]
  /\ perdidos = {} /\ descartados = {}
  /\ drenado = [s \in Sesiones |-> 0]

-----------------------------------------------------------------------------
\* What the cloud first sees of an event; it drops the repetitions.
Recibe(s, k) ==
  nube' = IF k \in ToSet(nube[s]) THEN nube ELSE [nube EXCEPT ![s] = Append(@, k)]

\* The k rows with the lowest seq.
MasViejas(t, k) == {r \in t : Cardinality({q \in t : q.orden < r.orden}) < k}

\* pruneTTLLocked: created_unix grows with seq, so what has expired is a prefix.
Podas(t) == IF ConTTL THEN {{r \in t : r.orden <= q} : q \in {0} \cup {r.orden : r \in t}}
                      ELSE {{}}

\* Store.mu is held between the COUNT and the INSERT of an Enqueue.
CandadoLibre == \A s \in Sesiones : fpc[s] # "inserta"

-----------------------------------------------------------------------------
(***************************************************************************)
(* forward, called by the dispatcher of a session for one event at a time. *)
(***************************************************************************)
Pasa(s, p) == fpc' = [fpc EXCEPT ![s] = p]

\* forward returns: the caller takes its next event.
Retorna(s) == Pasa(s, "libre") /\ siguiente' = [siguiente EXCEPT ![s] = @ + 1]

\* isPending.  The caller asks for an event when it has sealed the one before.
Forward(s) ==
  /\ fpc[s] = "libre" /\ siguiente[s] <= MaxEventos
  /\ Pasa(s, IF s \in pending THEN "cuenta" ELSE "cliente")
  /\ sellado' = [sellado EXCEPT ![s] = siguiente[s] - 1]
  /\ UNCHANGED <<almacen, pending, flujo, fcl, falta, siguiente, drenaje, caidas,
                 nube, perdidos, descartados, drenado>>

CurrentClient(s) ==
  /\ fpc[s] = "cliente"
  /\ fcl' = [fcl EXCEPT ![s] = cliente]
  /\ Pasa(s, IF cliente = 0 THEN "marca" ELSE "envia")
  /\ UNCHANGED <<almacen, pending, flujo, falta, sellado, siguiente, drenaje, caidas,
                 nube, perdidos, descartados, drenado>>

\* Send on the captured client, which may belong to a stream that is gone.
EnviaVivo(s) ==
  /\ fpc[s] = "envia"
  /\ IF vivo /\ fcl[s] = conexiones
       THEN Recibe(s, siguiente[s]) /\ Retorna(s)
       ELSE Pasa(s, "marca") /\ UNCHANGED <<nube, siguiente>>
  /\ UNCHANGED <<almacen, pending, flujo, fcl, sellado, falta, drenaje, caidas,
                 perdidos, descartados, drenado>>

MarkPending(s) ==
  /\ fpc[s] = "marca"
  /\ pending' = pending \cup {s}
  /\ Pasa(s, "cuenta")
  /\ UNCHANGED <<almacen, flujo, fcl, sellado, falta, siguiente, drenaje, caidas,
                 nube, perdidos, descartados, drenado>>

\* Store.Enqueue takes its lock, prunes and counts.
Cuenta(s) ==
  /\ fpc[s] = "cuenta" /\ CandadoLibre
  /\ \E p \in Podas(outbox) :
       /\ outbox' = outbox \ p
       /\ descartados' = descartados \cup {Evento(r) : r \in p}
  /\ falta' = [falta EXCEPT ![s] = IF Cardinality(outbox') < Tope
                                     THEN 0 ELSE Cardinality(outbox') + 1 - Tope]
  /\ Pasa(s, "inserta")
  /\ UNCHANGED <<orden, pending, flujo, fcl, sellado, siguiente, drenaje, caidas,
                 nube, perdidos, drenado>>

\* Drop-oldest by the count it made before, and the INSERT of a new command_id.
Inserta(s) ==
  /\ fpc[s] = "inserta"
  /\ LET b == MasViejas(outbox, falta[s])
     IN  /\ outbox' = (outbox \ b)
                        \cup {[orden |-> orden + 1, sesion |-> s, k |-> siguiente[s]]}
         /\ descartados' = descartados \cup {Evento(r) : r \in b}
  /\ orden' = orden + 1
  /\ falta' = [falta EXCEPT ![s] = 0]
  /\ Retorna(s)
  /\ UNCHANGED <<pending, flujo, fcl, sellado, drenaje, caidas, nube, perdidos, drenado>>

\* A statement of Enqueue fails (or the event cannot be serialised): enqueue logs
\* that the event is lost, and forward returns all the same.  The INSERT fails
\* after the drop and after it has consumed its seq.
EnqueueFalla(s) ==
  /\ fpc[s] \in {"cuenta", "inserta"}
  /\ \/ UNCHANGED <<outbox, orden, descartados>>
     \/ /\ fpc[s] = "inserta"
        /\ orden' = orden + 1
        /\ LET b == MasViejas(outbox, falta[s])
           IN  /\ outbox' = outbox \ b
               /\ descartados' = descartados \cup {Evento(r) : r \in b}
  /\ perdidos' = perdidos \cup {<<s, siguiente[s]>>}
  /\ falta' = [falta EXCEPT ![s] = 0]
  /\ Retorna(s)
  /\ UNCHANGED <<pending, flujo, fcl, sellado, drenaje, caidas, nube, drenado>>
-----------------------------------------------------------------------------
(***************************************************************************)
(* drainLoop of stream d: drainOnce at once and at every tick.             *)
(***************************************************************************)
Va(d, p) == dpc' = [dpc EXCEPT ![d] = p]

\* Mutant: ORDER BY seq DESC.
Ultima(r, rs) == r \in rs /\ \A q \in rs : q.orden <= r.orden

\* A batch is gone through ORDER BY seq.
Primera(r, rs) == r \in rs /\ \A q \in rs : r.orden <= q.orden

\* Store.Drain: prune and read a batch.
Drain(d) ==
  /\ dpc[d] = "lee" /\ cliente = d /\ (ConTTL => CandadoLibre)
  /\ \E p \in Podas(outbox) :
       /\ outbox' = outbox \ p
       /\ descartados' = descartados \cup {Evento(r) : r \in p}
  /\ lote' = [lote EXCEPT ![d] = MasViejas(outbox', Lote)]
  /\ Va(d, IF outbox' = {} THEN "relee" ELSE "envia")
  /\ UNCHANGED <<orden, pending, flujo, envio, foto, caidas, nube, perdidos, drenado>>

EnviaLote(d) ==
  /\ dpc[d] = "envia" /\ cliente = d
  /\ \E r \in lote[d] :
       /\ Primera(r, lote[d])
       /\ IF vivo /\ d = conexiones
            THEN /\ Recibe(r.sesion, r.k) /\ Va(d, "borra")
                 /\ drenado' = [drenado EXCEPT ![r.sesion] = r.k]
                 /\ UNCHANGED lote
            ELSE /\ Va(d, "relee") /\ lote' = [lote EXCEPT ![d] = {}]
                 /\ UNCHANGED <<nube, drenado>>
  /\ UNCHANGED <<almacen, pending, flujo, envio, foto, caidas, perdidos, descartados>>

\* Mutant: the whole batch is deleted with its first event.
BorraLote(d) ==
  /\ dpc[d] = "borra"
  /\ outbox' = outbox \ lote[d]
  /\ \E r \in lote[d] : Primera(r, lote[d]) /\ lote' = [lote EXCEPT ![d] = @ \ {r}]
  /\ Va(d, IF lote'[d] = {} THEN "lee" ELSE "envia")
  /\ UNCHANGED <<orden, pending, flujo, envio, foto, caidas,
                 nube, perdidos, descartados, drenado>>

\* Delete of the event just sent.
Borra(d) ==
  /\ dpc[d] = "borra"
  /\ \E r \in lote[d] :
       /\ Primera(r, lote[d])
       /\ outbox' = outbox \ {r}
       /\ lote' = [lote EXCEPT ![d] = @ \ {r}]
  /\ Va(d, IF lote'[d] = {} THEN "lee" ELSE "envia")
  /\ UNCHANGED <<orden, pending, flujo, envio, foto, caidas,
                 nube, perdidos, descartados, drenado>>

\* Mutant: the guard is never lowered at the end of a pass.
SinRecomputar(d) ==
  /\ dpc[d] = "relee" /\ d \in {0, cliente}
  /\ dpc' = [dpc EXCEPT ![d] = IF d = 0 THEN "fin" ELSE "duerme"]
  /\ UNCHANGED <<almacen, pending, flujo, envio, lote, foto, caidas,
                 nube, perdidos, descartados, drenado>>

\* recomputePending reads PendingSessions and then, later, replaces the guard.
LeePendientes(d) ==
  /\ dpc[d] = "relee" /\ d \in {0, cliente}
  /\ foto' = [foto EXCEPT ![d] = {r.sesion : r \in outbox}]
  /\ Va(d, "fija")
  /\ UNCHANGED <<almacen, pending, flujo, envio, lote, caidas,
                 nube, perdidos, descartados, drenado>>

Duerme(d) == Va(d, IF d = 0 THEN "fin" ELSE "duerme")

FijaPendientes(d) ==
  /\ dpc[d] = "fija"
  /\ pending' = foto[d]
  /\ foto' = [foto EXCEPT ![d] = {}]
  /\ Duerme(d)
  /\ UNCHANGED <<almacen, flujo, envio, lote, caidas,
                 nube, perdidos, descartados, drenado>>

\* A read or a Delete fails: the pass ends there.
DrenajeFalla(d) ==
  /\ dpc[d] \in {"lee", "borra", "relee"}
  /\ lote' = [lote EXCEPT ![d] = {}]
  /\ Duerme(d)
  /\ UNCHANGED <<almacen, pending, flujo, envio, foto, caidas,
                 nube, perdidos, descartados, drenado>>

Tic(d) ==
  /\ dpc[d] = "duerme" /\ cliente = d
  /\ Va(d, "lee")
  /\ UNCHANGED <<almacen, pending, flujo, envio, lote, foto, caidas,
                 nube, perdidos, descartados, drenado>>

\* The context of the stream is cancelled: the loop ends where it notices.
Cancelado(d) ==
  /\ d # 0 /\ cliente # d
  /\ dpc[d] \in {"lee", "envia", "borra", "relee", "duerme"}
  /\ lote' = [lote EXCEPT ![d] = {}]
  /\ Va(d, "fin")
  /\ UNCHANGED <<almacen, pending, flujo, envio, foto, caidas,
                 nube, perdidos, descartados, drenado>>
-----------------------------------------------------------------------------
(***************************************************************************)
(* Run and runOnce, the stream, and the death of the process.              *)
(***************************************************************************)
Conecta ==
  /\ dpc[0] = "fin" /\ cliente = 0 /\ conexiones < MaxConexiones
  /\ conexiones' = conexiones + 1 /\ vivo' = TRUE /\ cliente' = conexiones + 1
  /\ Va(conexiones + 1, "lee")
  /\ UNCHANGED <<almacen, pending, envio, lote, foto, caidas,
                 nube, perdidos, descartados, drenado>>

CaeStream ==
  /\ vivo
  /\ vivo' = FALSE
  /\ UNCHANGED <<almacen, pending, conexiones, cliente, envio, drenaje, caidas,
                 nube, perdidos, descartados, drenado>>

\* runOnce sees Received closed: it cancels the loops and forgets the client.
FinRunOnce ==
  /\ ~vivo /\ cliente # 0
  /\ cliente' = 0
  /\ UNCHANGED <<almacen, pending, conexiones, vivo, envio, drenaje, caidas,
                 nube, perdidos, descartados, drenado>>

\* Mutant: the counter is not seeded from MAX(seq).
ReinicioSinSembrar ==
  /\ caidas < MaxCaidas
  /\ caidas' = caidas + 1
  /\ orden' = 0 /\ pending' = {} /\ cliente' = 0 /\ vivo' = FALSE
  /\ fpc' = [s \in Sesiones |-> "libre"]
  /\ fcl' = [s \in Sesiones |-> 0] /\ falta' = [s \in Sesiones |-> 0]
  /\ dpc' = [d \in Drenadores |-> IF d = 0 THEN "relee" ELSE "fin"]
  /\ lote' = [d \in Drenadores |-> {}] /\ foto' = [d \in Drenadores |-> {}]
  /\ UNCHANGED <<outbox, conexiones, siguiente, sellado, nube, perdidos, descartados, drenado>>

\* The process dies and starts again.  The dispatcher hands over again what it
\* had not sealed: the event in forward, or the last that returned.
Reinicio ==
  /\ caidas < MaxCaidas
  /\ caidas' = caidas + 1
  /\ orden' \in {q \in {0} \cup {r.orden : r \in outbox} : \A r \in outbox : r.orden <= q}
  /\ pending' = {} /\ cliente' = 0 /\ vivo' = FALSE
  /\ fpc' = [s \in Sesiones |-> "libre"]
  /\ fcl' = [s \in Sesiones |-> 0] /\ falta' = [s \in Sesiones |-> 0]
  /\ dpc' = [d \in Drenadores |-> IF d = 0 THEN "relee" ELSE "fin"]
  /\ lote' = [d \in Drenadores |-> {}] /\ foto' = [d \in Drenadores |-> {}]
  /\ siguiente' \in {q \in [Sesiones -> 1 .. MaxEventos + 1] :
       \A s \in Sesiones : q[s] \in {sellado[s] + 1, siguiente[s]}}
  /\ sellado' = [s \in Sesiones |-> siguiente'[s] - 1]
  /\ UNCHANGED <<outbox, conexiones, nube, perdidos, descartados, drenado>>

NextForward(s) ==
  \/ Forward(s) \/ CurrentClient(s) \/ EnviaVivo(s) \/ MarkPending(s)
  \/ Cuenta(s) \/ Inserta(s) \/ EnqueueFalla(s)

NextDrenador(d) ==
  \/ Drain(d) \/ EnviaLote(d) \/ Borra(d) \/ LeePendientes(d) \/ FijaPendientes(d)
  \/ DrenajeFalla(d) \/ Tic(d) \/ Cancelado(d)

Next ==
  \/ \E s \in Sesiones : NextForward(s)
  \/ \E d \in Drenadores : NextDrenador(d)
  \/ Conecta \/ CaeStream \/ FinRunOnce \/ Reinicio

\* forward and the loops run, the ticker ticks, Run reconnects, and a statement
\* on the local database does not fail for ever.
Alguno(A(_)) == \E d \in Drenadores : A(d)

Justicia ==
  /\ \A s \in Sesiones : WF_vars(NextForward(s))
  /\ SF_vars(Alguno(Drain)) /\ SF_vars(Alguno(Borra)) /\ SF_vars(Alguno(LeePendientes))
  /\ WF_vars(Alguno(EnviaLote)) /\ WF_vars(Alguno(FijaPendientes))
  /\ WF_vars(Alguno(Tic)) /\ WF_vars(Alguno(Cancelado))
  /\ WF_vars(Conecta) /\ WF_vars(FinRunOnce)

Spec      == Init /\ [][Next]_vars
SpecJusta == Spec /\ Justicia
-----------------------------------------------------------------------------
\* Every event whose forward returned is in the cloud, in the outbox, or in one
\* of the two places the log tells of: lost by a failed enqueue, or deleted by
\* the cap or the TTL.
NadaSinRastro ==
  \A s \in Sesiones : \A k \in 1 .. siguiente[s] - 1 :
    \/ k \in ToSet(nube[s])
    \/ \E r \in outbox : Evento(r) = <<s, k>>
    \/ <<s, k>> \in perdidos \cup descartados

\* The seq of the rows of a session is unique and follows the order of its
\* events, across drops, failed inserts and restarts that re-seed the counter.
OrdenDelOutbox ==
  \A r, q \in outbox : r.sesion = q.sesion /\ r.orden <= q.orden => r.k <= q.k

\* The backlog of a session is re-sent in order, whichever streams carry it.
DrenajeEnOrden == [][\A s \in Sesiones : drenado[s] <= drenado'[s]]_vars

\* With a stream that lasts, the backlog drains and the guard lets every
\* session go back to the live path.
VuelveAlVivo == <>[]vivo => <>[](outbox = {} /\ pending = {})

\* outbox.go: "Preserva el orden POR SESION via un guard en memoria".
NubeEnOrden ==
  \A s \in Sesiones : \A i, j \in 1 .. Len(nube[s]) : i < j => nube[s][i] < nube[s][j]
=============================================================================
