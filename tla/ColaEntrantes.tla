---------------------------- MODULE ColaEntrantes ----------------------------
(***************************************************************************)
(* The durable inbox of the daemon at work: the listeners that admit       *)
(* WhatsApp messages (enqueueCola -> Store.Enqueue -> avisar -> ack), the  *)
(* per-session dispatchers that drain them (Despachador.Run) and the       *)
(* SQLite table in between.                                                *)
(*                                                                         *)
(* One action is one SQL statement or one call to the sink.  The cola      *)
(* database has a single connection and no statement opens a transaction,  *)
(* so each statement commits on its own; s.mu keeps two Enqueue apart but  *)
(* not a dispatcher, which interleaves between the statements of Enqueue.  *)
(***************************************************************************)
EXTENDS ColaTabla

CONSTANTS
  Nadie,            \* no message, no row
  TablasIniciales,  \* what a previous process may have left on disk
  MaxSeq,           \* bound on Store.seq
  MaxReloj,         \* bound on the clock
  MaxCaidas         \* bound on process deaths

ASSUME NadieAssumption == Nadie \notin Mensajes
ASSUME CotasAssumption == MaxSeq \in Nat /\ MaxReloj \in Nat /\ MaxCaidas \in Nat

\* The rowid, seq and the UNIQUE index identify a row; the ghost n of an
\* inherited row is its seq.
ASSUME TablasAssumption ==
  \A t \in TablasIniciales :
    /\ t \subseteq Fila /\ IsFiniteSet(t)
    /\ \A f \in t : f.n = f.seq
    /\ \A f, g \in t : f.id = g.id \/ f.seq = g.seq \/ f.msg = g.msg => f = g

VARIABLES
  filas,        \* the table cola_entrantes, the only durable state
  seq,          \* Store.seq
  perdidas,     \* Store.descartadasPorTope
  enq,          \* the Enqueue that holds s.mu: its next step, message, counters
  escucha,      \* per session: the message whose Enqueue returned nil, not yet acked
  aviso,        \* per session: the one-slot wake-up channel
  pc,           \* per session: where its Despachador.Run is
  cabeza,       \* per session: the ColaCabeza in the hands of vuelta
  reintento,    \* per session: reintentoEntrega
  reloj,        \* seconds since the epoch, as both the seal and the prune read them
  caidas,       \* ghost: process deaths so far
  admitidas,    \* ghost: rows ever inserted
  acusados,     \* ghost: messages acknowledged to WhatsApp
  entregados,   \* ghost: messages the sink has accepted
  descartadas,  \* ghost: unsealed rows deleted by the cap
  malSellados,  \* ghost: messages sealed as despachado that the sink never got
  ultima        \* ghost, per session: arrival number of the last delivered row

tienda   == <<filas, seq, perdidas, enq>>
oyente   == <<escucha, aviso>>
despacho == <<pc, cabeza, reintento>>
testigos == <<admitidas, acusados, entregados, descartadas, malSellados, ultima>>
vars     == <<tienda, oyente, despacho, reloj, caidas, testigos>>

Pasos == {"libre", "contar", "capa1", "capa2", "capa3", "insertar"}
Libre == [paso |-> "libre", msg |-> Nadie, faltan |-> 0, perdidas |-> 0]
SinReintento == [id |-> 0, seq |-> 0, frenado |-> FALSE]

TypeOK ==
  /\ filas \subseteq Fila
  /\ seq \in Nat /\ perdidas \in Nat
  /\ enq \in [paso : Pasos, msg : Mensajes \cup {Nadie}, faltan : Nat, perdidas : Nat]
  /\ (enq.msg = Nadie) <=> (enq.paso = "libre")
  /\ escucha \in [Sesiones -> Mensajes \cup {Nadie}]
  /\ aviso \in [Sesiones -> BOOLEAN]
  /\ pc \in [Sesiones -> {"leer", "entregar", "sellar", "vacia", "fallo"}]
  /\ cabeza \in [Sesiones -> Fila \cup {Nadie}]
  /\ reintento \in [Sesiones -> [id : Nat, seq : Nat, frenado : BOOLEAN]]
  /\ reloj \in Nat /\ caidas \in Nat /\ admitidas \in Nat
  /\ acusados \subseteq Mensajes /\ entregados \subseteq Mensajes
  /\ malSellados \subseteq Mensajes
  /\ descartadas \subseteq Fila
  /\ ultima \in [Sesiones -> Nat]

\* New: the daemon opens a database that an earlier process may have filled.
Init ==
  /\ filas \in TablasIniciales
  /\ seq \in MaxSeqDe(filas)
  /\ admitidas = seq
  /\ perdidas = 0 /\ enq = Libre
  /\ escucha = [s \in Sesiones |-> Nadie]
  /\ aviso = [s \in Sesiones |-> FALSE]
  /\ pc = [s \in Sesiones |-> "leer"]
  /\ cabeza = [s \in Sesiones |-> Nadie]
  /\ reintento = [s \in Sesiones |-> SinReintento]
  /\ reloj = 0 /\ caidas = 0
  /\ acusados = {f.msg : f \in filas}
  /\ entregados = {f.msg : f \in EnEstado(filas, {"despachado"})}
  /\ descartadas = {} /\ malSellados = {}
  /\ ultima = [s \in Sesiones |-> 0]

-----------------------------------------------------------------------------
(***************************************************************************)
(* Store.Enqueue, statement by statement, under s.mu.                      *)
(***************************************************************************)
\* Takes s.mu and prunes.  whatsmeow hands a session its events one at a time,
\* so the listener of m is not in the middle of another one.  m may be a
\* message WhatsApp sends again.
Enqueue(m) ==
  /\ enq = Libre /\ escucha[m.sesion] = Nadie /\ seq < MaxSeq
  /\ filas' = TrasPoda(filas, reloj)
  /\ enq' = [paso |-> "contar", msg |-> m, faltan |-> 0, perdidas |-> 0]
  /\ UNCHANGED <<seq, perdidas, oyente, despacho, reloj, caidas, testigos>>

Contar ==
  /\ enq.paso = "contar"
  /\ enq' = IF Cardinality(filas) < MaxFilas
              THEN [enq EXCEPT !.paso = "insertar"]
              ELSE [enq EXCEPT !.paso = "capa1", !.faltan = Faltan(filas)]
  /\ UNCHANGED <<filas, seq, perdidas, oyente, despacho, reloj, caidas, testigos>>

\* Enough room, or a layer 3 that found nothing: the loss is added to the
\* counter and Enqueue goes on to the INSERT.
CierraTope(n) ==
  /\ enq' = [enq EXCEPT !.paso = "insertar", !.faltan = 0, !.perdidas = 0]
  /\ perdidas' = perdidas + enq.perdidas + n

SigueTope(paso, borradas, n) ==
  /\ enq' = [enq EXCEPT !.paso = paso,
                        !.faltan = @ - Cardinality(borradas),
                        !.perdidas = @ + n]
  /\ UNCHANGED perdidas

Capa1 ==
  /\ enq.paso = "capa1"
  /\ LET b == BorraPorEstado(filas, "despachado", enq.faltan)
     IN  /\ filas' = filas \ b
         /\ IF enq.faltan <= Cardinality(b) THEN CierraTope(0)
                                            ELSE SigueTope("capa2", b, 0)
  /\ UNCHANGED <<seq, oyente, despacho, reloj, caidas, testigos>>

\* Layers 2 and 3 delete b, messages that never left.
Sacrifica(b) ==
  /\ filas' = filas \ b
  /\ descartadas' = descartadas \cup b
  /\ IF (b = {} /\ enq.paso = "capa3") \/ enq.faltan <= Cardinality(b)
       THEN CierraTope(Cardinality(b))
       ELSE SigueTope("capa3", b, Cardinality(b))
  /\ UNCHANGED <<seq, oyente, despacho, reloj, caidas,
                 admitidas, acusados, entregados, malSellados, ultima>>

Capa2 == enq.paso = "capa2" /\ Sacrifica(BorraPorEstado(filas, "clasificado", enq.faltan))
Capa3 == enq.paso = "capa3" /\ Sacrifica(ConversacionMasVieja(filas))

\* s.seq.Add(1) and the INSERT.  A repeated message hits the UNIQUE index: it
\* consumes its seq and returns nil as well.
Insertar ==
  /\ enq.paso = "insertar"
  /\ seq' = seq + 1
  /\ IF YaEncolado(filas, enq.msg)
       THEN UNCHANGED <<filas, admitidas>>
       ELSE /\ admitidas' = admitidas + 1
            /\ \E i \in Rowid(filas) :
                 filas' = filas \cup {FilaNueva(i, seq + 1, admitidas + 1, enq.msg)}
  /\ escucha' = [escucha EXCEPT ![enq.msg.sesion] = enq.msg]
  /\ enq' = Libre
  /\ UNCHANGED <<perdidas, aviso, despacho, reloj, caidas,
                 acusados, entregados, descartadas, malSellados, ultima>>

\* A statement fails or panics: Enqueue returns its error at once, what the
\* earlier statements deleted stays deleted, and the message is not acked
\* (WhatsApp will send it again).  A failed INSERT has consumed its seq.
EnqueueFalla ==
  /\ enq # Libre
  /\ seq' = IF enq.paso = "insertar" THEN seq + 1 ELSE seq
  /\ enq' = Libre
  /\ UNCHANGED <<filas, perdidas, oyente, despacho, reloj, caidas, testigos>>

\* Mutant: the listener acks without leaving a token in the channel.
AcusarSinAvisar(s) ==
  /\ escucha[s] # Nadie
  /\ acusados' = acusados \cup {escucha[s]}
  /\ escucha' = [escucha EXCEPT ![s] = Nadie]
  /\ UNCHANGED <<tienda, aviso, despacho, reloj, caidas,
                 admitidas, entregados, descartadas, malSellados, ultima>>

\* enqueueCola after a nil: avisar (non-blocking) and then the ack.
Acusar(s) ==
  /\ escucha[s] # Nadie
  /\ aviso' = [aviso EXCEPT ![s] = TRUE]
  /\ acusados' = acusados \cup {escucha[s]}
  /\ escucha' = [escucha EXCEPT ![s] = Nadie]
  /\ UNCHANGED <<tienda, despacho, reloj, caidas,
                 admitidas, entregados, descartadas, malSellados, ultima>>
-----------------------------------------------------------------------------
(***************************************************************************)
(* Despachador.Run of session s: vuelta, entregar and the wait.            *)
(***************************************************************************)
Frenada(s, f) ==
  reintento[s].id = f.id /\ reintento[s].seq = f.seq /\ reintento[s].frenado

\* CabezaDeSesion and the tests of vuelta on what it returned.
LeeCabeza(s) ==
  /\ pc[s] = "leer"
  /\ \/ \E f \in filas :
          /\ EsCabeza(filas, s, f)
          /\ IF Frenada(s, f)
               THEN pc' = [pc EXCEPT ![s] = "fallo"] /\ UNCHANGED cabeza
               ELSE /\ pc' = [pc EXCEPT ![s] = "entregar"]
                    /\ cabeza' = [cabeza EXCEPT ![s] = f]
     \/ /\ SesionPendiente(filas, s) = {}
        /\ pc' = [pc EXCEPT ![s] = "vacia"] /\ UNCHANGED cabeza
  /\ UNCHANGED <<tienda, oyente, reintento, reloj, caidas, testigos>>

\* sink.Deliver returned nil: the message is out, the brake is forgotten.
Entrega(s) ==
  /\ pc[s] = "entregar"
  /\ pc' = [pc EXCEPT ![s] = "sellar"]
  /\ reintento' = [reintento EXCEPT ![s] = SinReintento]
  /\ entregados' = entregados \cup {cabeza[s].msg}
  /\ ultima' = [ultima EXCEPT ![s] = cabeza[s].n]
  /\ UNCHANGED <<tienda, oyente, cabeza, reloj, caidas,
                 admitidas, acusados, descartadas, malSellados>>

\* sink.Deliver returned an error: the first failure of a row does not wait
\* (esperaTrasFallo(1) = 0), the next ones brake it.
EntregaFalla(s) ==
  /\ pc[s] = "entregar"
  /\ pc' = [pc EXCEPT ![s] = "fallo"]
  /\ cabeza' = [cabeza EXCEPT ![s] = Nadie]
  /\ reintento' = [reintento EXCEPT ![s] =
       [id |-> cabeza[s].id, seq |-> cabeza[s].seq,
        frenado |-> @.id = cabeza[s].id /\ @.seq = cabeza[s].seq]]
  /\ UNCHANGED <<tienda, oyente, reloj, caidas, testigos>>

\* MarcarDespachada(cabeza.ID), by rowid alone, after a good delivery.
MarcarDespachada(s) ==
  /\ pc[s] = "sellar"
  /\ filas' = TrasSello(filas, cabeza[s].id, reloj)
  /\ malSellados' = malSellados \cup
       ({f.msg : f \in ASellar(filas, cabeza[s].id)} \ entregados)
  /\ pc' = [pc EXCEPT ![s] = "leer"]
  /\ cabeza' = [cabeza EXCEPT ![s] = Nadie]
  /\ UNCHANGED <<seq, perdidas, enq, oyente, reintento, reloj, caidas,
                 admitidas, acusados, entregados, descartadas, ultima>>

\* A read or a seal that returns an error (its two-second deadline included),
\* or a panic recovered by vuelta: no progress.
VueltaFalla(s) ==
  /\ pc[s] \in {"leer", "entregar", "sellar"}
  /\ pc' = [pc EXCEPT ![s] = "fallo"]
  /\ cabeza' = [cabeza EXCEPT ![s] = Nadie]
  /\ UNCHANGED <<tienda, oyente, reintento, reloj, caidas, testigos>>

\* AvisoConRespaldo.Esperar: woken by the channel or by the fallback timer.
DespiertaAviso(s) ==
  /\ pc[s] \in {"vacia", "fallo"} /\ aviso[s]
  /\ aviso' = [aviso EXCEPT ![s] = FALSE]
  /\ pc' = [pc EXCEPT ![s] = "leer"]
  /\ UNCHANGED <<tienda, escucha, cabeza, reintento, reloj, caidas, testigos>>

\* Mutant: no fallback timer, only the channel wakes the loop.
DespiertaSinRespaldo(s) ==
  /\ pc[s] \in {"vacia", "fallo"} /\ aviso[s]
  /\ pc' = [pc EXCEPT ![s] = "leer"]
  /\ UNCHANGED <<tienda, oyente, cabeza, reintento, reloj, caidas, testigos>>

DespiertaRespaldo(s) ==
  /\ pc[s] \in {"vacia", "fallo"}
  /\ pc' = [pc EXCEPT ![s] = "leer"]
  /\ UNCHANGED <<tienda, oyente, cabeza, reintento, reloj, caidas, testigos>>

\* reintento.desde is reached.
VenceFreno(s) ==
  /\ reintento[s].frenado
  /\ reintento' = [reintento EXCEPT ![s].frenado = FALSE]
  /\ UNCHANGED <<tienda, oyente, pc, cabeza, reloj, caidas, testigos>>
-----------------------------------------------------------------------------
Tic ==
  /\ reloj < MaxReloj
  /\ reloj' = reloj + 1
  /\ UNCHANGED <<tienda, oyente, despacho, caidas, testigos>>

\* The process dies anywhere and starts again: New seeds seq from the table.
Reinicio ==
  /\ caidas < MaxCaidas
  /\ caidas' = caidas + 1
  /\ seq' \in MaxSeqDe(filas)
  /\ perdidas' = 0 /\ enq' = Libre
  /\ escucha' = [s \in Sesiones |-> Nadie]
  /\ aviso' = [s \in Sesiones |-> FALSE]
  /\ pc' = [s \in Sesiones |-> "leer"]
  /\ cabeza' = [s \in Sesiones |-> Nadie]
  /\ reintento' = [s \in Sesiones |-> SinReintento]
  /\ UNCHANGED <<filas, reloj, testigos>>

NextTienda   == Contar \/ Capa1 \/ Capa2 \/ Capa3 \/ Insertar \/ EnqueueFalla
NextSesion(s) ==
  \/ Acusar(s) \/ LeeCabeza(s) \/ Entrega(s) \/ EntregaFalla(s)
  \/ MarcarDespachada(s) \/ VueltaFalla(s)
  \/ DespiertaAviso(s) \/ DespiertaRespaldo(s) \/ VenceFreno(s)

Next ==
  \/ \E m \in Mensajes : Enqueue(m)
  \/ NextTienda
  \/ \E s \in Sesiones : NextSesion(s)
  \/ Tic \/ Reinicio

\* The goroutine of a session keeps running, its timers expire, and a read, a
\* delivery or a seal that is tried again and again does not fail for ever.
Justicia(s) ==
  /\ SF_vars(LeeCabeza(s)) /\ SF_vars(Entrega(s)) /\ SF_vars(MarcarDespachada(s))
  /\ WF_vars(DespiertaRespaldo(s)) /\ WF_vars(VenceFreno(s))

Spec      == Init /\ [][Next]_vars
SpecJusta == Spec /\ \A s \in Sesiones : Justicia(s)
-----------------------------------------------------------------------------
(***************************************************************************)
(* What the inbox promises.                                                *)
(***************************************************************************)
\* Every message WhatsApp was told we have (or is about to be told, once its
\* Enqueue has committed) is still pending on disk, or reached the sink, or was
\* sacrificed by the cap.  The one other way out is the seal of a row that
\* inherited a rowid (malSellados), which SelladoFueEntregado denies.
SinPerdidaSilenciosa ==
  \A m \in acusados \cup {escucha[s] : s \in Sesiones} :
    \/ m = Nadie
    \/ \E f \in SinDespachar(filas) : f.msg = m
    \/ m \in entregados \cup malSellados
    \/ \E d \in descartadas : d.msg = m

\* FIFO as the table sees it: once a row of a session has been delivered, no
\* row of that session that arrived before it is left behind, across re-tries,
\* drops of the cap and restarts that re-seed seq.
NadieAdelantado ==
  \A f \in SinDespachar(filas) : ultima[f.msg.sesion] <= f.n

\* FIFO as the cloud sees it: the arrival numbers a session delivers never go
\* back (a repetition of the last one is the tolerated duplicate).
EntregaEnOrden == [][\A s \in Sesiones : ultima[s] <= ultima'[s]]_vars

\* "Una conversacion o esta ENTERA o no esta": when the cap deletes a pending
\* row, no pending row of its conversation survives the same step.
ConversacionEntera ==
  [][\A d \in EnEstado(descartadas' \ descartadas, Pendientes) :
       \A f \in EnEstado(filas', Pendientes) : Conversacion(f) # Conversacion(d)]_vars

\* The cap bounds what has not been delivered: an INSERT never leaves more
\* than MaxFilas unsealed rows, whatever was on disk and whatever a dispatcher
\* sealed between COUNT and INSERT.
TopeDePendientes ==
  [][Cardinality(filas') > Cardinality(filas)
       => Cardinality(SinDespachar(filas')) <= MaxFilas]_vars

\* A dispatcher that found its session up to date and went to sleep is always
\* woken by an arrival: pending work implies a token in the channel, or a
\* listener that is about to put one.
SinDespertarPerdido ==
  \A s \in Sesiones :
    pc[s] = "vacia" /\ SesionPendiente(filas, s) # {} => aviso[s] \/ escucha[s] # Nadie

\* "Se retrasa, nunca se pierde": every pending row eventually stops being
\* pending; no failing row freezes its session.
FilaSale ==
  \A k \in 1 .. MaxSeq :
    (\E f \in SinDespachar(filas) : f.n = k) ~> ~(\E f \in SinDespachar(filas) : f.n = k)

\* The inbox implements BuzonDurable: what the cloud and the listeners see of
\* it is a durable FIFO per session, and neither a death of the process nor a
\* failed or half-done Enqueue can be seen in it.
Buzon == INSTANCE BuzonDurable
  WITH total        <- admitidas,
       pendientes   <- {<<f.msg.sesion, f.n>> : f \in SinDespachar(filas)},
       ultima       <- ultima,
       sacrificadas <- {d.n : d \in descartadas}

ImplementaBuzon == Buzon!Spec

\* entregar: "SOLO SI la entrega salio bien, la sella como despachada".
SelladoFueEntregado == malSellados = {}
=============================================================================
