# wapp-edge-agent: TLA+ models, model checking and proofs

The Edge agent runs next to a WhatsApp account and connects it to a cloud:
messages that arrive at the WhatsApp sessions of the Edge are written to a
durable inbox, drained by one dispatcher per session, handed to the cloud
stream or, while there is no stream, to a durable outbox, and re-sent when the
stream is back. In the other direction the cloud sends commands (send this
message, configure that) and inference requests for a local language model,
which a second process serves. The modules of this directory model those
mechanisms from the source and say what they promise.

All paths below are under `src/`; `internal/` is left out of most of them.

## 1. The system

Three programs run on an Edge: `wapp-ctl` (supervisor, reverse proxy and
onboarding web), its child `agent serve` (the daemon) and its child
`agent cajero` (the language-model worker). They share two SQLite databases,
`edge.db` (sessions, outbox, configuration) and `cola_entrantes.db` (the
inbox), each opened with a single connection per process.

| Component | State it keeps | Operations | Talks to |
|---|---|---|---|
| Inbox (`adapters/colaentrantes`) | table `cola_entrantes`; order counter `seq`; loss counter; DEK cache | `New`, `Enqueue` (prune, three-layer cap, insert), `CabezaDeSesion`, `MarcarDespachada`; `Reclamar`, `MarcarClasificado`, `BarrerLeasesVencidos` | listeners (in), dispatchers (out), an older cajero (claims) |
| Listener (`adapters/whatsmeow/listener.go`) | history window, passive sessions | `onMessage`: filter, enqueue, wake, ack | whatsmeow, inbox, dispatcher channel |
| Dispatcher (`app/despachador`) | the head in hand, `reintentoEntrega`, counters | `Run`, `vuelta`, `entregar`, `esperar` | inbox, the session's sink |
| Outbox (`adapters/outbox`) | table `outbox`, `seq` | `Enqueue`, `Drain`, `Delete`, `Fail`, `PendingSessions` | CloudLink |
| CloudLink (`adapters/cloudlink`) | current client, `pending` guard, command queues, lease caches, readiness | `Run`, `forward`, `drainLoop`, command dispatcher, heartbeats, inference lane | cloud stream, outbox, sessions, cajero socket |
| Session manager (`app/sessionmgr`) | live sessions, roles, stored rows | `Pair`, `Restore`, `onLoggedOut`, `Unlink`, `Stop`, listening cycles | WhatsApp transport, custody, dispatcher |
| Connector (`adapters/whatsmeow/connector.go`, `app/pair.go`) | one pairing: signals, QR codes, its client | `StartConnection`, `run`, `Pair.Run` | library, web, session manager |
| Correlator (`adapters/whatsmeow/correlation.go`) | two maps and a queue | `Remember`, `Lookup` | sender, receipts |
| Inference server (`app/cajero/servidor.go`, `aforo.go`, `app/breaker`) | breaker (failures, openUntil, probing), places | `Inferir`, `State`, `BeginAttempt`, `RecordSuccess/Failure` | local model, daemon |
| Cold-prefix notice (`app/cajero/cajero.go`) | `prefijoFrioAvisado` | `avisarPrefijoFrio`, `registrarAcierto`, `registrarFallo` | daemon |
| Supervisor (`adapters/supervisor`) | child handle, generation, restart counter | `Start`, `Stop`, watch, restart with backoff | the children |
| Authentication (`auth`) | tokens, user, degraded flag | `Login`, `Refresh`, `Logout`, relay | cloud, keystore |
| Edge configuration (`adapters/edgeconfig`) | stored version, subscribers | `Apply`, `Bootstrap` | CloudLink commands |
| Custody and encrypted store (`adapters/keycustody`, `cryptostore`, `sessionstore`) | key files, sealed containers | open, seal, migrate, anchor | session manager, inbox |
| Health, latency, diagnostics (`app/health`, `app/latencia`, `app/diagnostics`) | gauges, histograms | observe, snapshot | heartbeat |
| Control plane (`adapters/control`) | HTTP handlers, log ring and subscribers | pair, unlink, diag, logs | everything above |
| Start-up (`infra`) | open databases, socket of `/v1`, archives of the old layout | `Daemon.Run`, migrate, enroll, wire | everything above |
| Programs, web UI, packaging, fake transport | none worth a model | command lines, proxies, static pages | |

How an incoming message travels:

    whatsmeow -> listener.onMessage -> Store.Enqueue -> avisar -> ack
                                            |
                                 cola_entrantes (SQLite)
                                            |
             Despachador.vuelta: CabezaDeSesion -> sink.Deliver -> MarcarDespachada
                                                        |
                                        Adapter.forward -> live stream
                                                        -> outbox -> drainLoop -> stream

### What is hard about it

* No transaction spans two statements. `Enqueue` prunes, counts, deletes in
  three layers and inserts as separate commits, and a dispatcher seals in
  between; delivery and seal are two steps; a process can die between any two.
* Rowids are re-used (no AUTOINCREMENT), order counters are re-seeded from
  what is left in the tables.
* The wake-up of a dispatcher is a one-slot channel with a non-blocking send.
* The guard that keeps a session's events in order is in memory, and is
  replaced by a read that another goroutine may have outdated.
* The drain loop of a stream that fell is not joined and overlaps the next.
* Breaker and places are atomic, what a request remembers of them is not;
  requests give up at every point.
* Roles of sessions, restarts of children and token refreshes are decided
  under a lock and carried out after it is released.
* The load of a key cannot be cancelled: an abandoned one returns cycles later,
  when its session may be gone. The library calls back from goroutines of its
  own that nobody joins.
* Pairings and sessions do not hang from the daemon's context, so its shutdown
  has to find and join them.
* Clocks are compared across processes, with WhatsApp and with the past, and
  are set back.

`PROJECT.json` lists each hazard at its line with the properties that would
catch it going wrong, the ones that no property covers yet included.

### What makes each component correct

* Inbox and dispatcher: nothing acknowledged to WhatsApp is lost silently;
  FIFO per session; the cap bounds the backlog and takes whole conversations;
  no lost wake-up; every row leaves; only delivered rows are sealed.
* Outbox and CloudLink: no event disappears without a trace; backlog in order;
  live events do not overtake backlog; a session gets back to the live path.
* Inference: never more requests at the model than places; every failure the breaker
  counts has a cause, a failure of the model or a request that a success found still to try
  with an old reading of the circuit; the probe is resolved; each request is answered; a cold prefix is notified once per episode and not silenced by a lost notice.
* Claims: a batch is closed whole, by the last claim of its rows.
* Session manager: what `Unlink` deleted leaves nothing behind; quota and one
  primary per number; a logged-out device never comes back; `Stop` ends.
* CloudLink: a session's orders in order, also across streams; nothing after a
  revocation; every registered session anchored; the receive loop never stuck;
  the cloud ends up with the readiness the Edge has.
* Listening and pairing: a cycle's key is in clear no longer than its socket (the inbox caches
  it for longer); an unlink and a pairing end, whatever does not answer.
* Entry gate: the window drops old messages, and no live one.
* Authentication: two refreshes that are waited for never spend one token. Configuration: disk and
  memory agree. Migration: no session is lost. Report: the health of a dead
  cajero expires. Shutdown: the inbox closes after the last listener.
* Supervisor: one child at most; no restart after `Stop`; a child that dies is
  restarted or given up.

## 2. Modules

| Module | Models | Status |
|---|---|---|
| `ColaTabla` | the statements on `cola_entrantes` as operators on tables | done |
| `ColaEntrantes` | inbox, tail of the listener, dispatcher, crash and restart | done |
| `BuzonDurable` | what the inbox promises: a durable FIFO per session; `ColaEntrantes` implements it | done |
| `MCColaEntrantes` | instances of it for TLC | done |
| `ColaEntrantes_proofs` | type correctness, no silent loss, FIFO, order, wake-up, the cap | done |
| `ColaBuzon_proofs` | `ColaEntrantes` implements `BuzonDurable` | done |
| `ReenvioOutbox` | forward, outbox, drain loops, stream life, crash | done |
| `ReenvioOutbox_proofs` | type correctness, order of the backlog and of its drain, trace of every event | done |
| `ServidorInferencia` | breaker, places, `Inferir`, cold-prefix notice | done |
| `ServidorInferencia_proofs` | type correctness (places), causes of the failures counted, notice | done |
| `Supervisor` | `Start`, `Stop`, `Status`, reapers, restart loops, watcher, death of `wapp-ctl` | done |
| `Supervisor_proofs` | Stop wins, type correctness, the lock file | done |
| `SessionMgr` | pairing, roles, failover, unlink, stop, restore | done |
| `SessionMgr_proofs` | what Unlink deleted, dead sessions, roles and quota | done |
| `CicloEscucha` | the listening cycles of one session, abandoned loads of its key, what an unlink cleans | done |
| `Emparejamiento` | one pairing: web, `Pair.Run`, connector, handler | done |
| `PuertaEntrada` | the filters of the listener before the inbox, and the ack | done |
| `Correlador` | orders, messages and receipts | done |
| `CloudDispatcher` | receive loop, queues and workers per session, leases, registry, anchoring | done |
| `Nube_proofs` | anchoring, order of each session, revocation | done |
| `CarrilInferencia` | the inference lane and the readiness | done |
| `ColaCajero` | claims and leases on the inbox | done |
| `ParteCajero` | the report of the cajero and who believes it | done |
| `AuthManager` | login, refresh, logout, custody of the token | done |
| `EdgeConfig` | the configuration the cloud pushes | done |
| `Migracion` | the two phases of the session migration | done |
| `Daemon` | start-up and orderly shutdown of the daemon | done |
| `MCSesiones` | `SessionMgr` and `AuthManager` in one run | done |
| `MCEdge` | eleven of the modules above, from `CicloEscucha` to `Daemon` without `AuthManager`, in one run | done |
| `Edge_proofs` | theorems about nine modules: `Daemon`, `EdgeConfig`, `CicloEscucha`, `Migracion`, `ParteCajero`, `PuertaEntrada`, `AuthManager`, `ColaCajero`, `Correlador` | done |

Each module states its type invariant (`TypeOK`, `Tipo...`). The runs do not check
them: they check what a type does not say. Those of `ColaEntrantes`, `ReenvioOutbox`,
`ServidorInferencia` and `Supervisor` are theorems (section 4); of the other modules the
proofs carry, inside their inductive invariants, the domains their argument uses.

Every safety property that a passing run checks is a theorem. Theorems still to come: the
type invariants of the other modules.

### ColaTabla and ColaEntrantes

The table is a set of rows; `ColaTabla` holds what each SQL statement does to
it and no variable. `ColaEntrantes` has one action per SQL statement or call to
the sink: the database has one connection and no transaction, so that is the
grain at which processes interleave.

| Variables | Code |
|---|---|
| `filas` | table `cola_entrantes`, the only thing that survives a crash |
| `seq`, `perdidas` | `Store.seq`, `Store.descartadasPorTope` |
| `enq` | the `Enqueue` that holds `s.mu`: next statement, message, `toDrop`, loss so far |
| `escucha`, `aviso` | the listener between a nil `Enqueue` and its ack; the one-slot channel |
| `pc`, `cabeza`, `reintento` | `Despachador.Run` of a session, its `ColaCabeza`, its `reintentoEntrega` |
| `reloj` | the clock that both the seal and the prune read |

| Actions | Code |
|---|---|
| `Enqueue`, `Contar`, `Capa1`, `Capa2`, `Capa3`, `Insertar`, `EnqueueFalla` | `Store.Enqueue`, `pruneTTLLocked`, `dropOldestLocked` |
| `Acusar` | the end of `enqueueCola`, `avisar`, the ack |
| `LeeCabeza`, `Entrega`, `EntregaFalla`, `MarcarDespachada`, `VueltaFalla` | `vuelta` and `entregar` |
| `DespiertaAviso`, `DespiertaRespaldo`, `VenceFreno` | `AvisoConRespaldo.Esperar`, the brake of a failing row |
| `Reinicio` | death of the process anywhere, and `New` |

The variables marked *ghost* in the module record history for the properties
and are read by no guard. `Init` opens a table that an earlier process may have left.
`sink.Deliver` of production always returns nil, because it queues in the
outbox when it cannot send (`adapters/cloudlink/adapter.go:537-558`); the model
keeps the error path of the interface, which the dispatcher handles. Stopping and re-opening one session inside a live
process is in `SessionMgr` and `CicloEscucha`. A statement that fails after
earlier ones have deleted rows returns without adding those to the loss counter
(`colaentrantes.go:556`); `descartadas` counts them, `perdidas` does not.

`BuzonDurable` is the promise: messages are numbered as they are admitted, each
session hands over its own in that order, what is given up is recorded, what
leaves otherwise leaves one message at a time. It has no table, no cap, no
statement and no crash. `ImplementaBuzon` maps `total` to `admitidas`,
`pendientes` to the unsealed rows as pairs of session and arrival number, and
`sacrificadas` to the numbers of `descartadas`; an INSERT is an `Admite`, a
delivery an `Entrega`, a seal a `Retira`, layers 2 and 3 a `Sacrifica`, and
everything else, `Reinicio` included, a stutter. `Retira` does not say that the
message had been handed over: because of finding 1 below, the code does not either.

### ReenvioOutbox

One caller of `forward` per session (its dispatcher), and one drainer per
stream; drainer 0 is the `recomputePending` that `Run` makes before it
connects. `pending`, `cliente`, `outbox`, `orden` are the code's; `fpc`/`dpc`
say where each `forward` and each `drainOnce` is. `Store.mu` covers a whole
`Enqueue`, during which a drainer may still delete. The CloudLink client
is outside the repository; as the code does, the model takes a nil of its
`Send` for an event the cloud has. Not modelled: `SendReceipt` (a second caller
of `forward` for a session), the branch for a payload that cannot be decoded,
`Fail` (its counter is never read), and the build without an outbox.

### ServidorInferencia

One handler per request, with the breaker's methods as atomic steps and
`eraSondeo`, what the handler remembers, as its own variable. The local model is
an environment: it answers in time, late, or not. `failures` is capped at the
threshold, which is all it is compared with. Warm-ups skip the breaker, as in the
code.

A request that gives up before it tries the model reports a failure only if it had read
the circuit half-open. `State()` is read before `BeginAttempt()`, so two requests may
both read half-open: the first probes, succeeds and closes the circuit, and the second, which gives up on
a closed circuit, counts a failure (`servidor.go:139-141` admits it; `servidor.go:567-570`
says an abandoned request counts none). As many such requests as the threshold open the circuit of a model
that has answered everything. `FalloConCausa` says that nothing else does: since the
last success (`enfermo` is a ghost a success lowers and a failure of the model raises),
failures are no more than the requests in the ghost `rezagadas`, those which that success found undecided
with such a reading. Known and tolerated by the code, and so not a property: a late result
of a request that began before the circuit opened clears `probing`, so that a
second probe may start while the first is out.

### Supervisor

One `Supervisor` of `wapp-ctl`, with the automatic restart on (`Restart.Enabled`,
as the cajero has it; without it the reapers do nothing). `mando` is the `Start`
or `Stop` that waits with `s.mu` held; an action of another thread that needs the
mutex has `SinCandado` in its guard, and the restart loop has none while it
probes and closes its child.

| Variables | Code |
|---|---|
| `p`, `stopping`, `relanzando`, `vigiaAdoptado` | the fields of that name |
| `stopCh`, `gate` | the channel of the generation and the one each goroutine captured; closed means that `stopCh` is another |
| `estado`, `pidfile` | the processes and the lock file, which survive `wapp-ctl` |
| `pc`, `hijo` | where each reaper, watcher or restart loop is, and the child it deals with |

| Actions | Code |
|---|---|
| `StartIdempotente`, `Start`, `StartReady`, `StartFalla`, `StartDesiste` | `Start`, `launchLocked`, `awaitReady`, `terminar` |
| `Stop`, `StopTermina`, `StopPorPid`, `StopPidTermina`, `Status` | `Stop`, `waitPIDExit`, `Status` |
| `Recoge`, `TrasSalida`, `Despierta`, `Relanza`, `NoRelanza`, `SondeaReady`, `SondeaFalla`, `Vuelve`, `Adopta`, `Sobra` | the reaper and `trasSalida` |
| `VigiaAcaba` | `vigilarAdoptado`, `retirarVigia` |
| `Muere`, `Kill`, `Reinicio` | a child dies, is killed; `wapp-ctl` dies and comes back |

Left out: the re-use of a pid, which the code declares out of its reach; a lock
file that cannot be written; the values of the backoff and its counters, because
a timer may fire at any moment; `Healthy`. `TypeOK`, proved, says nevertheless that
`relanzando` is never up with no restart in its tract. It may be down with one:
two restart loops can be in their tracts, and the first that ends lowers it.

### SessionMgr

One process at a time over the rows that survive it. A pairing, an `Unlink`, the
hook of a logged-out device and `Stop` each have their own position; the lock of
the manager is the grain of the steps, as it is in the code.

| Variables | Code |
|---|---|
| `fila`, `cuentas`, `dek`, `material` | the store's rows, its accounts, key files, the encrypted rows of a device |
| `viva`, `meta`, `mux` | `Manager.live`, the `domain.Session` in memory, the registrations in the multiplex |
| `escucha`, `despacho`, `cancelada` | the two goroutines of a session and its context |
| `pair`, `unlink`, `gancho`, `relevo`, `parada` | where each operation is, and with whom |
| `limpias`, `cruzadas`, `solapada` | history for the properties |

Simplified: the register-and-arm of `startListener` is one step, and so are seal
and register (their detail is in `Emparejamiento`), and the copy and `Upsert` of the hook.
A listener runs or has ended (its cycles are `CicloEscucha`). `UnlinkAccount`
has no caller. What the properties leave out is in their statements: a promotion that a
pairing or an `Unlink` crosses may give a number two primaries or none, and a
hook `Unlink` does not join may write its row back after it.

Observed while modelling, and kept in the model or named here: the unlink of a
primary promotes nobody; a `SetRole` that fails is never retried; an `Unlink` cut
in the middle leaves a row that says active; a row in `pairing` that a crash left
is never cleaned; a pairing hangs from `context.Background` and survives the
close of the web; a failure of the custody after the device was saved leaks its
material (`cleanupPairing` has no JID); `Stop` does not wait for the session a `Pair` in flight
registers, against `manager.go:393-398`, which is why `StopTerminaSinPair` has its hypothesis.

### CicloEscucha, Emparejamiento, PuertaEntrada, Correlador

`CicloEscucha` follows `runListener`: load the DEK under the watchdog, connect,
listen, fail, wait. `carga` and `dek` are kept per cycle because an abandoned
load returns later; `llamadas` are the callbacks of the library that have not
returned; `sobre` is the DEK the inbox keeps, `salud` the entry of the registry. `DEKBorrada` speaks of the key of a
cycle; the inbox has the same key in its cache of crypters (`sobre`) from the first message until the
session is forgotten.
`NadaTrasUnir` names what the join of an unlink does not reach: a late load or a callback
creates the health entry again (`registry.go:115`), and an `onMessage` in flight
makes the inbox keep the key again, against `unlink.go:186-192`. The backoff
of the runner is never reset (`listen.go:322`); a wait of any length is a wait.

`Emparejamiento` is one pairing: `senales` is the bounded channel, `conector`,
`run`, `manejador` its three users, `sumidero` what the web polls. The close of the channel
while the handler may still send is a panic the library recovers (`connector.go:146`);
a pairing whose time runs out as the phone connects leaves a linked phone without a session.
The model runs one pairing. That another can begin afterwards is argued, not checked: each has a client, a
channel and goroutines of its own, and `EmparejaTermina` says that those of the first end.

`PuertaEntrada` is `onMessage` with the hour of the server and of the machine.
The library keeps its queue of events across a reconnection, so a message may be judged under the next
connection than the one that brought it: if it was held longer than the margin it
is dropped and acknowledged. `VentanaJusta` therefore speaks of what was written after
the socket in use came up. The clock of the machine is assumed between the server's hour and the margin
ahead of it, never behind: further ahead, live messages are dropped, and behind, old ones would pass.

`Correlador` has the two maps and the queue as one record, `corr`; `Compacta` is the
filter of the queue, written as a function so that it can be reasoned about. A receipt
carries several messages, of any orders or sent from another device (`Ajeno`), and `Lookup` gives the whole of it the
order of the first message it knows (`correlation.go:83-96`, `listener.go:1060-1063`). The messages of other
orders in it go up with that one, and so what `CorrelacionCoherente` says of a receipt is that
its order, if any, sent one of its messages. A receipt may come before `Remember`; each listening cycle has its own correlator, and a repeated order
keeps its old place in the queue.

### CloudDispatcher and CarrilInferencia

`CloudDispatcher`: `tramo` is where `runOnce` is, `mano` the order the receive loop
holds, `cola`, `obra`, `trabajador` the queues and workers of each stream and session,
`registro`, `lease`, `anclada` the registrations, their validators and those that have had a first
heartbeat. A registration has a number, because a session that registers again
has a new validator. Behaviours the model has and nothing promises against: a queued revocation is lost with its
stream; the loop does not notice the end of its stream while it waits at a full
queue; at shutdown it may drop one order and dispatch a later one. The shadow mode of the
leases and an order its validator rejects are left out.

`CarrilInferencia`: the swap of the readiness, the building of a heartbeat and its
sending are three steps (`MarcarInferenciaReadiness`, `LeeYLate`, `EnviaLatido`). The heartbeat of a session that
was logged out carries no readiness and is left out.
A stream that falls with a request in flight makes the client report
`OLLAMA_DOWN`, and the readiness goes down though the cajero lives, which
`inferencia.go:270-283` and `readiness.go:14-20` do not foresee; the
next request served, or the next notice, corrects it.

### ColaCajero and ParteCajero

`ColaCajero` is the fence of the claims: workers, tokens, leases, a clock that goes
back. Nobody in the current build calls `Reclamar` or `MarcarClasificado`; only the
sweep runs. As `claim.go:421-475` says, against a dispatcher that seals in order a close
loses whenever one of its rows has gone.

`ParteCajero` is the report the cajero writes in every inbox and the window
`collector.go:528-533` believes it in. `heredado` counts how long a report without
a living author was believed. The window is symmetric, so after the clock went
back a dead process's report is hidden while it is in the future and
believed again when the clock comes near it: `SaludCaduca` bounds the
total, while `parteworker.go` and `0002_parte_worker.sql` say it never happens.

### AuthManager, EdgeConfig, Migracion, Daemon

`AuthManager`: one thread per kind of caller, `refreshMu`, the custody file, which may be
left half-written, and the cloud, which rotates refresh tokens. A caller that gives up
leaves its request on the wire (`cloudlink/auth.go:135`): `huerfanas` are those requests, `MaxTardias` at most, and
`NubeTardia` the cloud that processes one when nobody waits for its answer. A refresh the cloud processes so spends
a token that a later refresh may carry: that one is refused, and the token is in `perdidas`, which is the
exception `RotacionSinPerdedor` states. An abandoned login opens a session at the cloud that nobody hears of,
and is left out. `SoloAcceso` is an answer without a refresh token: nothing is stored (`manager.go:186`). A login or a logout
does not take `refreshMu`: a refresh that was on the wire may replace the session
of the next user, or bring a closed session back (`manager.go:171`). The error of
`custody.Clear` is ignored. The model has these behaviours; no comment of the code promises otherwise.

`EdgeConfig`: two kinds stand for the three. `ciegos` are the kinds whose row a start
could not read, or was written by a `Put` that reported an error: until the cloud publishes another version, a repetition of the one on disk is "already applied"
(`service.go:116`) and memory stays empty, against `service.go:141-142`; and an older version
passes the validator, which compares with memory.

`Migracion`: the archive of phase 1 and the restoration of phase 2, with a death or a failure
between any two steps; when the directory of the archive cannot be made, or what there is cannot be listed, the start goes on with
nothing moved. Of Postgres, which skips phase 2, nothing is modelled. Observed: a failed
move is never retried, as its mark is already there; a purge that fails leaves an
archive the next start restores again, which brings back a session the user has unlinked or WhatsApp
has logged out (`restore_active_sessions.go:300-305` calls it harmless).

`Daemon`: `enRun` walks through `Daemon.Run`; the sessions it started and those that
pairings arm write to the inbox meanwhile; the signal cancels the stream to the cloud
and nobody waits for it. A start that fails after `Restore` returns with listeners
alive while the databases close: `CierreEnOrden` speaks of the orderly shutdown. A pairing that arms its
session after `Stop` has returned escapes it (`tardias`). So does a diagnostic injection: its `/v1` handler may
outlive the five seconds of `Shutdown`, and writes under the context of its request
(`whatsmeow/inyector.go:269-282`), so a row may enter the inbox after the final count. The model has it
(`InyectarEntrante`), and `CierreEnOrden` exempts the count in that case (`inyectada`) and not the rest. The
thread of the proactive refresh, which touches none of this, is left out. Two overlapping daemons, the second
of which removes the socket of the first (`Server.Listen`), are not modelled.

## 3. Runs

| Run | Asks | Instance |
|---|---|---|
| `cola_sesiones` | lost wake-ups | two sessions, two messages and one, a cap of one row |
| `cola_heredada` | silent loss, FIFO, whole conversations, cap | one session, two chats, three messages, tables left by an older version with all four `estado`s and more rows than the cap, one crash |
| `cola_justa` | every row leaves, refinement of `BuzonDurable` | the same session, empty table, cap of two, one crash, with fairness |
| `outbox` | trace, order, drain, back to live | two events, two streams, TTL on, cap and batch of two, one crash, with fairness |
| `inferencia` | causes of the failures counted, notice, answers | two requests and a warm-up, one place, threshold two, with fairness |
| `supervisor` | lock file, Stop against restarts, commands that return | three launches, a watcher, four commands, one death of `wapp-ctl`, with fairness |
| `sesiones` | deletion, roles, zombies, Stop; apart from them, refreshes that race | three sessions of a number (two restored), quota two, one `Unlink`, one logged-out device, one failed statement or death, with fairness; two kinds of refresh, a login, a logout, two tokens, two abandoned requests, any number of restarts |
| `edge` | one or two questions of each of the eleven components of `MCEdge` | see Bounds |
| `cola_rowid`, `outbox_orden`, `inferencia_sondeo`, `supervisor_huerfano` | one documented claim each, found violated | see Findings |

What they show: the inbox never loses a message it acknowledged without
recording it, delivers each session in arrival order across crashes and drops,
and cannot sleep over pending work; the overlap of two drain loops does not
disturb the order of the backlog; a request that gives up counts as a failure of the model only if
it had read the circuit half-open before the success that closed it, and once at most; a child that nobody told to stop is the one the lock
file names, with the single exception that `LimpiezaCiega` describes (finding 4).
Nothing that a finished `Unlink` deleted is seen again; roles and quota of a number
hold while no promotion is crossed by a pairing or an unlink; an order of
the cloud never overtakes another of its session, not even across two streams; a
revocation stops everything behind it; a cycle has the key in clear only while its socket lives or it is being
picked up (the inbox keeps it in its cache besides); two refreshes whose callers wait never spend one token;
a shutdown closes the inbox after its last listener; no session is lost by the migration.

`MCEdge` extends eleven modules that share no state. A constant of each behaviour,
`componente`, says which of them moves; the others stay in their initial state.
Reachable states are the sum of the eleven, not their product, and a property of
one module means in this run what it means alone. Nothing fair is enabled in a
module that does not move (the clauses of `Init` see to it: a lane starts with its
cajero dead, say), so the fairness of one asks nothing of the others. `MCSesiones` does the same with `SessionMgr` and
`AuthManager` (`clase`).

### Bounds and why they are enough

* `MaxSeq` (2 to 4) bounds the inserts, `MaxReloj` (0 or 1) the clock,
  `MaxCaidas` (0 or 1) the deaths. A cap of one or two rows is full after two
  inserts; four insertions let the cap work, a rowid be handed out again, and a repetition arrive.
  `TTL = 0` makes a row sealed one tick ago expire.  One crash
  is enough for the counter to be re-seeded from a table whose top is gone, and
  a second starts from a state of the same kind. `cola_justa` needs no clock.
* `MaxEventos`, `MaxConexiones` (2 and 2; 3 and 1 in `outbox_orden`): two
  streams are what two overlapping drainers need; two events are what an
  overtaking needs; the cap of two is reached when a crash makes the dispatcher
  hand over its last event again.
  `CHECK_DEADLOCK FALSE`: with the events and the streams spent, this system stops.
* `inferencia`: `Umbral = 2`, `Ventana = 1`, `Plazas = 1`, `MaxAvisos = 2`: with a threshold of two
  one failure is not enough; a failure counted on a closed circuit needs one request that probes and
  another that read half-open before it; with a single place the others wait; a second
  notice needs a first that is still on its way. Each request may come again
  without end, so no bound on their number is needed.

* `MaxHijos = 3`, `MaxVigias = 1`, `MaxMandos = 4`, `MaxCaidas = 1`: the loss of a
  child by the lock file needs three launches and a watcher; four commands
  allow a `Start`, the adoption, a `Stop` and a `Start` after it. The module was
  also run with four launches, in four minutes and with the same results.
  `CHECK_DEADLOCK FALSE`: with launches and commands spent, this system stops.

* `sesiones`: `MaxSes = 3`, `Previas = 2`, `Cupo = 2`: a failover needs two sessions and a
  crossing pairing needs a third; one `Unlink`, one fall and one failure or death are
  enough for each pair of them to cross. For the operator, two tokens: a refresh is answered with the successor of
  one that another request may carry. Two abandoned requests are a refresh and a logout of the same token or of two.
  Restarts need no bound. The run takes two minutes and a half.
* `edge`, in the order of its `.cfg`: two sessions, one of them the control session,
  queues of one, three orders and two streams (a receive loop blocked behind a working
  worker takes three orders, an overtaking across streams two streams; with a lease gate the
  first order is the lease, so `Puertas` includes the Edge that has none); one inference, repeated,
  and two workers; three sends of two orders, receipts of two messages, a cap and a TTL of one; three rows in two
  conversations, two workers and three claims; a report window of one instant, two
  processes and one jump of the clock; one message, a margin of one, two sockets; two
  cycles; one pairing with three codes; two versions, two workers and a restart; two
  sessions to migrate and two starts; one restored and one new session, two pending rows.
  With these each property is violated by its mutant. Where a module numbers things
  (streams, cycles, versions) the second one is what the interesting cases need, and a third
  starts from a state of the same kind. `CHECK_DEADLOCK FALSE`: bounded counters run out.

### Fairness

* `ColaEntrantes`: weak fairness of the timers of a dispatcher (its fallback timer, the brake), which
  the runtime fires; strong fairness of its read, its delivery and its seal:
  the loop repeats them, and a local read or write that keeps being tried
  does not fail for ever. Nothing is assumed of the listeners, nor of the wake-up
  channel: the fallback timer alone must do.
* `ReenvioOutbox`: weak fairness of `forward`, of the ticker, of cancellation and
  of `Run` (goroutines run, `runOnce` reconnects); strong fairness of the
  statements of a drainer, for the same reason as above. That a
  stream lasts is a hypothesis of `VuelveAlVivo`, not an assumption.
* `ServidorInferencia`: weak fairness of each handler and of a notice on its
  way. `SinPlaza` is part of it: the timer of the `plazo` fires whether
  or not others keep taking the place.
* `Supervisor`: weak fairness of each reaper, watcher and restart loop, of the
  waits of `Start` and `Stop`, which timers bound, and of a SIGKILL once
  `terminar` is at work. Nothing is assumed of children, which may ignore
  SIGTERM, nor of who calls.
* `SessionMgr`: weak fairness of cancelled goroutines, which end, and of the steps of
  `Stop` and `Unlink` that cancel and join them. Nothing is assumed of pairings, of WhatsApp or of callers.
* `CloudDispatcher`: weak fairness of the receive loop's dispatch, of each worker, whose
  operations have a deadline, and of `shutdown`. `CarrilInferencia`: of each worker and
  notice, and of the ticker of the heartbeats. `CicloEscucha`: of the goroutine of the session and of the unlink that joins
  it; not of the loads, which `BajaTermina` does without. `Emparejamiento`: of
  the goroutines and of the pairing's timeout; nothing of the phone or WhatsApp.
  Fairness is stated per goroutine, never of a whole next-state relation. The other
  modules of `MCEdge` state none: their properties are safety.

### Findings

1. `cola_rowid` (`despacho.go:205`): the seal goes by rowid alone. If layer 3
   deletes the head between its delivery and its seal, and the next insert re-uses the rowid, the
   seal lands on a message that was never delivered. The comment of `entregar` promises that
   a row is sealed only if its delivery went well.
2. `outbox_orden` (`cloudlink/outbox.go:100`): `recomputePending` may forget a
   session that got backlog between its read and its write; the next event goes live ahead of the
   backlog the guard is there to protect.
3. `inferencia_sondeo` (`servidor.go:146`): `State()` is read before
   `BeginAttempt()`; if the window expires in between, the request takes the
   probe without knowing it and does not give it back when it gives up. `probing` then
   stays reserved with nobody left to resolve it.
4. `supervisor_huerfano` (`restart.go:240`): a relaunched child that dies after
   `awaitReady` has said yes, and whose reaper goes through `trasSalida` before the
   loop has the mutex, is adopted dead. Nobody is left to restart it, and it stays
   down although nobody called `Stop`. The same state is `LimpiezaCiega`: if a
   watcher had meanwhile launched another child, `runningLocked`
   (`supervisor.go:394`) removes the lock file that names it, and the next
   `Start` launches a second one beside it, the danger the comment of
   `borrarPIDFileSiEsDe` describes.

Other disagreements between code and comments are described with their module in
section 2. One more, of the inbox: `Enqueue` makes room (`colaentrantes.go:265`)
before the INSERT finds that the message is a repetition, so a repetition on a full
table sacrifices rows, while `app/cola.go:345-350` says it costs an order number.

## 4. Proofs

TLAPS checks these for every value of the constants under the assumptions the
modules name (`TopeAssumption`: caps are positive; `MensajesAssumption`: a
message belongs to a session; `TablasAssumption`: an inherited table is finite
and obeys its unique indexes; `PeticionesAssumption`: finitely many requests; ...), which TLC evaluates in the runs.

| Theorem | Property | Inductive invariant |
|---|---|---|
| `ColaEntrantes_proofs!TipoCorrecto` | (`TypeOK`) | `TipoInv`: with a finite table and a row in the hands of whoever delivers or seals |
| `SinPerdida` | `SinPerdidaSilenciosa` | `PerdidaInv`: a sealed row was delivered or sealed by mistake, which is what a repeated message finds in the table |
| `Fifo` | `NadieAdelantado` | `FifoInv`: `seq` orders rows as their arrival does, no row is above `seq` or above the count of admissions, no delivered row is above the latter, and the row in hand comes after the last delivered one and before every pending row of its session (it may have left the table) |
| `Orden` | `EntregaEnOrden` | the same: a head is never older than the last delivered |
| `SinDespertar` | `SinDespertarPerdido` | the property itself with `TipoInv`: every insert leaves its message in `escucha` |
| `TopeRespetado` | `TopeDePendientes` | `TopeInv`: what is left to delete makes room for the row that comes; layer 3 begins without classified rows; the INSERT is reached with room, or with nothing undelivered in the table |
| `EnteraONada` | `ConversacionEntera` | none: layer 3 is the only step that deletes pending rows, and its statement takes all those of a conversation |
| `ColaBuzon_proofs!Refina` | `ImplementaBuzon` | `TipoInv`, `FifoInv` and `Identidad`: a rowid, and an arrival number, belong to one row of the table |
| `ReenvioOutbox_proofs!TipoCorrecto` | (`TypeOK`) | `TipoInv`: with where each caller and drainer can be, and a batch only in the hands of a drainer in its loop |
| `OrdenDelBacklog` | `OrdenDelOutbox` | `OrdenInv`: `orden` tells rows apart and follows events; no row is above the counter of the store, above the event its session is at, or below the last one drained; the batch of the stream in use precedes the rest of the table |
| `BacklogEnOrden` | `DrenajeEnOrden` | the same |
| `Rastreable` | `NadaSinRastro` | `RastroInv`: a drainer about to delete a row has sent it |
| `ServidorInferencia_proofs!TipoCorrecto` | (`TypeOK`) | itself; the bound on the places rests on cardinalities |
| `SoloRezagadasCuentan` | `FalloConCausa` | `CircuitoInv`: on a closed circuit there is still a cause left for each request that may add a failure, so failures and undecided requests together are no more than `rezagadas`; a circuit that is not closed has had `Umbral` of them. With it, `SinMemoria`: a handler outside remembers nothing |
| `AvisoNoSePierde` | `AvisoNoSeCalla` | itself with the type |
| `Supervisor_proofs!StopMasFuerte` | `StopGana` | `StartAlMando`: a `Start` that waits for readiness holds the mutex, so `stopping` is down |
| `Supervisor_proofs!TipoCorrecto` | (`TypeOK`) | `TipoInv` and `UnVigia`: a child not launched has no thread, and one watcher at most stands, which is why its mark may come down when it leaves |
| `LockUnicaExcepcion` | `LockSoloCiego` | `LockInv`: whoever waits with the mutex knows whom the lock file names, or holds the child; a reaper about to decide has seen its child dead |
| `Nube_proofs!TodasAncladas` | `TodaSesionAnclada` | `AnclaInv`: a stream out of use has neither workers nor queues; two sessions never share a registration |
| `OrdenDeCadaSesion` | `OrdenPorSesion` | `OrdenInv`: along the last order operated, the one in hand of the worker, its queue and the receive loop, the numbers grow |
| `RevocacionFirme` | `KillSwitch` | `SelloInv`: a revocation received is still on its way to the lease, or the lease it found is sealed; and what is behind it was taken with a sealed one |
| `SessionMgr_proofs!CeroHuerfanos` | `BorradoCompleto` | `BaseInv` and `BorradoInv`: who is being deleted has left the registry and nobody puts it back; once joined nothing of it runs; before its row goes its key and material have gone; no account is left without a row |
| `ZombiesQuietos` | `ZombieNoVuelve` | `BaseInv`: a row of a pairing or of a pending restore is never a closed one |
| `UnPrimarioPorNumero` | `RolesDelNumero` | `RolesInv`: see below |
| `Edge_proofs!CierreSeguro` | `CierreEnOrden` | `CierreInv`: once `Stop` has returned only late sessions run, the inbox is open from the wiring to the deferred calls, and the count is only taken after `Stop` |
| `DiscoSigueAMemoria` | `DiscoYMemoria` | `ConfigInv`: who is past the read of `Apply` holds `aplicaMu`; what passed the validator is later than memory; a difference between disk and memory has somebody about to notify it |
| `DEKSoloViva` | `DEKBorrada` | the property itself, with cycles to come having no load |
| `OlvidoDefinitivo` | `NadaTrasUnir` | `Unida`: from the forgetting on, listener and dispatcher have ended |
| `NingunaSesionSePierde` | `NadaSePierde` | `MigracionInv`: before the archive exists nothing has moved; rows are copied from a whole archive; a purge is reached with rows, key and device in place |
| `ParteCaduca` | `SaludCaduca` | `ParteInv`: how long a report was believed plus how long it still can be is within the credit the jumps of the clock have given |
| `VentanaSiempreJusta` | `VentanaJusta` | `PuertaInv`: the stamp of a connection is its hour, but for the lead of the local clock; what was dropped for its age is older than every later connection |
| `NadieGastaDos` | `RotacionSinPerdedor` | `AuthInv`: one refresh is out at most; the custody has a good token or the one whose successor is in an answer; the token of an answer belongs to nobody else; a token that an abandoned refresh spends is one of `perdidas` |
| `SoloElDuennoCierra` | `CierreEntero` | `ClaimInv`: a claimed row carries the token of its last claim |
| `AcuseConUnoDeLosSuyos` | `CorrelacionCoherente` | `CorrInv`: the maps are inverse, the queue has each order once, the index agrees with what was sent, and so does the order that the first known message of a receipt gave it |

`NadieAdelantado` is the case where the strengthening matters: `seq` is
re-seeded on a restart from a table whose newest rows may have been deleted, so
it may go back. Order holds all the same because no row of the table is ever
above `seq` (`Acotada`), so a new row is above every row it can be compared
with, and because arrival numbers are never re-used.

The outbox has the same re-seeded counter, and a second difficulty: a batch outlives the
rows it was read from, and a row may be deleted while another drainer carries a copy of it. `LoteVivo`
therefore speaks of the table and the batch together, and of the batch of the stream in use
only: a drainer of an earlier stream can delete, but nothing it sends arrives. `sellado` and
`drenado` link the rows to the event each session is at, which is what makes a row inserted
after a restart come last.

The cap counts once and deletes in three statements, between which dispatchers seal rows. `TopeInv` holds
because a seal removes no row: it can only make a later layer find less of its estado,
never make the deletion too small. The one case in which a layer leaves the table full is that
nothing undelivered is left, and then one row fits under any cap. It rests on
`LimiteAgotado`: a LIMIT `k` that leaves a row behind has taken `k`.

`SelloInv` follows a revocation as a token: it is in the hand of the receive loop, in the
queue of its session, in its worker, or applied. That two orders of a session never cross
(`OrdenInv`) is what keeps later orders behind it.

`RolesInv` speaks of states where nothing has failed, no restart cut a deletion short and no promotion was crossed (`Sereno`),
which is what the property assumes. `UnTitular` is inductive where "one primary" is not: the place of primary of a number is handed from the
device that closes (its hook in `baja`, `elige`, `asciende`) to its successor, and one session at most holds it or is handing it over. `CupoInv`
counts the rows still to be restored as taken places; `FielInv` and `ParFielInv` say when the role in memory
and the one in the row may differ: between the two writes of a promotion.
In `SessionMgr_proofs`, `Marco` states once which steps touch each piece of state, so that each conjunct is proved against the
few steps that can disturb it.

`ParteInv` is a potential: each instant a dead report is believed takes one from what it has left, and only a clock set back
can add to it, `2 * Rancio + 1` at most. In `AuthInv` the delicate moment is between
the rotation at the cloud and the write of the answer: the custody has a spent token then, and nobody can send it because `refreshMu` is held
until the write. A login or a logout in that moment is why the answer's token, not the custody's, is the one known to be good.
In `PuertaInv`, a message the library kept across a reconnection is judged by a later stamp;
`VentanaDeAntes` says that one dropped for its age was written before the socket now in use, which is what makes a repetition of it harmless.
`CorrelacionCoherente` is inductive but for `Len(order)`: the queue has as many orders as the maps because it is injective and
onto, and `CompactaEs` shows that the filter of the queue keeps both.

Only model-checked: the liveness properties (`FilaSale`, `VuelveAlVivo`,
`TodaPeticionResponde`, `ParadaManda`, `MandoVuelve`, `StopTerminaSinPair`, `BucleSigue`,
`NubeAlDia`, `BajaTermina`, `EmparejaTermina`), which the prover does not reach, as it does not reach
ENABLED, and the type invariants of the modules not named above. The properties of the four runs that
expect a violation are false, and have no theorem.
Nothing here needs induction over data beyond the least element of a set of naturals, which the library gives as
a well-founded relation; no module declares a recursive operator. The theorems of the modules in `MCEdge` and `MCSesiones` are about each
module's own specification (`SpecDaemon`, `SpecConfig`, `SpecEscucha`, `SpecAuth`, ...), without the
selector of the run.

## 5. Not modelled

The components with status `not_modelled` in `PROJECT.json` are out of scope: the socket
server and the provider of the cajero, the programs, the web UI and the packaging are
I/O around what is modelled; the fake transport is a diagnostics double.

Of the components modelled in part, left out are: the shadow mode of the dispatcher;
parsing, media and what a message says; the second caller of `forward`
(`SendReceipt`); the lease counter, the idempotence marks of diagnostics and
the answers (`Ack`, `Pong`) of CloudLink; the start-up and warm-up scheduling of the cajero and the contents
of its report; `Authorize` and the degraded mode, which changes a log flag; the
histograms and the diagnostics bundle, which decide nothing; encryption and table access; the log ring with its
subscribers; configuration, enrolment, SQL migrations.

Components of `MCEdge` are not composed with one another, because the code joins them
only through calls that each model takes as events of its environment. Where they do
share state they are one model: inbox, listener and dispatcher (`ColaEntrantes`), forward and drain
(`ReenvioOutbox`), breaker, places and notice (`ServidorInferencia`), pairing, hook, unlink and stop (`SessionMgr`).

Two simplifications cut across the
models: payloads are identities, and the failure of a statement is atomic, as SQLite makes it.
