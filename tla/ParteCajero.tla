----------------------------- MODULE ParteCajero ----------------------------
(***************************************************************************)
(* The report (parte) of the cajero: the one channel by which its process  *)
(* tells the daemons how the local model fares.  Every installation has    *)
(* its own inbox database with its own row, and the cajero writes the same *)
(* report into all of them, one after another, at start and on a ticker.   *)
(* The collector of each daemon (health/collector.go) reads its row as it  *)
(* builds a heartbeat, and believes it only while its stamp is near the    *)
(* present.  Both use the clock of one machine, which may be set back.     *)
(*                                                                         *)
(* What the report says is one value here: the loop publishes whatever the *)
(* circuit.  A report that cannot be read is one that is not there.        *)
(***************************************************************************)
EXTENDS Naturals

CONSTANTS
  Instalaciones, \* the queues of the cajero, one per daemon
  Rancio,        \* ParteRancio
  MaxAhora,      \* bound on the clock
  MaxAtrasos,    \* bound on the times it is set back
  MaxProcesos    \* bound on the processes of the cajero, one after another

ASSUME ParteAssumption == Rancio \in Nat \ {0} /\ MaxAhora \in Nat /\ MaxAtrasos \in Nat

VARIABLES
  ahora,     \* the clock of the machine
  atrasos,   \* times it has been set back
  proceso,   \* the process of the cajero: a number, and whether it lives
  tanda,     \* publicarParte in progress: its TS and the queues it has yet to write
  parte,     \* parte_worker of each queue: its stamp and, for the record, its author (0 = no row)
  heredado   \* history, per queue: instants a report without a living author was believed

varsParte == <<ahora, atrasos, proceso, tanda, parte, heredado>>

SinTanda == [ts |-> 0, faltan |-> {}]

InitParte ==
  /\ ahora = 1 /\ atrasos = 0
  /\ proceso = [n |-> 0, vive |-> FALSE] /\ tanda = SinTanda
  /\ parte = [q \in Instalaciones |-> [ts |-> 0, autor |-> 0]]
  /\ heredado = [q \in Instalaciones |-> 0]

(* Run: the first report goes out before the loop, the next on its ticker. *)
RunCajero ==
  /\ ~proceso.vive /\ proceso.n < MaxProcesos
  /\ proceso' = [n |-> proceso.n + 1, vive |-> TRUE]
  /\ tanda' = [ts |-> ahora, faltan |-> Instalaciones]
  /\ UNCHANGED <<ahora, atrasos, parte, heredado>>

PublicarParte ==
  /\ proceso.vive /\ tanda.faltan = {}
  /\ tanda' = [ts |-> ahora, faltan |-> Instalaciones]
  /\ UNCHANGED <<ahora, atrasos, proceso, parte, heredado>>

(* One queue of the round; a write that fails does not stop the others.    *)
Escribe(q) ==
  /\ proceso.vive /\ q \in tanda.faltan
  /\ tanda' = [tanda EXCEPT !.faltan = @ \ {q}]
  /\ \/ /\ parte' = [parte EXCEPT ![q] = [ts |-> tanda.ts, autor |-> proceso.n]]
        /\ heredado' = [heredado EXCEPT ![q] = 0]
     \/ UNCHANGED <<parte, heredado>>
  /\ UNCHANGED <<ahora, atrasos, proceso>>

(* The process stops or is killed, in the middle of a round perhaps. *)
MuereProceso ==
  /\ proceso.vive
  /\ proceso' = [n |-> proceso.n, vive |-> FALSE]
  /\ tanda' = SinTanda
  /\ UNCHANGED <<ahora, atrasos, parte, heredado>>

(* parteDelWorker: the window is symmetric. *)
\* Mutant: only an old report is stale (before the guard on the future).
SoloViejo(ts) == ahora <= ts + Rancio

Fresco(ts) == ahora <= ts + Rancio /\ ts <= ahora + Rancio

HayParte(q) == parte[q].ts # 0 /\ Fresco(parte[q].ts)
Huerfano(q) == ~proceso.vive \/ parte[q].autor # proceso.n

Tic ==
  /\ ahora < MaxAhora
  /\ ahora' = ahora + 1
  /\ heredado' = [q \in Instalaciones |-> IF HayParte(q) /\ Huerfano(q) THEN heredado[q] + 1 ELSE heredado[q]]
  /\ UNCHANGED <<atrasos, proceso, tanda, parte>>

Atrasa ==
  /\ atrasos < MaxAtrasos
  /\ ahora' \in 1 .. (ahora - 1) /\ atrasos' = atrasos + 1
  /\ UNCHANGED <<proceso, tanda, parte, heredado>>

NextParte ==
  \/ RunCajero \/ PublicarParte \/ MuereProceso \/ Tic \/ Atrasa
  \/ \E q \in Instalaciones : Escribe(q)

SpecParte == InitParte /\ [][NextParte]_varsParte

-----------------------------------------------------------------------------
TipoParte ==
  /\ ahora \in 1 .. MaxAhora /\ atrasos \in 0 .. MaxAtrasos
  /\ proceso \in [n : 0 .. MaxProcesos, vive : BOOLEAN]
  /\ tanda.ts \in 0 .. MaxAhora /\ tanda.faltan \subseteq Instalaciones
  /\ parte \in [Instalaciones -> [ts : 0 .. MaxAhora, autor : 0 .. proceso.n]]
  /\ heredado \in [Instalaciones -> Nat]

(* The health of a dead cajero is not told for ever: a report without a    *)
(* living author is believed for one ParteRancio after it was written, and *)
(* for two more each time the clock is set back, however far.  (The code   *)
(* promises never, collector.go:480: it can only promise this.)            *)
SaludCaduca ==
  \A q \in Instalaciones : heredado[q] <= (Rancio + 1) + atrasos * (2 * Rancio + 1)
=============================================================================
