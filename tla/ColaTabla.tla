------------------------------ MODULE ColaTabla ------------------------------
(***************************************************************************)
(* The SQLite table `cola_entrantes` and the statements that               *)
(* internal/adapters/colaentrantes runs on it, as operators from tables to *)
(* tables.  No variable lives here: ColaEntrantes (the daemon) and         *)
(* ColaCajero (the claims) build their actions from these operators.       *)
(*                                                                         *)
(* SinDespachar, pending in the sense of the dispatcher, is every row that *)
(* is not sealed; Pendientes is the pair of estados that layer 3 of the    *)
(* cap treats as pending.  A table is a set of rows; a row holds           *)
(*   id      the rowid, INTEGER PRIMARY KEY without AUTOINCREMENT          *)
(*   seq     the order column, stamped by the Store from its own counter   *)
(*   n       ghost: how many rows had ever been admitted, this one         *)
(*           included (the arrival order, never reset by a restart)        *)
(*   msg     the WhatsApp message: session, chat and wa_message_id         *)
(*   estado  nuevo, tomado, clasificado or despachado                      *)
(*   sello   despachado_en (0 while the row is not sealed)                 *)
(***************************************************************************)
EXTENDS Naturals, FiniteSets

CONSTANTS
  Sesiones,   \* the session ids that are paired on this Edge
  Mensajes,   \* the messages WhatsApp may hand to the listeners
  MaxFilas,   \* Store.maxRows, the cap of the table
  TTL         \* Store.ttl, in ticks of the clock

ASSUME MensajesAssumption == \A m \in Mensajes : m.sesion \in Sesiones
ASSUME TopeAssumption == MaxFilas \in Nat \ {0} /\ TTL \in Nat

Estados    == {"nuevo", "tomado", "clasificado", "despachado"}
Pendientes == {"nuevo", "tomado"}

Fila == [id : Nat \ {0}, seq : Nat, n : Nat, msg : Mensajes,
         estado : Estados, sello : Nat]

Conversacion(f) == <<f.msg.sesion, f.msg.chat>>

SinDespachar(t) == {f \in t : f.estado # "despachado"}
EnEstado(t, S)  == {f \in t : f.estado \in S}

\* ORDER BY seq LIMIT k: the k rows of S with the lowest seq (k may be <= 0).
MasViejas(S, k) == {f \in S : Cardinality({g \in S : g.seq < f.seq}) < k}

\* Mutant: no room for the row that is coming.
FaltanSinHueco(t) == Cardinality(t) - MaxFilas

\* How many rows have to go so that one more fits under the cap.
Faltan(t) == Cardinality(t) + 1 - MaxFilas

(***************************************************************************)
(* pruneTTLLocked: only sealed rows older than the TTL are deleted.        *)
(***************************************************************************)
\* Mutant: the age alone decides, whatever the estado.
TrasPodaSinEstado(t, ahora) == {f \in t : ~(f.sello + TTL < ahora)}

TrasPoda(t, ahora) ==
  {f \in t : ~(f.estado = "despachado" /\ f.sello + TTL < ahora)}

(***************************************************************************)
(* The DELETE statements of dropOldestLocked: the rows each one removes.   *)
(* Layers 1 and 2 take the k oldest rows of one estado; layer 3 takes      *)
(* every pending row of the conversation whose oldest pending row is the   *)
(* oldest of all, in a single statement.                                   *)
(***************************************************************************)
BorraPorEstado(t, estado, k) == MasViejas(EnEstado(t, {estado}), k)

\* Mutant: the oldest pending row goes alone.
FilaMasVieja(t) == MasViejas(EnEstado(t, Pendientes), 1)

ConversacionMasVieja(t) ==
  LET pend == EnEstado(t, Pendientes)
  IN  {f \in pend : \E g \in pend : /\ Conversacion(g) = Conversacion(f)
                                   /\ \A h \in pend : g.seq <= h.seq}

(***************************************************************************)
(* The INSERT: the rowid SQLite picks (max(rowid)+1, so that a deleted     *)
(* highest rowid is handed out again), the row, and the UNIQUE index       *)
(* (session_id, wa_message_id) that turns a repeated message into a no-op. *)
(***************************************************************************)
Rowid(t) == {i \in {1} \cup {f.id + 1 : f \in t} : \A f \in t : f.id < i}

FilaNueva(i, q, k, m) ==
  [id |-> i, seq |-> q, n |-> k, msg |-> m, estado |-> "nuevo", sello |-> 0]

YaEncolado(t, m) == \E f \in t : f.msg = m

\* Mutant: the counter starts again from zero.
SeqDesdeCero(t) == {0}

\* SELECT MAX(seq), NULL (0) when the table is empty: what New seeds from.
MaxSeqDe(t) == {q \in {0} \cup {f.seq : f \in t} : \A f \in t : f.seq <= q}

(***************************************************************************)
(* sqlCabezaDeSesion and sqlMarcarDespachada.                              *)
(***************************************************************************)
SesionPendiente(t, s) == {f \in SinDespachar(t) : f.msg.sesion = s}

\* Mutant: ORDER BY seq DESC.
EsCola(t, s, f) ==
  /\ f \in SesionPendiente(t, s)
  /\ \A g \in SesionPendiente(t, s) : g.seq <= f.seq

EsCabeza(t, s, f) ==
  /\ f \in SesionPendiente(t, s)
  /\ \A g \in SesionPendiente(t, s) : f.seq <= g.seq

ASellar(t, i) == {f \in SinDespachar(t) : f.id = i}

TrasSello(t, i, ahora) ==
  {IF f \in ASellar(t, i)
     THEN [f EXCEPT !.estado = "despachado", !.sello = ahora] ELSE f : f \in t}
=============================================================================
