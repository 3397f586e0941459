----------------------------- MODULE Correlador -----------------------------
(***************************************************************************)
(* The correlation of receipts with the orders of the cloud: what a        *)
(* session sends through its live client (sendViaLiveClient), the two maps *)
(* and the queue of the Correlator, and the receipts WhatsApp returns.  A  *)
(* receipt may be of several messages, of other devices of the account     *)
(* too; it goes up whole, with the order of the first one the Correlator   *)
(* knows, or with none.                                                    *)
(*                                                                         *)
(* WhatsApp knows the message before Remember does, so its receipt may     *)
(* come first.  The cloud may repeat an order, and the repetition is a     *)
(* message of its own.  A listening cycle has a Correlator of its own.     *)
(* The clock is the monotonic one.                                         *)
(***************************************************************************)
EXTENDS Naturals, Sequences, FiniteSets, Functions

CONSTANTS
  Mandatos,     \* the orders (command_id)
  MaxEnvios,    \* bound on the messages; their ids are 1 .. MaxEnvios
  MaxIds,       \* bound on the messages of one receipt
  TopeCorr,     \* Correlator.max
  TTLCorr,      \* Correlator.ttl
  MaxHoraCorr   \* bound on the clock

ASSUME CorrAssumption ==
  /\ MaxEnvios \in Nat /\ MaxIds \in Nat \ {0}
  /\ TopeCorr \in Nat \ {0} /\ TTLCorr \in Nat \ {0} /\ MaxHoraCorr \in Nat

VARIABLES
  corr,     \* the Correlator of the cycle
  horaCorr, \* the clock
  enviados, \* per message sent, its order: what a receipt should say
  enCamino, \* messages sent whose Remember has not run
  subido    \* the last receipt that went up: its messages, and an order or SinMandato

varsCorr == <<corr, horaCorr, enviados, enCamino, subido>>

SinMandato == "sin mandato"
Ajeno == 0   \* a message that another device of the account sent
SinAcuse == [ids |-> {}, mandato |-> SinMandato]
Vacio == [byCmd |-> <<>>, byMsg |-> <<>>, order |-> <<>>]

InitCorr == corr = Vacio /\ horaCorr = 0 /\ enviados = <<>> /\ enCamino = {} /\ subido = SinAcuse

Sin(f, claves) == Restrict(f, DOMAIN f \ claves)
Con(f, k, v) == [x \in DOMAIN f \cup {k} |-> IF x = k THEN v ELSE f[x]]

(* What stays of a queue without some of its orders: the k-th of them is    *)
(* the one that has k up to it.                                            *)
Puesto(sitios, i) == Cardinality({j \in sitios : j <= i})
Compacta(cola, sitios) ==
  [k \in 1 .. Cardinality(sitios) |-> cola[CHOOSE i \in sitios : Puesto(sitios, i) = k]]

Olvida(x, mandatos) ==
  [byCmd |-> Sin(x.byCmd, mandatos),
   byMsg |-> Sin(x.byMsg, {x.byCmd[c].msg : c \in mandatos}),
   order |-> Compacta(x.order, {i \in DOMAIN x.order : x.order[i] \notin mandatos})]

(* pruneExpiredLocked: every method begins with it. *)
Poda(x) == Olvida(x, {c \in DOMAIN x.byCmd : x.byCmd[c].at + TTLCorr <= horaCorr})

(* evictOverflowLocked: a repeated order keeps its old place in the queue. *)
Evicta(x) == IF Cardinality(DOMAIN x.byCmd) <= TopeCorr THEN x ELSE Olvida(x, {Head(x.order)})

\* Mutant: a repetition leaves the id of the message it replaces in the index.
AnotaSinQuitar(x, c, m) ==
  [byCmd |-> Con(x.byCmd, c, [msg |-> m, at |-> horaCorr]),
   byMsg |-> Con(x.byMsg, m, c),
   order |-> IF c \in DOMAIN x.byCmd THEN x.order ELSE Append(x.order, c)]

RegistraEnvio(x, c, m) ==
  [byCmd |-> Con(x.byCmd, c, [msg |-> m, at |-> horaCorr]),
   byMsg |-> Con(Sin(x.byMsg, IF c \in DOMAIN x.byCmd THEN {x.byCmd[c].msg} ELSE {}), m, c),
   order |-> IF c \in DOMAIN x.byCmd THEN x.order ELSE Append(x.order, c)]

(* client.SendMessage returns: the message is out. *)
SendMessage(c) ==
  /\ Len(enviados) < MaxEnvios
  /\ enviados' = Append(enviados, c)
  /\ enCamino' = enCamino \cup {Len(enviados) + 1}
  /\ UNCHANGED <<corr, horaCorr, subido>>

Remember(m) ==
  /\ m \in enCamino
  /\ enCamino' = enCamino \ {m}
  /\ corr' = Evicta(RegistraEnvio(Poda(corr), enviados[m], m))
  /\ UNCHANGED <<horaCorr, enviados, subido>>

(* A send in flight remembers in the Correlator it took, which nobody asks *)
(* any more.                                                               *)
CicloDeEscucha ==
  /\ corr # Vacio \/ enCamino # {}
  /\ corr' = Vacio /\ enCamino' = {}
  /\ UNCHANGED <<horaCorr, enviados, subido>>

(* The order of the first message of a receipt that is still remembered. *)
Lookup(x, ids) ==
  LET conocidos == {i \in DOMAIN ids : ids[i] \in DOMAIN x.byMsg} IN
  IF conocidos = {} THEN SinMandato
  ELSE x.byMsg[ids[CHOOSE i \in conocidos : \A j \in conocidos : i <= j]]

(* onReceiptEvent: Lookup, and SendReceipt of all the ids with what it gave. *)
Acuse(ids) ==
  /\ corr' = Poda(corr)
  /\ subido' = [ids |-> {ids[i] : i \in DOMAIN ids}, mandato |-> Lookup(corr', ids)]
  /\ UNCHANGED <<horaCorr, enviados, enCamino>>

PasaHora == horaCorr < MaxHoraCorr /\ horaCorr' = horaCorr + 1 /\ UNCHANGED <<corr, enviados, enCamino, subido>>

NextCorr ==
  \/ \E c \in Mandatos : SendMessage(c)
  \/ \E m \in 1 .. MaxEnvios : Remember(m)
  \/ \E n \in 1 .. MaxIds : \E ids \in [1 .. n -> DOMAIN enviados \cup {Ajeno}] : Acuse(ids)
  \/ CicloDeEscucha \/ PasaHora

SpecCorr == InitCorr /\ [][NextCorr]_varsCorr

-----------------------------------------------------------------------------
TipoCorr ==
  /\ horaCorr \in 0 .. MaxHoraCorr /\ Len(enviados) <= MaxEnvios /\ enCamino \subseteq DOMAIN enviados
  /\ DOMAIN corr.byCmd \subseteq Mandatos /\ DOMAIN corr.byMsg \subseteq DOMAIN enviados

(* The two maps are inverse and the queue has every order once, so nothing *)
(* stays in one of them for ever and the cap bounds all three; and the     *)
(* order that goes up with a receipt, if any, sent one of its messages     *)
(* (the other messages of the receipt go up with it: correlation.go:83).   *)
CorrelacionCoherente ==
  /\ \A c \in DOMAIN corr.byCmd : corr.byMsg[corr.byCmd[c].msg] = c
  /\ \A m \in DOMAIN corr.byMsg : corr.byCmd[corr.byMsg[m]].msg = m
  /\ Len(corr.order) = Cardinality(DOMAIN corr.byCmd) /\ {corr.order[i] : i \in DOMAIN corr.order} = DOMAIN corr.byCmd
  /\ Cardinality(DOMAIN corr.byCmd) <= TopeCorr
  /\ subido.mandato # SinMandato =>
       \E m \in subido.ids \ {Ajeno} : enviados[m] = subido.mandato
=============================================================================
