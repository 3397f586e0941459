----------------------------- MODULE ColaCajero -----------------------------
(***************************************************************************)
(* The other reader of the inbox: the port ColaCajero of the store         *)
(* (colaentrantes/claim.go).  A worker claims a whole conversation under a *)
(* fresh token, classifies it, and closes the batch if the rows are still  *)
(* its own; a sweep returns to the queue the rows of claims that have      *)
(* outlived their lease; and the dispatcher takes the head of the queue    *)
(* whatever state it is in.  ColaEntrantes has the inbox itself: here a    *)
(* row is its state and its claim, in one session, and seq is its number.  *)
(*                                                                         *)
(* The stamp of a claim is wall time, which a laptop that wakes up may set *)
(* back; the token does not depend on it.  In the present build the sweep  *)
(* is the only method with a caller (Cajero.barrerLeases).                 *)
(***************************************************************************)
EXTENDS Naturals, FiniteSets

CONSTANTS
  Renglones,  \* the rows, in their order of seq
  Charlas,    \* the conversations: a partition of the rows
  Cajeros,    \* the workers, perhaps of two processes
  MaxFilas,   \* maxFilas of Reclamar
  Plazo,      \* the lease
  MaxHora,    \* bound on the clock
  MaxSaltos,  \* bound on the jumps of the clock
  MaxReclamos \* bound on the claims

ASSUME ColaCajeroAssumption ==
  /\ Renglones \subseteq Nat /\ UNION Charlas = Renglones
  /\ MaxFilas \in Nat \ {0} /\ Plazo \in Nat \ {0} /\ MaxHora \in Nat /\ MaxReclamos \in Nat

VARIABLES
  renglon,  \* per row: its state, claim_token and tomado_en (0 for NULL)
  lote,     \* the ColaLote in the hands of each worker
  tokens,   \* tokens drawn so far
  hora,     \* the wall clock, in the unit of the stamps
  saltos,   \* times it has been set back
  dueno     \* history: the last claim that took each row

varsCajero == <<renglon, lote, tokens, hora, saltos, dueno>>

SinLote == [token |-> 0, sello |-> 0, filas |-> {}]
EnEstado(e) == {r \in Renglones : renglon[r].estado = e}
Primera(rs) == CHOOSE r \in rs : \A q \in rs : r <= q
SinTomar(e) == [estado |-> e, token |-> 0, sello |-> 0]

InitCajero ==
  /\ renglon = [r \in Renglones |-> SinTomar("por llegar")]
  /\ lote = [c \in Cajeros |-> SinLote] /\ tokens = 0
  /\ hora = 1 /\ saltos = 0 /\ dueno = [r \in Renglones |-> 0]

(* Enqueue: seq is a counter. *)
Anota(r) ==
  /\ r \in EnEstado("por llegar") /\ r = Primera(EnEstado("por llegar"))
  /\ renglon' = [renglon EXCEPT ![r] = SinTomar("nuevo")]
  /\ UNCHANGED <<lote, tokens, hora, saltos, dueno>>

(* sqlReclamar: the new rows of the conversation of the oldest of them.    *)
LaCharla == CHOOSE ch \in Charlas : Primera(EnEstado("nuevo")) \in ch
Elegidas ==
  LET nuevas == LaCharla \cap EnEstado("nuevo")
  IN  {r \in nuevas : Cardinality({q \in nuevas : q < r}) < MaxFilas}

Tomado(t) == [estado |-> "tomado", token |-> t, sello |-> hora]

(* A row that cannot be opened leaves the batch claimed and without owner. *)
Reclamar(c) ==
  /\ lote[c] = SinLote /\ EnEstado("nuevo") # {} /\ tokens < MaxReclamos
  /\ hora + Plazo < MaxHora
  /\ tokens' = tokens + 1
  /\ renglon' = [r \in Renglones |-> IF r \in Elegidas THEN Tomado(tokens + 1) ELSE renglon[r]]
  /\ dueno' = [r \in Renglones |-> IF r \in Elegidas THEN tokens + 1 ELSE dueno[r]]
  /\ \E legible \in BOOLEAN :
       lote' = IF legible THEN [lote EXCEPT ![c] = [token |-> tokens + 1, sello |-> hora, filas |-> Elegidas]]
               ELSE lote
  /\ UNCHANGED <<hora, saltos>>

(* MarcarClasificado: the fence, all or nothing.  ErrLoteRelevado, and any *)
(* failure of the transaction, drop the batch and leave its rows alone.    *)
\* Mutant: the fence is the stamp, as it was before the token.
FencePorSello(c) == {r \in lote[c].filas : renglon[r].estado = "tomado" /\ renglon[r].sello = lote[c].sello}

Suyas(c) == {r \in lote[c].filas : renglon[r].estado = "tomado" /\ renglon[r].token = lote[c].token}

MarcarClasificado(c) ==
  /\ lote[c] # SinLote
  /\ lote' = [lote EXCEPT ![c] = SinLote]
  /\ \/ /\ Suyas(c) = lote[c].filas
        /\ renglon' = [r \in Renglones |-> IF r \in Suyas(c) THEN SinTomar("clasificado") ELSE renglon[r]]
     \/ UNCHANGED renglon
  /\ UNCHANGED <<tokens, hora, saltos, dueno>>

(* A worker dies, or gives its batch up. *)
MuereCajero(c) ==
  /\ lote[c] # SinLote
  /\ lote' = [lote EXCEPT ![c] = SinLote]
  /\ UNCHANGED <<renglon, tokens, hora, saltos, dueno>>

(* MarcarDespachada: the head of the session, in any state; the claim stays *)
(* written in the row.                                                      *)
Despacha(r) ==
  /\ renglon[r].estado \notin {"por llegar", "despachado"}
  /\ \A q \in Renglones \ EnEstado("despachado") : r <= q
  /\ renglon' = [renglon EXCEPT ![r].estado = "despachado"]
  /\ UNCHANGED <<lote, tokens, hora, saltos, dueno>>

Vencidas == {r \in EnEstado("tomado") : renglon[r].sello # 0 /\ renglon[r].sello + Plazo < hora}

BarrerLeasesVencidos ==
  /\ Vencidas # {}
  /\ renglon' = [r \in Renglones |-> IF r \in Vencidas THEN SinTomar("nuevo") ELSE renglon[r]]
  /\ UNCHANGED <<lote, tokens, hora, saltos, dueno>>

(* Time passes, and is sometimes set back.  It matters while rows are      *)
(* claimed or a batch is out.                                              *)
Corre ==
  /\ hora < MaxHora /\ (EnEstado("tomado") # {} \/ \E c \in Cajeros : lote[c] # SinLote)
  /\ hora' = hora + 1
  /\ UNCHANGED <<renglon, lote, tokens, saltos, dueno>>

Retrocede ==
  /\ saltos < MaxSaltos /\ EnEstado("tomado") \cup EnEstado("nuevo") # {}
  /\ hora' \in 1 .. (hora - 1) /\ saltos' = saltos + 1
  /\ UNCHANGED <<renglon, lote, tokens, dueno>>

NextCajero ==
  \/ \E r \in Renglones : Anota(r) \/ Despacha(r)
  \/ \E c \in Cajeros : Reclamar(c) \/ MarcarClasificado(c) \/ MuereCajero(c)
  \/ BarrerLeasesVencidos \/ Corre \/ Retrocede

SpecCajero == InitCajero /\ [][NextCajero]_varsCajero

-----------------------------------------------------------------------------
TipoCajero ==
  /\ renglon \in [Renglones -> [estado : {"por llegar", "nuevo", "tomado", "clasificado", "despachado"},
                                token : 0 .. tokens, sello : 0 .. MaxHora]]
  /\ \A c \in Cajeros : lote[c].token \in 0 .. tokens /\ lote[c].filas \subseteq Renglones
  /\ tokens \in 0 .. MaxReclamos /\ hora \in 1 .. MaxHora /\ saltos \in 0 .. MaxSaltos
  /\ dueno \in [Renglones -> 0 .. tokens]

(* A batch is closed whole and by the claim that took its rows last: a     *)
(* worker that outlived its lease never closes the work of the one that    *)
(* relieved it, even if the clock repeats the hour of its claim, and never *)
(* half of a batch the dispatcher has bitten (claim.go:421).               *)
CierreEntero ==
  [][LET cerradas == {r \in EnEstado("tomado") : renglon'[r].estado = "clasificado"} IN
     cerradas # {} =>
       \E c \in Cajeros :
         /\ lote[c].filas = cerradas /\ lote'[c] = SinLote
         /\ \A r \in cerradas : dueno[r] = lote[c].token]_varsCajero
=============================================================================
