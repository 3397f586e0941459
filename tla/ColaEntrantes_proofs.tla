------------------------ MODULE ColaEntrantes_proofs ------------------------
(***************************************************************************)
(* Theorems about the durable inbox, for every value of its constants.     *)
(***************************************************************************)
EXTENDS ColaEntrantes, FiniteSetTheorems, WellFoundedInduction, TLAPS

(***************************************************************************)
(* What the statements on the table do to it.                              *)
(***************************************************************************)
\* The prune removes sealed rows only.
LEMMA Poda ==
  ASSUME NEW t, NEW ahora
  PROVE  /\ TrasPoda(t, ahora) \subseteq t
         /\ SinDespachar(TrasPoda(t, ahora)) = SinDespachar(t)
BY DEF TrasPoda, SinDespachar

\* Layers 1 and 2 delete rows of the table, of their estado.
LEMMA PorEstado ==
  ASSUME NEW t, NEW e, NEW k
  PROVE  BorraPorEstado(t, e, k) \subseteq EnEstado(t, {e})
BY DEF BorraPorEstado, MasViejas, EnEstado

\* Layer 3 deletes pending rows of the table.
LEMMA PorConversacion ==
  ASSUME NEW t
  PROVE  ConversacionMasVieja(t) \subseteq EnEstado(t, Pendientes)
BY DEF ConversacionMasVieja, EnEstado

\* The seal rewrites rows one by one: a row afterwards is an untouched row, or
\* it is sealed; either way it keeps its identity, its place and its message.
LEMMA Sello ==
  ASSUME NEW t, t \subseteq Fila, NEW i, NEW ahora \in Nat
  PROVE  /\ TrasSello(t, i, ahora) \subseteq Fila
         /\ \A f \in TrasSello(t, i, ahora) :
              \E g \in t : /\ f.id = g.id /\ f.seq = g.seq /\ f.n = g.n /\ f.msg = g.msg
                           /\ f = g \/ (f.estado = "despachado" /\ g \in ASellar(t, i))
         /\ SinDespachar(TrasSello(t, i, ahora)) = SinDespachar(t) \ ASellar(t, i)
<1> DEFINE Sellada(g) == IF g \in ASellar(t, i)
                           THEN [g EXCEPT !.estado = "despachado", !.sello = ahora] ELSE g
<1>1. \A g \in t : /\ Sellada(g) \in Fila
                   /\ Sellada(g).id = g.id /\ Sellada(g).seq = g.seq
                   /\ Sellada(g).n = g.n /\ Sellada(g).msg = g.msg
                   /\ g \in ASellar(t, i) => Sellada(g).estado = "despachado"
                   /\ g \notin ASellar(t, i) => Sellada(g) = g
  BY DEF Fila, Estados
<1>2. TrasSello(t, i, ahora) = {Sellada(g) : g \in t}
  BY DEF TrasSello
<1> HIDE DEF Sellada
<1>3. SinDespachar(TrasSello(t, i, ahora)) = SinDespachar(t) \ ASellar(t, i)
  <2>1. ASSUME NEW f \in SinDespachar(TrasSello(t, i, ahora))
        PROVE  f \in SinDespachar(t) \ ASellar(t, i)
    BY <2>1, <1>1, <1>2 DEF SinDespachar
  <2>2. ASSUME NEW f \in SinDespachar(t) \ ASellar(t, i)
        PROVE  f \in SinDespachar(TrasSello(t, i, ahora))
    BY <2>2, <1>1, <1>2 DEF SinDespachar
  <2>3. QED BY <2>1, <2>2
<1>4. QED BY <1>1, <1>2, <1>3

\* The seal adds no row.
LEMMA SelloFinito ==
  ASSUME NEW t, IsFiniteSet(t), NEW i, NEW ahora
  PROVE  IsFiniteSet(TrasSello(t, i, ahora))
<1> DEFINE F == [g \in t |-> IF g \in ASellar(t, i)
                   THEN [g EXCEPT !.estado = "despachado", !.sello = ahora] ELSE g]
<1>1. F \in Surjection(t, TrasSello(t, i, ahora))
  BY DEF Surjection, TrasSello
<1>2. QED BY <1>1, FS_Surjection

(***************************************************************************)
(* Type correctness.                                                       *)
(***************************************************************************)
CabezaEnMano ==
  \A s \in Sesiones : pc[s] \in {"entregar", "sellar"} => cabeza[s] \in Fila

TipoInv == TypeOK /\ IsFiniteSet(filas) /\ CabezaEnMano

LEMMA TipoInicial == Init => TipoInv
<1> SUFFICES ASSUME Init PROVE TipoInv
  OBVIOUS
<1> USE DEF Init
<1>1. filas \subseteq Fila /\ IsFiniteSet(filas)
  BY TablasAssumption
<1>2. seq \in Nat
  BY <1>1 DEF MaxSeqDe, Fila
<1>3. {f.msg : f \in filas} \subseteq Mensajes
      /\ {f.msg : f \in EnEstado(filas, {"despachado"})} \subseteq Mensajes
  BY <1>1 DEF Fila, EnEstado
<1>4. enq \in [paso : Pasos, msg : Mensajes \cup {Nadie}, faltan : Nat, perdidas : Nat]
      /\ ((enq.msg = Nadie) <=> (enq.paso = "libre"))
  BY DEF Libre, Pasos
<1>5. QED BY <1>1, <1>2, <1>3, <1>4 DEF TipoInv, CabezaEnMano, TypeOK, SinReintento

\* How many rows a full table lacks is a natural number, and so is what is
\* left of it when a layer was not enough.
LEMMA TopeTipado ==
  ASSUME TipoInv, enq.paso \in {"capa1", "capa2", "capa3"},
         NEW b, b \subseteq filas, NEW p \in {"capa2", "capa3"}, NEW n \in Nat,
         \/ CierraTope(n)
         \/ /\ ~(enq.faltan <= Cardinality(b))
            /\ SigueTope(p, b, n)
  PROVE  /\ perdidas' \in Nat
         /\ enq' \in [paso : Pasos, msg : Mensajes \cup {Nadie}, faltan : Nat, perdidas : Nat]
         /\ enq'.msg = enq.msg /\ enq'.paso # "libre"
<1>1. Cardinality(b) \in Nat
  BY FS_Subset, FS_CardinalityType DEF TipoInv
<1>2. CASE CierraTope(n)
  <2>1. enq' = [paso |-> "insertar", msg |-> enq.msg, faltan |-> 0, perdidas |-> 0]
    BY <1>2 DEF CierraTope, TipoInv, TypeOK
  <2>2. QED BY <1>2, <2>1 DEF CierraTope, TipoInv, TypeOK, Pasos
<1>3. CASE ~(enq.faltan <= Cardinality(b)) /\ SigueTope(p, b, n)
  <2>1. enq.faltan \in Nat /\ enq.perdidas \in Nat /\ perdidas \in Nat
        /\ enq.msg \in Mensajes
    BY DEF TipoInv, TypeOK
  <2>2. enq.faltan - Cardinality(b) \in Nat /\ enq.perdidas + n \in Nat
    BY <1>1, <1>3, <2>1
  <2>3. enq' = [paso |-> p, msg |-> enq.msg, faltan |-> enq.faltan - Cardinality(b),
                perdidas |-> enq.perdidas + n]
    BY <1>3 DEF SigueTope, TipoInv, TypeOK
  <2>4. QED BY <1>3, <2>1, <2>2, <2>3 DEF SigueTope, Pasos
<1>4. QED BY <1>2, <1>3

LEMMA TipoPaso == TipoInv /\ [Next]_vars => TipoInv'
<1> SUFFICES ASSUME TipoInv, [Next]_vars PROVE TipoInv'
  OBVIOUS
<1> USE DEF TipoInv, CabezaEnMano
<1>1. ASSUME NEW m \in Mensajes, Enqueue(m) PROVE TipoInv'
  <2>1. filas' \subseteq filas
    BY <1>1, Poda DEF Enqueue
  <2>2. IsFiniteSet(filas')
    BY <2>1, FS_Subset
  <2>3. QED BY <1>1, <2>1, <2>2, NadieAssumption
            DEF Enqueue, TypeOK, Pasos, oyente, despacho, testigos
<1>2. CASE Contar
  <2>1. Cardinality(filas) \in Nat
    BY FS_CardinalityType
  <2>2. Cardinality(filas) < MaxFilas \/ Faltan(filas) \in Nat
    BY <2>1, TopeAssumption DEF Faltan
  <2>3. QED BY <1>2, <2>2 DEF Contar, TypeOK, Pasos, oyente, despacho, testigos
<1>3. CASE Capa1
  <2> DEFINE b == BorraPorEstado(filas, "despachado", enq.faltan)
  <2>1. b \subseteq filas
    BY PorEstado DEF EnEstado
  <2>2. filas' \subseteq filas /\ IsFiniteSet(filas')
    BY <1>3, FS_Subset DEF Capa1
  <2>3. CierraTope(0) \/ (~(enq.faltan <= Cardinality(b)) /\ SigueTope("capa2", b, 0))
    BY <1>3 DEF Capa1
  <2>4. /\ perdidas' \in Nat
        /\ enq' \in [paso : Pasos, msg : Mensajes \cup {Nadie}, faltan : Nat, perdidas : Nat]
        /\ enq'.msg = enq.msg /\ enq'.paso # "libre"
    BY <1>3, <2>1, <2>3, TopeTipado DEF Capa1
  <2>5. QED BY <1>3, <2>2, <2>4 DEF Capa1, TypeOK, oyente, despacho, testigos
<1>4. ASSUME NEW b, b \subseteq filas, enq.paso \in {"capa2", "capa3"}, Sacrifica(b)
      PROVE  TipoInv'
  <2>1. Cardinality(b) \in Nat
    BY <1>4, FS_Subset, FS_CardinalityType
  <2>2. filas' \subseteq filas /\ IsFiniteSet(filas')
    BY <1>4, FS_Subset DEF Sacrifica
  <2>3. \/ CierraTope(Cardinality(b))
        \/ /\ ~(enq.faltan <= Cardinality(b))
           /\ SigueTope("capa3", b, Cardinality(b))
    BY <1>4 DEF Sacrifica
  <2>4. /\ perdidas' \in Nat
        /\ enq' \in [paso : Pasos, msg : Mensajes \cup {Nadie}, faltan : Nat, perdidas : Nat]
        /\ enq'.msg = enq.msg /\ enq'.paso # "libre"
    BY <1>4, <2>1, <2>3, TopeTipado
  <2>5. QED BY <1>4, <2>2, <2>4 DEF Sacrifica, TypeOK, oyente, despacho, testigos
<1>5. CASE Capa2
  BY <1>4, <1>5, PorEstado DEF Capa2, EnEstado
<1>6. CASE Capa3
  BY <1>4, <1>6, PorConversacion DEF Capa3, EnEstado
<1>7. CASE Insertar
  <2>1. enq.msg \in Mensajes /\ seq' \in Nat /\ admitidas' \in Nat
    BY <1>7 DEF Insertar, TypeOK
  <2>2. filas' \subseteq Fila /\ IsFiniteSet(filas')
    <3>1. CASE filas' = filas
      BY <3>1 DEF TypeOK
    <3>2. ASSUME NEW i \in Rowid(filas),
                 filas' = filas \cup {FilaNueva(i, seq + 1, admitidas + 1, enq.msg)}
          PROVE  filas' \subseteq Fila /\ IsFiniteSet(filas')
      <4>1. i \in Nat \ {0}
        BY DEF Rowid, TypeOK, Fila
      <4>2. FilaNueva(i, seq + 1, admitidas + 1, enq.msg) \in Fila
        BY <2>1, <4>1 DEF FilaNueva, Fila, Estados, TypeOK
      <4>3. QED BY <3>2, <4>2, FS_AddElement DEF TypeOK
    <3>3. QED BY <1>7, <3>1, <3>2 DEF Insertar
  <2>3. QED BY <1>7, <2>1, <2>2 DEF Insertar, TypeOK, Libre, Pasos, despacho
<1>8. CASE EnqueueFalla
  BY <1>8 DEF EnqueueFalla, TypeOK, Libre, Pasos, oyente, despacho, testigos
<1>9. ASSUME NEW s \in Sesiones, NextSesion(s) PROVE TipoInv'
  <2>1. CASE Acusar(s)
    BY <2>1 DEF Acusar, TypeOK, tienda, despacho
  <2>2. CASE LeeCabeza(s)
    <3>1. CASE UNCHANGED cabeza /\ pc' \in {[pc EXCEPT ![s] = "fallo"], [pc EXCEPT ![s] = "vacia"]}
      BY <2>2, <3>1 DEF LeeCabeza, TypeOK, tienda, oyente, testigos
    <3>2. ASSUME NEW f \in filas, pc' = [pc EXCEPT ![s] = "entregar"],
                 cabeza' = [cabeza EXCEPT ![s] = f]
          PROVE  TipoInv'
      <4>1. f \in Fila
        BY <3>2 DEF TypeOK
      <4>2. QED BY <2>2, <3>2, <4>1 DEF LeeCabeza, TypeOK, tienda, oyente, testigos
    <3>3. QED BY <2>2, <3>1, <3>2 DEF LeeCabeza
  <2>3. CASE Entrega(s)
    <3>1. cabeza[s].msg \in Mensajes /\ cabeza[s].n \in Nat
      BY <2>3 DEF Entrega, Fila
    <3>2. SinReintento \in [id : Nat, seq : Nat, frenado : BOOLEAN]
      BY DEF SinReintento
    <3>3. QED BY <2>3, <3>1, <3>2 DEF Entrega, TypeOK, tienda, oyente
  <2>4. CASE EntregaFalla(s)
    <3>1. cabeza[s].id \in Nat /\ cabeza[s].seq \in Nat
      BY <2>4 DEF EntregaFalla, Fila
    <3>2. QED BY <2>4, <3>1 DEF EntregaFalla, TypeOK, tienda, oyente, testigos
  <2>5. CASE MarcarDespachada(s)
    <3>1. filas' \subseteq Fila /\ IsFiniteSet(filas')
      BY <2>5, Sello, SelloFinito DEF MarcarDespachada, TypeOK
    <3>2. malSellados' \subseteq Mensajes
      BY <2>5 DEF MarcarDespachada, TypeOK, ASellar, SinDespachar, Fila
    <3>3. QED BY <2>5, <3>1, <3>2 DEF MarcarDespachada, TypeOK, oyente
  <2>6. CASE VueltaFalla(s)
    BY <2>6 DEF VueltaFalla, TypeOK, tienda, oyente, testigos
  <2>7. CASE DespiertaAviso(s)
    BY <2>7 DEF DespiertaAviso, TypeOK, tienda, testigos
  <2>8. CASE DespiertaRespaldo(s)
    BY <2>8 DEF DespiertaRespaldo, TypeOK, tienda, oyente, testigos
  <2>9. CASE VenceFreno(s)
    BY <2>9 DEF VenceFreno, TypeOK, tienda, oyente, testigos
  <2>10. QED BY <1>9, <2>1, <2>2, <2>3, <2>4, <2>5, <2>6, <2>7, <2>8, <2>9 DEF NextSesion
<1>10. CASE Tic
  BY <1>10 DEF Tic, TypeOK, tienda, oyente, despacho, testigos
<1>11. CASE Reinicio
  <2>1. seq' \in Nat
    BY <1>11 DEF Reinicio, MaxSeqDe, TypeOK, Fila
  <2>2. QED BY <1>11, <2>1 DEF Reinicio, TypeOK, Libre, Pasos, SinReintento, testigos
<1>12. CASE UNCHANGED vars
  BY <1>12 DEF vars, TypeOK, tienda, oyente, despacho, testigos
<1>13. QED BY <1>1, <1>2, <1>3, <1>5, <1>6, <1>7, <1>8, <1>9, <1>10, <1>11, <1>12
           DEF Next, NextTienda

\* Every reachable state is well typed, with a finite table, and a dispatcher
\* that delivers or seals holds a row.
THEOREM TipoCorrecto == Spec => []TypeOK
<1>1. TipoInv => TypeOK
  BY DEF TipoInv
<1>2. QED BY <1>1, TipoInicial, TipoPaso, PTL DEF Spec

\* The type invariant with its two strengthenings, for the theorems below.
THEOREM TipoSiempre == Spec => []TipoInv
BY TipoInicial, TipoPaso, PTL DEF Spec

(***************************************************************************)
(* No silent loss.  The one thing SinPerdidaSilenciosa needs to be         *)
(* inductive is what a repeated message finds in the table: a row that is  *)
(* sealed was delivered, or sealed by mistake.                             *)
(***************************************************************************)
SelladaContada ==
  \A f \in filas : f.estado = "despachado" => f.msg \in entregados \cup malSellados

PerdidaInv == SelladaContada /\ SinPerdidaSilenciosa

LEMMA PerdidaInicial == Init => PerdidaInv
<1> SUFFICES ASSUME Init PROVE PerdidaInv
  OBVIOUS
<1>1. SelladaContada
  BY DEF Init, SelladaContada, EnEstado
<1>2. SinPerdidaSilenciosa
  BY DEF Init, SinPerdidaSilenciosa, EnEstado, SinDespachar
<1>3. QED BY <1>1, <1>2 DEF PerdidaInv

\* The steps that take rows away: the sealed ones may go, the others go to
\* descartadas.
LEMMA PerdidaBorrado ==
  ASSUME PerdidaInv, filas' \subseteq filas,
         SinDespachar(filas) \ SinDespachar(filas') \subseteq descartadas',
         descartadas \subseteq descartadas',
         acusados' = acusados, escucha' = escucha,
         entregados' = entregados, malSellados' = malSellados
  PROVE  PerdidaInv'
<1>1. SelladaContada'
  BY DEF PerdidaInv, SelladaContada
<1>2. SinPerdidaSilenciosa'
  BY DEF PerdidaInv, SinPerdidaSilenciosa
<1>3. QED BY <1>1, <1>2 DEF PerdidaInv

\* The steps that leave the table and the promises alone: entregados may grow
\* and what a listener was about to ack may be acked or forgotten.
LEMMA PerdidaAjena ==
  ASSUME PerdidaInv, filas' = filas, descartadas' = descartadas,
         malSellados' = malSellados, entregados \subseteq entregados',
         acusados' \cup {escucha'[s] : s \in Sesiones}
           \subseteq acusados \cup {escucha[s] : s \in Sesiones} \cup {Nadie}
  PROVE  PerdidaInv'
<1>1. SelladaContada'
  BY DEF PerdidaInv, SelladaContada
<1>2. SinPerdidaSilenciosa'
  BY DEF PerdidaInv, SinPerdidaSilenciosa
<1>3. QED BY <1>1, <1>2 DEF PerdidaInv

LEMMA PerdidaPaso == TipoInv /\ PerdidaInv /\ [Next]_vars => PerdidaInv'
<1> SUFFICES ASSUME TipoInv, PerdidaInv, [Next]_vars PROVE PerdidaInv'
  OBVIOUS
<1>1. ASSUME NEW m \in Mensajes, Enqueue(m) PROVE PerdidaInv'
  BY <1>1, Poda, PerdidaBorrado DEF Enqueue, oyente, testigos
<1>2. CASE Contar
  BY <1>2, PerdidaAjena DEF Contar, oyente, testigos
<1>3. CASE Capa1
  <2>1. filas' \subseteq filas /\ SinDespachar(filas') = SinDespachar(filas)
    BY <1>3, PorEstado DEF Capa1, SinDespachar, EnEstado
  <2>2. QED BY <1>3, <2>1, PerdidaBorrado DEF Capa1, oyente, testigos
<1>4. ASSUME NEW b, Sacrifica(b) PROVE PerdidaInv'
  <2>1. filas' \subseteq filas /\ SinDespachar(filas) \ SinDespachar(filas') \subseteq b
    BY <1>4 DEF Sacrifica, SinDespachar
  <2>2. QED BY <1>4, <2>1, PerdidaBorrado DEF Sacrifica, oyente
<1>5. CASE Insertar
  <2>1. enq.msg \in Mensajes
    BY <1>5 DEF Insertar, TipoInv, TypeOK
  <2>2. SelladaContada'
    BY <1>5 DEF Insertar, FilaNueva, PerdidaInv, SelladaContada
  <2>3. SinDespachar(filas) \subseteq SinDespachar(filas')
    BY <1>5 DEF Insertar, SinDespachar
  <2>4. (\E f \in SinDespachar(filas') : f.msg = enq.msg)
        \/ enq.msg \in entregados \cup malSellados
    <3>1. CASE YaEncolado(filas, enq.msg)
      BY <1>5, <3>1 DEF Insertar, YaEncolado, SinDespachar, PerdidaInv, SelladaContada
    <3>2. CASE ~YaEncolado(filas, enq.msg)
      <4>1. PICK i \in Rowid(filas) :
              filas' = filas \cup {FilaNueva(i, seq + 1, admitidas + 1, enq.msg)}
        BY <1>5, <3>2 DEF Insertar
      <4> DEFINE nueva == FilaNueva(i, seq + 1, admitidas + 1, enq.msg)
      <4>2. nueva.msg = enq.msg /\ nueva.estado # "despachado"
        BY DEF FilaNueva
      <4>3. nueva \in filas'
        BY <4>1
      <4>4. QED BY <4>2, <4>3 DEF SinDespachar
    <3>3. QED BY <3>1, <3>2
  <2>5. {escucha'[s] : s \in Sesiones} \subseteq {escucha[s] : s \in Sesiones} \cup {enq.msg}
    BY <1>5 DEF Insertar, TipoInv, TypeOK
  <2>6. SinPerdidaSilenciosa'
    BY <1>5, <2>3, <2>4, <2>5 DEF Insertar, PerdidaInv, SinPerdidaSilenciosa
  <2>7. QED BY <2>2, <2>6 DEF PerdidaInv
<1>6. CASE EnqueueFalla
  BY <1>6, PerdidaAjena DEF EnqueueFalla, oyente, testigos
<1>7. ASSUME NEW s \in Sesiones, Acusar(s) PROVE PerdidaInv'
  BY <1>7, PerdidaAjena DEF Acusar, tienda, TipoInv, TypeOK
<1>8. ASSUME NEW s \in Sesiones, Entrega(s) PROVE PerdidaInv'
  BY <1>8, PerdidaAjena DEF Entrega, tienda, oyente
<1>9. ASSUME NEW s \in Sesiones, MarcarDespachada(s) PROVE PerdidaInv'
  <2> DEFINE i == cabeza[s].id
  <2>1. /\ \A f \in filas' : \E g \in filas : f.msg = g.msg
             /\ (f = g \/ (f.estado = "despachado" /\ g \in ASellar(filas, i)))
        /\ SinDespachar(filas') = SinDespachar(filas) \ ASellar(filas, i)
    <3>1. filas' = TrasSello(filas, i, reloj) /\ filas \subseteq Fila /\ reloj \in Nat
      BY <1>9 DEF MarcarDespachada, TipoInv, TypeOK
    <3>2. QED BY <3>1, Sello
  <2>2. \A f \in ASellar(filas, i) : f.msg \in entregados' \cup malSellados'
    BY <1>9 DEF MarcarDespachada
  <2>3. entregados' = entregados /\ malSellados \subseteq malSellados'
    BY <1>9 DEF MarcarDespachada
  <2>4. SelladaContada'
    BY <2>1, <2>2, <2>3 DEF PerdidaInv, SelladaContada
  <2>5. acusados' = acusados /\ escucha' = escucha /\ descartadas' = descartadas
    BY <1>9 DEF MarcarDespachada, oyente
  <2>6. SinPerdidaSilenciosa'
    BY <2>1, <2>2, <2>3, <2>5 DEF PerdidaInv, SinPerdidaSilenciosa
  <2>7. QED BY <2>4, <2>6 DEF PerdidaInv
<1>10. ASSUME NEW s \in Sesiones,
              LeeCabeza(s) \/ EntregaFalla(s) \/ VueltaFalla(s)
                \/ DespiertaAviso(s) \/ DespiertaRespaldo(s) \/ VenceFreno(s)
       PROVE  PerdidaInv'
  BY <1>10, PerdidaAjena
     DEF LeeCabeza, EntregaFalla, VueltaFalla, DespiertaAviso, DespiertaRespaldo,
         VenceFreno, tienda, oyente, testigos
<1>11. CASE Tic
  BY <1>11, PerdidaAjena DEF Tic, tienda, oyente, testigos
<1>12. CASE Reinicio
  BY <1>12, PerdidaAjena DEF Reinicio, testigos
<1>13. CASE UNCHANGED vars
  BY <1>13, PerdidaAjena DEF vars, tienda, oyente, testigos
<1>14. QED BY <1>1, <1>2, <1>3, <1>4, <1>5, <1>6, <1>7, <1>8, <1>9, <1>10, <1>11, <1>12, <1>13
           DEF Next, NextTienda, NextSesion, Capa2, Capa3

\* A message whose Enqueue committed is pending, delivered or counted among
\* the sacrificed ones, whatever the dispatchers, the cap and the restarts do
\* (or its row inherited the rowid of another one and was sealed in its place).
THEOREM SinPerdida == Spec => []SinPerdidaSilenciosa
<1>1. PerdidaInv => SinPerdidaSilenciosa
  BY DEF PerdidaInv
<1>2. QED BY <1>1, TipoSiempre, PerdidaInicial, PerdidaPaso, PTL DEF Spec

(***************************************************************************)
(* FIFO.  seq is what the code orders by and n is the arrival order; they  *)
(* agree because no row ever has a seq above the counter, restarts         *)
(* included.  The head a dispatcher holds stays ahead of every pending     *)
(* row of its session while it delivers it, even if the cap deletes it.    *)
(***************************************************************************)
Ordenada == \A f, g \in filas : f.seq <= g.seq => f.n <= g.n
Acotada  == \A f \in filas : f.seq <= seq /\ f.n <= admitidas
UltimaAcotada == \A s \in Sesiones : ultima[s] <= admitidas

CabezaFresca ==
  \A s \in Sesiones : pc[s] \in {"entregar", "sellar"} =>
    /\ cabeza[s].msg.sesion = s /\ cabeza[s].n <= admitidas
    /\ ultima[s] <= cabeza[s].n
    /\ \A f \in SesionPendiente(filas, s) : cabeza[s].n <= f.n

FifoInv ==
  /\ Ordenada /\ Acotada /\ UltimaAcotada /\ CabezaFresca /\ NadieAdelantado

LEMMA FifoInicial == Init => FifoInv
<1> SUFFICES ASSUME Init PROVE FifoInv
  OBVIOUS
<1>1. filas \subseteq Fila /\ \A f \in filas : f.n = f.seq
  BY TablasAssumption DEF Init
<1>2. \A f \in filas : f.seq <= seq /\ f.n \in Nat /\ f.msg.sesion \in Sesiones
  BY <1>1, MensajesAssumption DEF Init, MaxSeqDe, Fila
<1>3. seq \in Nat
  BY <1>1 DEF Init, MaxSeqDe, Fila
<1>4. QED BY <1>1, <1>2, <1>3
          DEF Init, FifoInv, Ordenada, Acotada, UltimaAcotada, CabezaFresca,
              NadieAdelantado, SinDespachar

\* The steps that add no row, and at most seal or delete some.
LEMMA FifoSinAlta ==
  ASSUME TipoInv, FifoInv,
         \A f \in filas' : \E g \in filas : f.seq = g.seq /\ f.n = g.n,
         SinDespachar(filas') \subseteq SinDespachar(filas),
         seq' \in Nat, \A f \in filas' : f.seq <= seq',
         admitidas' = admitidas, ultima' = ultima,
         \A s \in Sesiones : pc'[s] \in {"entregar", "sellar"} =>
           pc[s] \in {"entregar", "sellar"} /\ cabeza'[s] = cabeza[s]
  PROVE  FifoInv'
<1>1. Ordenada'
  BY DEF FifoInv, Ordenada
<1>2. Acotada'
  BY DEF FifoInv, Acotada
<1>3. UltimaAcotada' /\ NadieAdelantado'
  BY DEF FifoInv, UltimaAcotada, NadieAdelantado
<1>4. CabezaFresca'
  BY DEF FifoInv, CabezaFresca, SesionPendiente
<1>5. QED BY <1>1, <1>2, <1>3, <1>4 DEF FifoInv

LEMMA FifoPaso == TipoInv /\ FifoInv /\ [Next]_vars => FifoInv'
<1> SUFFICES ASSUME TipoInv, FifoInv, [Next]_vars PROVE FifoInv'
  OBVIOUS
<1>0. /\ seq \in Nat /\ seq + 1 \in Nat /\ admitidas \in Nat
      /\ \A f \in filas : f \in Fila /\ f.seq \in Nat /\ f.n \in Nat /\ f.msg \in Mensajes
      /\ \A f \in filas : f.seq <= seq /\ f.seq <= seq + 1 /\ f.n <= admitidas
  BY DEF TipoInv, TypeOK, Fila, FifoInv, Acotada
\* The deletions and the steps that do not touch the table.
<1>1. ASSUME filas' \subseteq filas, seq' \in {seq, seq + 1},
             admitidas' = admitidas, ultima' = ultima,
             \A s \in Sesiones : pc'[s] \in {"entregar", "sellar"} =>
               pc[s] \in {"entregar", "sellar"} /\ cabeza'[s] = cabeza[s]
      PROVE  FifoInv'
  <2>1. SinDespachar(filas') \subseteq SinDespachar(filas)
    BY <1>1 DEF SinDespachar
  <2>2. seq' \in Nat /\ \A f \in filas' : f.seq <= seq'
    BY <1>0, <1>1
  <2>3. QED BY <1>1, <2>1, <2>2, FifoSinAlta
<1>2. ASSUME NEW m \in Mensajes, Enqueue(m) PROVE FifoInv'
  BY <1>1, <1>2, Poda DEF Enqueue, despacho, testigos
<1>3. CASE Contar
  BY <1>1, <1>3 DEF Contar, despacho, testigos
<1>4. CASE Capa1
  BY <1>1, <1>4 DEF Capa1, despacho, testigos
<1>5. ASSUME NEW b, Sacrifica(b) PROVE FifoInv'
  BY <1>1, <1>5 DEF Sacrifica, despacho
<1>6. CASE Insertar /\ filas' = filas
  <2>1. admitidas' = admitidas
    <3>1. ASSUME NEW i, FilaNueva(i, seq + 1, admitidas + 1, enq.msg) \in filas PROVE FALSE
      <4>1. FilaNueva(i, seq + 1, admitidas + 1, enq.msg).seq = seq + 1
        BY DEF FilaNueva
      <4>2. seq + 1 <= seq
        BY <1>0, <3>1, <4>1
      <4>3. QED BY <1>0, <4>2
    <3>2. QED BY <1>6, <3>1 DEF Insertar
  <2>2. QED BY <1>1, <1>6, <2>1 DEF Insertar, despacho
<1>7. CASE Insertar /\ filas' # filas
  <2>1. PICK i \in Rowid(filas) :
          filas' = filas \cup {FilaNueva(i, seq + 1, admitidas + 1, enq.msg)}
    BY <1>7 DEF Insertar
  <2> DEFINE nueva == FilaNueva(i, seq + 1, admitidas + 1, enq.msg)
  <2>2. nueva.seq = seq + 1 /\ nueva.n = admitidas + 1 /\ nueva.msg = enq.msg
    BY DEF FilaNueva
  <2>3. filas' = filas \cup {nueva} /\ seq' = seq + 1 /\ admitidas' = admitidas + 1
    BY <1>7, <2>1 DEF Insertar
  <2>4. enq.msg \in Mensajes /\ enq.msg.sesion \in Sesiones
    BY <1>7, MensajesAssumption DEF Insertar, TipoInv, TypeOK
  <2>5. ultima' = ultima /\ pc' = pc /\ cabeza' = cabeza
    BY <1>7 DEF Insertar, despacho
  <2> HIDE DEF nueva
  <2>6. Ordenada' /\ Acotada'
    BY <1>0, <2>2, <2>3 DEF FifoInv, Ordenada, Acotada
  <2>7. \A s \in Sesiones : ultima[s] \in Nat /\ ultima[s] <= admitidas
    BY DEF TipoInv, TypeOK, FifoInv, UltimaAcotada
  <2>8. UltimaAcotada'
    BY <1>0, <2>3, <2>5, <2>7 DEF UltimaAcotada
  <2>9. NadieAdelantado'
    BY <1>0, <2>2, <2>3, <2>4, <2>5, <2>7 DEF FifoInv, NadieAdelantado, SinDespachar
  <2>10. CabezaFresca'
    <3> SUFFICES ASSUME NEW s \in Sesiones, pc[s] \in {"entregar", "sellar"}
                 PROVE  /\ cabeza[s].msg.sesion = s /\ cabeza[s].n <= admitidas'
                        /\ ultima[s] <= cabeza[s].n
                        /\ \A f \in SesionPendiente(filas', s) : cabeza[s].n <= f.n
      BY <2>5 DEF CabezaFresca
    <3>1. cabeza[s].n \in Nat
      BY DEF TipoInv, CabezaEnMano, Fila
    <3>2. /\ cabeza[s].msg.sesion = s /\ cabeza[s].n <= admitidas
          /\ ultima[s] <= cabeza[s].n
          /\ \A f \in SesionPendiente(filas, s) : cabeza[s].n <= f.n
      BY DEF FifoInv, CabezaFresca
    <3>3. QED BY <1>0, <2>2, <2>3, <3>1, <3>2 DEF SesionPendiente, SinDespachar
  <2>11. QED BY <2>6, <2>8, <2>9, <2>10 DEF FifoInv
<1>8. CASE EnqueueFalla
  BY <1>1, <1>8 DEF EnqueueFalla, despacho, testigos
<1>9. ASSUME NEW s \in Sesiones, Acusar(s) PROVE FifoInv'
  BY <1>1, <1>9 DEF Acusar, tienda, despacho
<1>10. ASSUME NEW s \in Sesiones, LeeCabeza(s) PROVE FifoInv'
  <2>0. filas' = filas /\ seq' = seq /\ admitidas' = admitidas /\ ultima' = ultima
        /\ pc \in [Sesiones -> {"leer", "entregar", "sellar", "vacia", "fallo"}]
        /\ cabeza \in [Sesiones -> Fila \cup {Nadie}]
    BY <1>10 DEF LeeCabeza, tienda, testigos, TipoInv, TypeOK
  <2>1. CASE UNCHANGED cabeza /\ pc' \in {[pc EXCEPT ![s] = "fallo"], [pc EXCEPT ![s] = "vacia"]}
    BY <1>1, <2>0, <2>1
  <2>2. ASSUME NEW f \in filas, EsCabeza(filas, s, f),
               pc' = [pc EXCEPT ![s] = "entregar"], cabeza' = [cabeza EXCEPT ![s] = f]
        PROVE  FifoInv'
    <3>1. f.msg.sesion = s /\ f.n <= admitidas /\ ultima[s] <= f.n
      BY <1>0, <2>2 DEF EsCabeza, SesionPendiente, FifoInv, NadieAdelantado
    <3>2. \A g \in SesionPendiente(filas, s) : f.n <= g.n
      BY <2>2 DEF EsCabeza, SesionPendiente, SinDespachar, FifoInv, Ordenada
    <3>3. CabezaFresca'
      BY <2>0, <2>2, <3>1, <3>2 DEF FifoInv, CabezaFresca
    <3>4. QED BY <2>0, <3>3
              DEF FifoInv, Ordenada, Acotada, UltimaAcotada, NadieAdelantado
  <2>3. QED BY <1>10, <2>1, <2>2 DEF LeeCabeza
<1>11. ASSUME NEW s \in Sesiones, Entrega(s) PROVE FifoInv'
  <2>1. /\ filas' = filas /\ seq' = seq /\ admitidas' = admitidas /\ cabeza' = cabeza
        /\ pc' = [pc EXCEPT ![s] = "sellar"] /\ ultima' = [ultima EXCEPT ![s] = cabeza[s].n]
        /\ pc[s] = "entregar"
    BY <1>11 DEF Entrega, tienda
  <2>2. /\ cabeza[s].n \in Nat /\ cabeza[s].n <= admitidas /\ cabeza[s].msg.sesion = s
        /\ \A f \in SesionPendiente(filas, s) : cabeza[s].n <= f.n
    BY <2>1 DEF TipoInv, CabezaEnMano, Fila, FifoInv, CabezaFresca
  <2>3. \A t \in Sesiones : ultima'[t] = IF t = s THEN cabeza[s].n ELSE ultima[t]
    BY <2>1 DEF TipoInv, TypeOK
  <2>4. UltimaAcotada'
    BY <2>1, <2>2, <2>3 DEF FifoInv, UltimaAcotada
  <2>5. NadieAdelantado'
    BY <1>0, <2>1, <2>2, <2>3, MensajesAssumption
       DEF FifoInv, NadieAdelantado, SesionPendiente, SinDespachar
  <2>6. CabezaFresca'
    BY <2>1, <2>2, <2>3 DEF FifoInv, CabezaFresca, TipoInv, TypeOK
  <2>7. QED BY <2>1, <2>4, <2>5, <2>6 DEF FifoInv, Ordenada, Acotada
<1>12. ASSUME NEW s \in Sesiones, MarcarDespachada(s) PROVE FifoInv'
  <2>1. filas' = TrasSello(filas, cabeza[s].id, reloj) /\ filas \subseteq Fila /\ reloj \in Nat
    BY <1>12 DEF MarcarDespachada, TipoInv, TypeOK
  <2>2. /\ \A f \in filas' : \E g \in filas : f.seq = g.seq /\ f.n = g.n
        /\ SinDespachar(filas') \subseteq SinDespachar(filas)
    BY <2>1, Sello
  <2>3. seq' \in Nat /\ \A f \in filas' : f.seq <= seq'
    BY <1>0, <1>12, <2>2 DEF MarcarDespachada
  <2>4. QED BY <1>12, <2>2, <2>3, FifoSinAlta DEF MarcarDespachada, TipoInv, TypeOK
<1>13. ASSUME NEW s \in Sesiones, EntregaFalla(s) \/ VueltaFalla(s) PROVE FifoInv'
  BY <1>1, <1>13 DEF EntregaFalla, VueltaFalla, tienda, testigos, TipoInv, TypeOK
<1>14. ASSUME NEW s \in Sesiones, DespiertaAviso(s) \/ DespiertaRespaldo(s) \/ VenceFreno(s)
       PROVE  FifoInv'
  BY <1>1, <1>14
     DEF DespiertaAviso, DespiertaRespaldo, VenceFreno, tienda, testigos, TipoInv, TypeOK
<1>15. CASE Tic
  BY <1>1, <1>15 DEF Tic, tienda, despacho, testigos
<1>16. CASE Reinicio
  <2>1. filas' = filas /\ seq' \in MaxSeqDe(filas) /\ admitidas' = admitidas /\ ultima' = ultima
        /\ \A s \in Sesiones : pc'[s] = "leer"
    BY <1>16 DEF Reinicio, testigos
  <2>2. seq' \in Nat /\ \A f \in filas' : f.seq <= seq'
    BY <1>0, <2>1 DEF MaxSeqDe
  <2>3. QED BY <2>1, <2>2, FifoSinAlta
<1>17. CASE UNCHANGED vars
  BY <1>1, <1>17 DEF vars, tienda, despacho, testigos
<1>18. QED BY <1>2, <1>3, <1>4, <1>5, <1>6, <1>7, <1>8, <1>9, <1>10, <1>11, <1>12, <1>13,
              <1>14, <1>15, <1>16, <1>17
           DEF Next, NextTienda, NextSesion, Capa2, Capa3

\* No row of a session is delivered while an earlier one of it is pending.
THEOREM Fifo == Spec => []NadieAdelantado
<1>1. FifoInv => NadieAdelantado
  BY DEF FifoInv
<1>2. QED BY <1>1, TipoSiempre, FifoInicial, FifoPaso, PTL DEF Spec

LEMMA OrdenPaso ==
  TipoInv /\ FifoInv /\ [Next]_vars => [\A s \in Sesiones : ultima[s] <= ultima'[s]]_vars
<1> SUFFICES ASSUME TipoInv, FifoInv, Next PROVE \A s \in Sesiones : ultima[s] <= ultima'[s]
  BY DEF Next
<1>1. \A s \in Sesiones : ultima[s] \in Nat
  BY DEF TipoInv, TypeOK
<1>2. ASSUME NEW s \in Sesiones, Entrega(s)
      PROVE  \A t \in Sesiones : ultima[t] <= ultima'[t]
  BY <1>1, <1>2 DEF Entrega, FifoInv, CabezaFresca, TipoInv, TypeOK
<1>3. CASE ultima' = ultima
  BY <1>1, <1>3
<1>4. QED BY <1>2, <1>3
  DEF Next, NextTienda, NextSesion, Enqueue, Contar, Capa1, Capa2, Capa3, Sacrifica,
      Insertar, EnqueueFalla, Acusar, LeeCabeza, EntregaFalla, MarcarDespachada,
      VueltaFalla, DespiertaAviso, DespiertaRespaldo, VenceFreno, Tic, Reinicio, testigos

\* The arrival numbers a session hands to the cloud never go back.
THEOREM Orden == Spec => EntregaEnOrden
BY TipoSiempre, FifoInicial, FifoPaso, TipoInicial, TipoPaso, OrdenPaso, PTL
   DEF Spec, EntregaEnOrden

(***************************************************************************)
(* No lost wake-up.                                                        *)
(***************************************************************************)
LEMMA DespertarPaso ==
  TipoInv /\ SinDespertarPerdido /\ [Next]_vars => SinDespertarPerdido'
<1> SUFFICES ASSUME TipoInv, SinDespertarPerdido, [Next]_vars PROVE SinDespertarPerdido'
  OBVIOUS
<1>0. /\ escucha \in [Sesiones -> Mensajes \cup {Nadie}] /\ aviso \in [Sesiones -> BOOLEAN]
      /\ pc \in [Sesiones -> {"leer", "entregar", "sellar", "vacia", "fallo"}]
  BY DEF TipoInv, TypeOK
\* The steps that add no pending row and put no dispatcher to sleep.
<1>1. ASSUME SinDespachar(filas') \subseteq SinDespachar(filas), escucha' = escucha,
             aviso' = aviso,
             \A s \in Sesiones : pc'[s] = "vacia" => pc[s] = "vacia"
      PROVE  SinDespertarPerdido'
  BY <1>1 DEF SinDespertarPerdido, SesionPendiente
<1>2. ASSUME NEW m \in Mensajes, Enqueue(m) PROVE SinDespertarPerdido'
  BY <1>1, <1>2, Poda DEF Enqueue, oyente, despacho
<1>3. CASE Contar \/ EnqueueFalla
  BY <1>1, <1>3 DEF Contar, EnqueueFalla, oyente, despacho
<1>4. CASE Capa1
  <2>1. SinDespachar(filas') \subseteq SinDespachar(filas)
    BY <1>4 DEF Capa1, SinDespachar
  <2>2. QED BY <1>1, <1>4, <2>1 DEF Capa1, oyente, despacho
<1>5. ASSUME NEW b, Sacrifica(b) PROVE SinDespertarPerdido'
  <2>1. SinDespachar(filas') \subseteq SinDespachar(filas)
    BY <1>5 DEF Sacrifica, SinDespachar
  <2>2. QED BY <1>1, <1>5, <2>1 DEF Sacrifica, oyente, despacho
<1>6. CASE Insertar
  <2>1. enq.msg \in Mensajes /\ enq.msg.sesion \in Sesiones /\ enq.msg # Nadie
    BY <1>6, MensajesAssumption, NadieAssumption DEF Insertar, TipoInv, TypeOK
  <2>2. ASSUME NEW s \in Sesiones, s # enq.msg.sesion
        PROVE  SesionPendiente(filas', s) \subseteq SesionPendiente(filas, s)
    <3>1. ASSUME NEW i PROVE FilaNueva(i, seq + 1, admitidas + 1, enq.msg).msg = enq.msg
      BY DEF FilaNueva
    <3>2. QED BY <1>6, <2>2, <3>1 DEF Insertar, SesionPendiente, SinDespachar
  <2>3. QED BY <1>0, <1>6, <2>1, <2>2 DEF Insertar, SinDespertarPerdido, despacho
<1>7. ASSUME NEW s \in Sesiones, Acusar(s) PROVE SinDespertarPerdido'
  BY <1>0, <1>7 DEF Acusar, SinDespertarPerdido, tienda, despacho
<1>8. ASSUME NEW s \in Sesiones, LeeCabeza(s) PROVE SinDespertarPerdido'
  <2>1. CASE SesionPendiente(filas, s) = {} /\ pc' = [pc EXCEPT ![s] = "vacia"]
    BY <1>0, <1>8, <2>1 DEF LeeCabeza, SinDespertarPerdido, tienda, oyente
  <2>2. CASE pc' \in {[pc EXCEPT ![s] = "fallo"], [pc EXCEPT ![s] = "entregar"]}
    BY <1>0, <1>1, <1>8, <2>2 DEF LeeCabeza, tienda, oyente
  <2>3. QED BY <1>8, <2>1, <2>2 DEF LeeCabeza
<1>9. ASSUME NEW s \in Sesiones, MarcarDespachada(s) PROVE SinDespertarPerdido'
  <2>1. filas' = TrasSello(filas, cabeza[s].id, reloj) /\ filas \subseteq Fila /\ reloj \in Nat
    BY <1>9 DEF MarcarDespachada, TipoInv, TypeOK
  <2>2. SinDespachar(filas') \subseteq SinDespachar(filas)
    BY <2>1, Sello
  <2>3. QED BY <1>0, <1>1, <1>9, <2>2 DEF MarcarDespachada, oyente
<1>10. ASSUME NEW s \in Sesiones,
              Entrega(s) \/ EntregaFalla(s) \/ VueltaFalla(s)
                \/ DespiertaRespaldo(s) \/ VenceFreno(s)
       PROVE  SinDespertarPerdido'
  BY <1>0, <1>1, <1>10
     DEF Entrega, EntregaFalla, VueltaFalla, DespiertaRespaldo, VenceFreno, tienda, oyente
<1>11. ASSUME NEW s \in Sesiones, DespiertaAviso(s) PROVE SinDespertarPerdido'
  BY <1>0, <1>11 DEF DespiertaAviso, SinDespertarPerdido, tienda
<1>12. CASE Tic
  BY <1>1, <1>12 DEF Tic, tienda, oyente, despacho
<1>13. CASE Reinicio
  BY <1>13 DEF Reinicio, SinDespertarPerdido
<1>14. CASE UNCHANGED vars
  BY <1>1, <1>14 DEF vars, tienda, oyente, despacho
<1>15. QED BY <1>2, <1>3, <1>4, <1>5, <1>6, <1>7, <1>8, <1>9, <1>10, <1>11, <1>12, <1>13, <1>14
           DEF Next, NextTienda, NextSesion, Capa2, Capa3

\* Between the empty read of a dispatcher and its sleep, and between the COMMIT
\* of a listener and its avisar, no arrival goes unannounced.
THEOREM SinDespertar == Spec => []SinDespertarPerdido
<1>1. Init => SinDespertarPerdido
  BY DEF Init, SinDespertarPerdido
<1>2. QED BY <1>1, TipoSiempre, DespertarPaso, PTL DEF Spec

(***************************************************************************)
(* The cap.                                                                *)
(***************************************************************************)
\* A table that is not empty has an oldest row.
LEMMA HayMasVieja ==
  ASSUME NEW t, t # {}, t \subseteq Fila
  PROVE  \E f \in t : \A g \in t : f.seq <= g.seq
<1> DEFINE R == {p \in Nat \X Nat : p[1] < p[2]}
           S == {f.seq : f \in t}
<1>1. IsWellFoundedOn(R, Nat)
  BY NatLessThanWellFounded, Zenon DEF OpToRel
<1>2. S \subseteq Nat /\ S # {} /\ \A f \in t : f.seq \in S
  BY DEF Fila
<1> HIDE DEF R
<1>3. PICK n \in S : \A m \in S : ~(<<m, n>> \in R)
  BY <1>1, <1>2, WFMin
<1>4. PICK f \in t : f.seq = n
  OBVIOUS
<1>5. \A m \in S : n <= m
  <2> TAKE m \in S
  <2>1. n \in Nat /\ m \in Nat /\ <<m, n>> \notin R
    BY <1>2, <1>3
  <2>2. ~(m < n)
    BY <2>1 DEF R
  <2>3. QED BY <2>1, <2>2
<1>6. QED BY <1>2, <1>4, <1>5

\* The LIMIT k of a layer that leaves a row behind has taken k rows.
LEMMA LimiteAgotado ==
  ASSUME NEW t, IsFiniteSet(t), t \subseteq Fila, NEW k \in Nat, MasViejas(t, k) # t
  PROVE  k <= Cardinality(MasViejas(t, k))
<1> DEFINE b == MasViejas(t, k)
<1>1. b \subseteq t /\ t \ b # {} /\ t \ b \subseteq Fila
  BY DEF MasViejas
<1>2. PICK f \in t \ b : \A g \in t \ b : f.seq <= g.seq
  BY <1>1, HayMasVieja
<1> DEFINE antes == {g \in t : g.seq < f.seq}
<1>3. antes \subseteq b
  BY <1>2 DEF Fila
<1>4. IsFiniteSet(b) /\ IsFiniteSet(antes) /\ Cardinality(b) \in Nat /\ Cardinality(antes) \in Nat
      /\ Cardinality(antes) <= Cardinality(b)
  BY <1>1, <1>3, FS_Subset, FS_CardinalityType
<1>5. ~(Cardinality(antes) < k)
  BY <1>2 DEF MasViejas
<1>6. QED BY <1>4, <1>5

\* Layer 3 finds nothing only when nothing is pending.
LEMMA NadaQueSacrificar ==
  ASSUME NEW t, t \subseteq Fila, ConversacionMasVieja(t) = {}
  PROVE  EnEstado(t, Pendientes) = {}
<1> SUFFICES ASSUME EnEstado(t, Pendientes) # {} PROVE FALSE
  OBVIOUS
<1>1. PICK f \in EnEstado(t, Pendientes) : \A g \in EnEstado(t, Pendientes) : f.seq <= g.seq
  BY HayMasVieja DEF EnEstado
<1>2. f \in ConversacionMasVieja(t)
  BY <1>1 DEF ConversacionMasVieja
<1>3. QED BY <1>2

\* The seal adds no row, and marks none as classified or pending.
LEMMA SelloNoCrece ==
  ASSUME NEW t, IsFiniteSet(t), t \subseteq Fila, NEW i, NEW ahora \in Nat
  PROVE  /\ Cardinality(TrasSello(t, i, ahora)) <= Cardinality(t)
         /\ EnEstado(t, {"clasificado"}) = {} => EnEstado(TrasSello(t, i, ahora), {"clasificado"}) = {}
         /\ SinDespachar(t) = {} => SinDespachar(TrasSello(t, i, ahora)) = {}
<1> DEFINE F == [g \in t |-> IF g \in ASellar(t, i)
                   THEN [g EXCEPT !.estado = "despachado", !.sello = ahora] ELSE g]
<1>1. F \in Surjection(t, TrasSello(t, i, ahora))
  BY DEF Surjection, TrasSello
<1>2. Cardinality(TrasSello(t, i, ahora)) <= Cardinality(t)
  BY <1>1, FS_Surjection
<1>3. EnEstado(TrasSello(t, i, ahora), {"clasificado"}) \subseteq EnEstado(t, {"clasificado"})
  BY Sello DEF EnEstado
<1>4. SinDespachar(TrasSello(t, i, ahora)) \subseteq SinDespachar(t)
  BY Sello
<1>5. QED BY <1>2, <1>3, <1>4

\* What an Enqueue in the middle of its layers still has to delete makes room for its row; the
\* last layer begins without classified rows, and goes on to the INSERT with room, or with
\* nothing left that has not been delivered.
TopeInv ==
  /\ enq.paso \in {"capa1", "capa2", "capa3"} => Cardinality(filas) + 1 <= MaxFilas + enq.faltan
  /\ enq.paso = "capa3" => EnEstado(filas, {"clasificado"}) = {}
  /\ enq.paso = "insertar" => Cardinality(filas) < MaxFilas \/ SinDespachar(filas) = {}

LEMMA TopeInicial == Init => TopeInv
BY DEF Init, TopeInv, Libre

\* A layer that was enough goes on to the INSERT with room; one that was not leaves the rest to
\* the next.
LEMMA TrasLaCapa ==
  ASSUME TipoInv, TopeInv, enq.paso \in {"capa1", "capa2", "capa3"},
         NEW b \in SUBSET filas, filas' = filas \ b, NEW p \in {"capa2", "capa3"}, NEW n \in Nat,
         p = "capa3" => EnEstado(filas', {"clasificado"}) = {},
         \/ CierraTope(n) /\ (enq.faltan <= Cardinality(b) \/ SinDespachar(filas') = {})
         \/ SigueTope(p, b, n) /\ ~(enq.faltan <= Cardinality(b))
  PROVE  TopeInv'
<1>1. /\ IsFiniteSet(filas) /\ Cardinality(filas) \in Nat /\ Cardinality(b) \in Nat
      /\ Cardinality(filas') = Cardinality(filas) - Cardinality(b)
  <2>1. IsFiniteSet(filas) /\ IsFiniteSet(b) /\ filas \cap b = b
    BY FS_Subset DEF TipoInv
  <2>2. Cardinality(filas \ b) = Cardinality(filas) - Cardinality(filas \cap b)
    BY <2>1, FS_Difference
  <2>3. QED BY <2>1, <2>2, FS_CardinalityType
<1>2. enq.faltan \in Nat /\ MaxFilas \in Nat /\ Cardinality(filas) + 1 <= MaxFilas + enq.faltan
  BY TopeAssumption DEF TipoInv, TypeOK, TopeInv
<1>3. CASE CierraTope(n) /\ (enq.faltan <= Cardinality(b) \/ SinDespachar(filas') = {})
  <2>1. enq'.paso = "insertar"
    BY <1>3 DEF CierraTope, TipoInv, TypeOK
  <2>2. enq.faltan <= Cardinality(b) => Cardinality(filas') < MaxFilas
    BY <1>1, <1>2
  <2>3. QED BY <1>3, <2>1, <2>2 DEF TopeInv
<1>4. CASE SigueTope(p, b, n) /\ ~(enq.faltan <= Cardinality(b))
  <2>1. enq'.paso = p /\ enq'.faltan = enq.faltan - Cardinality(b)
    BY <1>4 DEF SigueTope, TipoInv, TypeOK
  <2>2. Cardinality(filas') + 1 <= MaxFilas + enq'.faltan
    BY <1>1, <1>2, <2>1
  <2>3. QED BY <2>1, <2>2 DEF TopeInv
<1>5. QED BY <1>3, <1>4

LEMMA TopePaso == TipoInv /\ TopeInv /\ [Next]_vars => TopeInv'
<1> SUFFICES ASSUME TipoInv, TopeInv, [Next]_vars PROVE TopeInv'
  OBVIOUS
<1>0. /\ filas \subseteq Fila /\ IsFiniteSet(filas) /\ enq.faltan \in Nat /\ reloj \in Nat
      /\ enq \in [paso : Pasos, msg : Mensajes \cup {Nadie}, faltan : Nat, perdidas : Nat]
      /\ Cardinality(filas) \in Nat /\ MaxFilas \in Nat
  BY FS_CardinalityType, TopeAssumption DEF TipoInv, TypeOK
<1>1. ASSUME UNCHANGED <<filas, enq>> PROVE TopeInv'
  BY <1>1 DEF TopeInv
<1>2. ASSUME NEW m \in Mensajes, Enqueue(m) PROVE TopeInv'
  BY <1>2 DEF Enqueue, TopeInv
<1>3. CASE Contar
  <2>1. CASE Cardinality(filas) < MaxFilas
    BY <1>0, <1>3, <2>1 DEF Contar, TopeInv
  <2>2. CASE ~(Cardinality(filas) < MaxFilas)
    <3>1. enq'.paso = "capa1" /\ enq'.faltan = Cardinality(filas) + 1 - MaxFilas /\ filas' = filas
      BY <1>0, <1>3, <2>2 DEF Contar, Faltan
    <3>2. QED BY <1>0, <3>1 DEF TopeInv
  <2>3. QED BY <2>1, <2>2
<1>4. CASE Capa1
  <2> DEFINE b == BorraPorEstado(filas, "despachado", enq.faltan)
  <2>1. b \in SUBSET filas
    BY PorEstado DEF EnEstado
  <2>2. /\ enq.paso = "capa1" /\ filas' = filas \ b
        /\ IF enq.faltan <= Cardinality(b) THEN CierraTope(0) ELSE SigueTope("capa2", b, 0)
    BY <1>4 DEF Capa1
  <2> HIDE DEF b
  <2>3. QED BY <2>1, <2>2, TrasLaCapa
<1>5. CASE Capa2
  <2> DEFINE c == EnEstado(filas, {"clasificado"})
             b == BorraPorEstado(filas, "clasificado", enq.faltan)
  <2>1. b \in SUBSET filas /\ Cardinality(b) \in Nat
    BY <1>0, PorEstado, FS_Subset, FS_CardinalityType DEF EnEstado
  <2>2. /\ enq.paso = "capa2" /\ filas' = filas \ b
        /\ IF enq.faltan <= Cardinality(b) THEN CierraTope(Cardinality(b))
                                           ELSE SigueTope("capa3", b, Cardinality(b))
    BY <1>5 DEF Capa2, Sacrifica
  <2>3. ~(enq.faltan <= Cardinality(b)) => b = c
    <3>1. IsFiniteSet(c) /\ c \subseteq Fila /\ b = MasViejas(c, enq.faltan)
      BY <1>0, FS_Subset DEF EnEstado, BorraPorEstado
    <3>2. QED BY <1>0, <3>1, LimiteAgotado
  <2>4. b = c => EnEstado(filas \ b, {"clasificado"}) = {}
    BY DEF EnEstado
  <2> HIDE DEF b, c
  <2>5. CASE enq.faltan <= Cardinality(b)
    BY <2>1, <2>2, <2>5, TrasLaCapa
  <2>6. CASE ~(enq.faltan <= Cardinality(b))
    <3>1. EnEstado(filas', {"clasificado"}) = {}
      BY <2>2, <2>3, <2>4, <2>6
    <3>2. QED BY <2>1, <2>2, <2>6, <3>1, TrasLaCapa
  <2>7. QED BY <2>5, <2>6
<1>6. CASE Capa3
  <2> DEFINE b == ConversacionMasVieja(filas)
  <2>1. b \in SUBSET filas /\ Cardinality(b) \in Nat
    BY <1>0, PorConversacion, FS_Subset, FS_CardinalityType DEF EnEstado
  <2>2. /\ enq.paso = "capa3" /\ filas' = filas \ b
        /\ IF b = {} \/ enq.faltan <= Cardinality(b) THEN CierraTope(Cardinality(b))
                                                     ELSE SigueTope("capa3", b, Cardinality(b))
    BY <1>6 DEF Capa3, Sacrifica
  <2>3. EnEstado(filas, {"clasificado"}) = {} /\ EnEstado(filas', {"clasificado"}) = {}
    BY <2>2 DEF TopeInv, EnEstado
  <2>4. b = {} => SinDespachar(filas') = {}
    <3>1. b = {} => EnEstado(filas, Pendientes) = {}
      BY <1>0, NadaQueSacrificar
    <3>2. \A f \in filas : f.estado \in Pendientes \cup {"clasificado", "despachado"}
      BY <1>0 DEF Fila, Estados, Pendientes
    <3>3. QED BY <2>2, <2>3, <3>1, <3>2 DEF SinDespachar, EnEstado
  <2> HIDE DEF b
  <2>5. QED BY <2>1, <2>2, <2>3, <2>4, TrasLaCapa
<1>7. CASE Insertar \/ EnqueueFalla \/ Reinicio
  BY <1>7 DEF Insertar, EnqueueFalla, Reinicio, TopeInv, Libre
<1>8. ASSUME NEW s \in Sesiones, MarcarDespachada(s) PROVE TopeInv'
  <2>1. filas' = TrasSello(filas, cabeza[s].id, reloj) /\ enq' = enq
    BY <1>8 DEF MarcarDespachada
  <2>2. /\ Cardinality(filas') <= Cardinality(filas) /\ Cardinality(filas') \in Nat
        /\ EnEstado(filas, {"clasificado"}) = {} => EnEstado(filas', {"clasificado"}) = {}
        /\ SinDespachar(filas) = {} => SinDespachar(filas') = {}
    BY <1>0, <2>1, SelloNoCrece, SelloFinito, FS_CardinalityType
  <2>3. QED BY <1>0, <2>1, <2>2 DEF TopeInv
<1>9. ASSUME NEW s \in Sesiones,
             \/ Acusar(s) \/ LeeCabeza(s) \/ Entrega(s) \/ EntregaFalla(s) \/ VueltaFalla(s)
             \/ DespiertaAviso(s) \/ DespiertaRespaldo(s) \/ VenceFreno(s)
      PROVE  TopeInv'
  BY <1>1, <1>9
     DEF Acusar, LeeCabeza, Entrega, EntregaFalla, VueltaFalla, DespiertaAviso,
         DespiertaRespaldo, VenceFreno, tienda
<1>10. CASE Tic \/ UNCHANGED vars
  BY <1>1, <1>10 DEF Tic, vars, tienda
<1>11. QED BY <1>2, <1>3, <1>4, <1>5, <1>6, <1>7, <1>8, <1>9, <1>10
           DEF Next, NextTienda, NextSesion

LEMMA TopeEnCadaPaso ==
  TipoInv /\ TopeInv /\ [Next]_vars
    => [Cardinality(filas') > Cardinality(filas)
          => Cardinality(SinDespachar(filas')) <= MaxFilas]_vars
<1> SUFFICES ASSUME TipoInv, TopeInv, Next, Cardinality(filas') > Cardinality(filas)
             PROVE  Cardinality(SinDespachar(filas')) <= MaxFilas
  BY DEF Next
<1>0. /\ filas \subseteq Fila /\ IsFiniteSet(filas) /\ reloj \in Nat
      /\ Cardinality(filas) \in Nat /\ MaxFilas \in Nat \ {0}
  BY FS_CardinalityType, TopeAssumption DEF TipoInv, TypeOK
<1>1. CASE Insertar
  <2>1. PICK i : filas' = filas \cup {FilaNueva(i, seq + 1, admitidas + 1, enq.msg)}
    BY <1>0, <1>1 DEF Insertar
  <2> DEFINE nueva == FilaNueva(i, seq + 1, admitidas + 1, enq.msg)
  <2>2. Cardinality(filas) < MaxFilas \/ SinDespachar(filas) = {}
    BY <1>1 DEF Insertar, TopeInv
  <2> HIDE DEF nueva
  <2>3. /\ IsFiniteSet(filas \cup {nueva})
        /\ Cardinality(filas \cup {nueva}) \in {Cardinality(filas), Cardinality(filas) + 1}
        /\ Cardinality({nueva}) = 1 /\ IsFiniteSet({nueva})
    BY <1>0, FS_AddElement, FS_Singleton
  <2>4. filas' = filas \cup {nueva}
    BY <2>1 DEF nueva
  <2>5. CASE Cardinality(filas) < MaxFilas
    <3>1. SinDespachar(filas') \subseteq filas'
      BY DEF SinDespachar
    <3>2. Cardinality(SinDespachar(filas')) <= Cardinality(filas') /\ Cardinality(SinDespachar(filas')) \in Nat
      BY <2>3, <2>4, <3>1, FS_Subset, FS_CardinalityType
    <3>3. QED BY <1>0, <2>3, <2>4, <2>5, <3>2
  <2>6. CASE SinDespachar(filas) = {}
    <3>1. SinDespachar(filas') \subseteq {nueva}
      BY <2>4, <2>6 DEF SinDespachar
    <3>2. Cardinality(SinDespachar(filas')) <= 1 /\ Cardinality(SinDespachar(filas')) \in Nat
      BY <2>3, <3>1, FS_Subset, FS_CardinalityType
    <3>3. QED BY <1>0, <3>2
  <2>7. QED BY <2>2, <2>5, <2>6
<1>2. ASSUME filas' \subseteq filas PROVE FALSE
  <2>1. Cardinality(filas') <= Cardinality(filas) /\ Cardinality(filas') \in Nat
    BY <1>0, <1>2, FS_Subset, FS_CardinalityType
  <2>2. QED BY <1>0, <2>1
<1>3. ASSUME NEW m \in Mensajes, Enqueue(m) PROVE filas' \subseteq filas
  BY <1>3, Poda DEF Enqueue
<1>4. CASE Contar \/ Capa1 \/ Capa2 \/ Capa3 \/ EnqueueFalla \/ Tic \/ Reinicio
  BY <1>2, <1>4 DEF Contar, Capa1, Capa2, Capa3, Sacrifica, EnqueueFalla, Tic, Reinicio, tienda
<1>5. ASSUME NEW s \in Sesiones, MarcarDespachada(s) PROVE FALSE
  <2>1. Cardinality(filas') <= Cardinality(filas) /\ Cardinality(filas') \in Nat
    BY <1>0, <1>5, SelloNoCrece, SelloFinito, FS_CardinalityType DEF MarcarDespachada
  <2>2. QED BY <1>0, <2>1
<1>6. ASSUME NEW s \in Sesiones,
             \/ Acusar(s) \/ LeeCabeza(s) \/ Entrega(s) \/ EntregaFalla(s) \/ VueltaFalla(s)
             \/ DespiertaAviso(s) \/ DespiertaRespaldo(s) \/ VenceFreno(s)
      PROVE  filas' \subseteq filas
  BY <1>6
     DEF Acusar, LeeCabeza, Entrega, EntregaFalla, VueltaFalla, DespiertaAviso,
         DespiertaRespaldo, VenceFreno, tienda
<1>7. QED BY <1>1, <1>2, <1>3, <1>4, <1>5, <1>6 DEF Next, NextTienda, NextSesion

\* An INSERT never leaves more than MaxFilas rows that have not been delivered, whatever was on
\* disk and whatever the dispatchers sealed between its COUNT and its last DELETE
\* (colaentrantes.go, dropOldestLocked).
THEOREM TopeRespetado == Spec => TopeDePendientes
BY TipoSiempre, TopeInicial, TopePaso, TopeEnCadaPaso, PTL DEF Spec, TopeDePendientes

LEMMA ConversacionPaso ==
  TipoInv /\ [Next]_vars
    => [\A d \in EnEstado(descartadas' \ descartadas, Pendientes) :
          \A f \in EnEstado(filas', Pendientes) : Conversacion(f) # Conversacion(d)]_vars
<1> SUFFICES ASSUME TipoInv, Next,
                    NEW d \in EnEstado(descartadas' \ descartadas, Pendientes),
                    NEW f \in EnEstado(filas', Pendientes)
             PROVE  Conversacion(f) # Conversacion(d)
  BY DEF Next
<1>1. CASE Capa2
  <2>1. d \in EnEstado(filas, {"clasificado"})
    BY <1>1, PorEstado DEF Capa2, Sacrifica, EnEstado
  <2>2. QED BY <2>1 DEF EnEstado, Pendientes
<1>2. CASE Capa3
  <2>1. d \in ConversacionMasVieja(filas) /\ filas' = filas \ ConversacionMasVieja(filas)
    BY <1>2 DEF Capa3, Sacrifica, EnEstado
  <2>2. f \in EnEstado(filas, Pendientes) /\ f \notin ConversacionMasVieja(filas)
    BY <2>1 DEF EnEstado
  <2>3. QED BY <2>1, <2>2 DEF ConversacionMasVieja
<1>3. CASE descartadas' = descartadas
  BY <1>3 DEF EnEstado
<1>4. QED BY <1>1, <1>2, <1>3
  DEF Next, NextTienda, NextSesion, Enqueue, Contar, Capa1, Insertar, EnqueueFalla, Acusar,
      LeeCabeza, Entrega, EntregaFalla, MarcarDespachada, VueltaFalla, DespiertaAviso,
      DespiertaRespaldo, VenceFreno, Tic, Reinicio, testigos

\* "Una conversacion o esta ENTERA o no esta": a layer that deletes a pending row leaves no
\* pending row of its conversation behind (colaentrantes.go, dropOldestLocked).
THEOREM EnteraONada == Spec => ConversacionEntera
BY TipoSiempre, ConversacionPaso, PTL DEF Spec, ConversacionEntera
=============================================================================
