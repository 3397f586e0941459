-------------------------- MODULE ColaBuzon_proofs --------------------------
(***************************************************************************)
(* ColaEntrantes implements BuzonDurable.                                  *)
(***************************************************************************)
EXTENDS ColaEntrantes_proofs

(***************************************************************************)
(* A row is known by its rowid, and by its arrival number: what lets one   *)
(* pair of BuzonDurable stand for one row, and one seal for one pair.      *)
(***************************************************************************)
Identidad ==
  /\ \A f, g \in filas : f.id = g.id => f = g
  /\ \A f, g \in filas : f.n = g.n => f = g

LEMMA IdentidadInicial == Init => Identidad
BY TablasAssumption DEF Init, Identidad

\* Rows that go take nothing from the identity of those that stay.
LEMMA IdentidadBorrado == ASSUME Identidad, filas' \subseteq filas PROVE Identidad'
BY DEF Identidad

LEMMA IdentidadPaso == TipoInv /\ FifoInv /\ Identidad /\ [Next]_vars => Identidad'
<1> SUFFICES ASSUME TipoInv, FifoInv, Identidad, [Next]_vars PROVE Identidad'
  OBVIOUS
<1>1. ASSUME NEW m \in Mensajes, Enqueue(m) PROVE Identidad'
  BY <1>1, Poda, IdentidadBorrado DEF Enqueue
<1>2. CASE Capa1
  BY <1>2, IdentidadBorrado DEF Capa1
<1>3. ASSUME NEW b, Sacrifica(b) PROVE Identidad'
  BY <1>3, IdentidadBorrado DEF Sacrifica
<1>4. CASE Insertar
  <2>1. CASE filas' = filas
    BY <2>1, IdentidadBorrado
  <2>2. CASE filas' # filas
    <3>1. PICK i \in Rowid(filas) :
            filas' = filas \cup {FilaNueva(i, seq + 1, admitidas + 1, enq.msg)}
      BY <1>4, <2>2 DEF Insertar
    <3> DEFINE nueva == FilaNueva(i, seq + 1, admitidas + 1, enq.msg)
    <3>2. nueva.id = i /\ nueva.n = admitidas + 1
      BY DEF FilaNueva
    <3>3. \A f \in filas : f.id \in Nat /\ f.id < i /\ f.n \in Nat /\ f.n <= admitidas
      BY <3>1 DEF Rowid, TipoInv, TypeOK, Fila, FifoInv, Acotada
    <3>4. i \in Nat /\ admitidas \in Nat
      BY <3>1 DEF Rowid, TipoInv, TypeOK, Fila
    <3>5. \A f \in filas : f.id # nueva.id /\ f.n # nueva.n
      BY <3>2, <3>3, <3>4
    <3> HIDE DEF nueva
    <3>6. filas' = filas \cup {nueva}
      BY <3>1 DEF nueva
    <3>7. QED BY <3>5, <3>6 DEF Identidad
  <2>3. QED BY <2>1, <2>2
<1>5. ASSUME NEW s \in Sesiones, MarcarDespachada(s) PROVE Identidad'
  <2> DEFINE Sellada(g) == IF g \in ASellar(filas, cabeza[s].id)
                             THEN [g EXCEPT !.estado = "despachado", !.sello = reloj] ELSE g
  <2>1. filas' = {Sellada(g) : g \in filas}
    BY <1>5 DEF MarcarDespachada, TrasSello
  <2>2. \A g \in filas : Sellada(g).id = g.id /\ Sellada(g).n = g.n
    BY DEF TipoInv, TypeOK, Fila
  <2> HIDE DEF Sellada
  <2>3. QED BY <2>1, <2>2 DEF Identidad
<1>6. CASE filas' = filas
  BY <1>6, IdentidadBorrado
<1>7. QED BY <1>1, <1>2, <1>3, <1>4, <1>5, <1>6
  DEF Next, NextTienda, NextSesion, Contar, Capa2, Capa3, EnqueueFalla, Acusar, LeeCabeza,
      Entrega, EntregaFalla, VueltaFalla, DespiertaAviso, DespiertaRespaldo, VenceFreno,
      Tic, Reinicio, vars, tienda

(***************************************************************************)
(* The refinement, step by step.                                           *)
(***************************************************************************)
Pares(t) == {<<f.msg.sesion, f.n>> : f \in SinDespachar(t)}

LEMMA BuzonInicial == Init => Buzon!Init
<1> SUFFICES ASSUME Init PROVE Buzon!Init
  OBVIOUS
<1>1. /\ filas \subseteq Fila /\ \A f \in filas : f.n = f.seq
      /\ seq \in MaxSeqDe(filas) /\ admitidas = seq
  BY TablasAssumption DEF Init
<1>2. seq \in Nat /\ \A f \in filas : f.seq \in Nat /\ f.seq <= seq
  BY <1>1 DEF MaxSeqDe, Fila
<1>3. \A f \in filas : f.n \in Nat /\ f.n <= admitidas /\ f.msg.sesion \in Sesiones
  BY <1>1, <1>2, MensajesAssumption DEF Fila
<1>4. {d.n : d \in descartadas} = {}
  BY DEF Init
<1>5. admitidas \in Nat /\ ultima = [s \in Sesiones |-> 0]
  BY <1>1, <1>2 DEF Init
<1>6. {<<f.msg.sesion, f.n>> : f \in SinDespachar(filas)} \subseteq Sesiones \X (0 .. admitidas)
  <2>1. \A f \in SinDespachar(filas) : f.msg.sesion \in Sesiones /\ f.n \in 0 .. admitidas
    BY <1>1, <1>3, <1>5 DEF SinDespachar, Fila
  <2>2. QED BY <2>1
<1>7. QED BY <1>4, <1>5, <1>6 DEF Buzon!Init

\* Rows that go take their pairs with them, and no other.
LEMMA ParesBorrados ==
  ASSUME Identidad, NEW b, b \subseteq filas
  PROVE  /\ Pares(filas \ b) \subseteq Pares(filas)
         /\ \A f \in SinDespachar(filas) :
              <<f.msg.sesion, f.n>> \in Pares(filas) \ Pares(filas \ b) <=> f \in b
<1>1. Pares(filas \ b) \subseteq Pares(filas)
  BY DEF Pares, SinDespachar
<1>2. ASSUME NEW f \in SinDespachar(filas)
      PROVE  <<f.msg.sesion, f.n>> \in Pares(filas \ b) <=> f \notin b
  <2>1. CASE f \notin b
    BY <1>2, <2>1 DEF Pares, SinDespachar
  <2>2. CASE f \in b
    <3>1. ASSUME NEW g \in SinDespachar(filas \ b), <<g.msg.sesion, g.n>> = <<f.msg.sesion, f.n>>
          PROVE  FALSE
      <4>1. g \in filas /\ g \notin b /\ f \in filas /\ g.n = f.n
        BY <1>2, <3>1 DEF SinDespachar
      <4>2. QED BY <2>2, <4>1 DEF Identidad
    <3>2. QED BY <2>2, <3>1 DEF Pares
  <2>3. QED BY <2>1, <2>2
<1>3. \A f \in SinDespachar(filas) : <<f.msg.sesion, f.n>> \in Pares(filas)
  BY DEF Pares
<1>4. QED BY <1>1, <1>2, <1>3

\* Rows that the cap gives up are a Sacrifica of BuzonDurable.
LEMMA BuzonSacrifica ==
  ASSUME TipoInv, Identidad, NEW b, b \subseteq SinDespachar(filas), Sacrifica(b)
  PROVE  Buzon!Sacrifica
<1>1. filas' = filas \ b /\ descartadas' = descartadas \cup b
      /\ admitidas' = admitidas /\ ultima' = ultima
  BY DEF Sacrifica
<1>2. b \subseteq filas
  BY DEF SinDespachar
<1>3. Pares(filas') \subseteq Pares(filas)
  BY <1>1, <1>2, ParesBorrados
<1>4. {d.n : d \in b} = {x[2] : x \in Pares(filas) \ Pares(filas')}
  <2>1. ASSUME NEW d \in b PROVE d.n \in {x[2] : x \in Pares(filas) \ Pares(filas')}
    <3>1. <<d.msg.sesion, d.n>> \in Pares(filas) \ Pares(filas')
      BY <1>1, <1>2, ParesBorrados
    <3>2. <<d.msg.sesion, d.n>>[2] = d.n
      OBVIOUS
    <3>3. QED BY <3>1, <3>2
  <2>2. ASSUME NEW x \in Pares(filas) \ Pares(filas') PROVE x[2] \in {d.n : d \in b}
    <3>1. PICK f \in SinDespachar(filas) : x = <<f.msg.sesion, f.n>>
      BY <2>2 DEF Pares
    <3>2. f \in b
      BY <1>1, <1>2, <2>2, <3>1, ParesBorrados
    <3>3. QED BY <3>1, <3>2
  <2>3. QED BY <2>1, <2>2
<1>5. {d.n : d \in descartadas'} = {d.n : d \in descartadas} \cup {d.n : d \in b}
  BY <1>1
<1>6. QED BY <1>1, <1>3, <1>4, <1>5 DEF Buzon!Sacrifica, Pares

\* An INSERT is an Admite, or nothing when the message was already there.
LEMMA BuzonInsertar ==
  ASSUME TipoInv, FifoInv, Insertar
  PROVE  [Buzon!Next]_Buzon!vars
<1>1. ultima' = ultima /\ descartadas' = descartadas
  BY DEF Insertar
<1>2. CASE YaEncolado(filas, enq.msg)
  <2>1. filas' = filas /\ admitidas' = admitidas
    BY <1>2 DEF Insertar
  <2>2. UNCHANGED Buzon!vars
    BY <1>1, <2>1 DEF Buzon!vars
  <2>3. QED BY <2>2
<1>3. CASE ~YaEncolado(filas, enq.msg)
  <2>1. PICK i \in Rowid(filas) :
          filas' = filas \cup {FilaNueva(i, seq + 1, admitidas + 1, enq.msg)}
    BY <1>3 DEF Insertar
  <2> DEFINE nueva == FilaNueva(i, seq + 1, admitidas + 1, enq.msg)
  <2>2. nueva.n = admitidas + 1 /\ nueva.msg = enq.msg /\ nueva.estado = "nuevo"
    BY DEF FilaNueva
  <2>3. PICK s \in Sesiones : s = enq.msg.sesion
    BY MensajesAssumption DEF Insertar, TipoInv, TypeOK
  <2> HIDE DEF nueva
  <2>4. filas' = filas \cup {nueva} /\ admitidas' = admitidas + 1
    BY <1>3, <2>1 DEF Insertar, nueva
  <2>5. SinDespachar(filas') = SinDespachar(filas) \cup {nueva}
    BY <2>2, <2>4 DEF SinDespachar
  <2>6. Pares(filas') = Pares(filas) \cup {<<s, admitidas + 1>>}
    BY <2>2, <2>3, <2>5 DEF Pares
  <2>7. Buzon!Admite(s)
    BY <1>1, <2>4, <2>6 DEF Buzon!Admite, Pares
  <2>8. QED BY <2>3, <2>7 DEF Buzon!Next
<1>4. QED BY <1>2, <1>3

\* A delivery takes the oldest of the session, as BuzonDurable wants it.
LEMMA BuzonEntrega ==
  ASSUME TipoInv, FifoInv, NEW s \in Sesiones, Entrega(s)
  PROVE  Buzon!Entrega(s)
<1>1. /\ filas' = filas /\ admitidas' = admitidas /\ descartadas' = descartadas
      /\ ultima' = [ultima EXCEPT ![s] = cabeza[s].n] /\ pc[s] = "entregar"
  BY DEF Entrega, tienda
<1>2. /\ cabeza[s].n \in Nat /\ ultima[s] \in Nat /\ admitidas \in Nat
      /\ ultima[s] <= cabeza[s].n /\ cabeza[s].n <= admitidas
      /\ \A f \in SesionPendiente(filas, s) : cabeza[s].n <= f.n
  BY <1>1 DEF TipoInv, TypeOK, CabezaEnMano, Fila, FifoInv, CabezaFresca
<1>3. cabeza[s].n \in ultima[s] .. admitidas
  BY <1>2
<1>4. \A x \in Pares(filas) : x[1] = s => cabeza[s].n <= x[2]
  BY <1>2 DEF Pares, SesionPendiente
<1>5. QED BY <1>1, <1>3, <1>4 DEF Buzon!Entrega, Pares

\* A seal retires the one row that has the rowid, if it is there.
LEMMA BuzonSella ==
  ASSUME TipoInv, Identidad, NEW s \in Sesiones, MarcarDespachada(s)
  PROVE  [Buzon!Next]_Buzon!vars
<1>1. /\ filas' = TrasSello(filas, cabeza[s].id, reloj)
      /\ admitidas' = admitidas /\ descartadas' = descartadas /\ ultima' = ultima
  BY DEF MarcarDespachada
<1> DEFINE S == ASellar(filas, cabeza[s].id)
<1>2. SinDespachar(filas') = SinDespachar(filas) \ S
  BY <1>1, Sello DEF TipoInv, TypeOK
<1>3. S \subseteq SinDespachar(filas) /\ S \subseteq filas
  BY DEF ASellar, SinDespachar
<1>4. \A f, g \in S : f = g
  BY DEF ASellar, SinDespachar, Identidad
<1>5. Pares(filas') = Pares(filas \ S)
  <2>1. SinDespachar(filas \ S) = SinDespachar(filas) \ S
    BY DEF SinDespachar
  <2>2. QED BY <1>2, <2>1 DEF Pares
<1> HIDE DEF S
<1>6. CASE S = {}
  <2>1. Pares(filas') = Pares(filas)
    BY <1>2, <1>6 DEF Pares
  <2>2. QED BY <1>1, <2>1 DEF Buzon!vars, Pares
<1>7. CASE S # {}
  <2>1. PICK f \in S : S = {f}
    BY <1>4, <1>7
  <2>2. <<f.msg.sesion, f.n>> \in Pares(filas) \ Pares(filas')
    BY <1>3, <1>5, <2>1, ParesBorrados
  <2>3. ASSUME NEW x \in Pares(filas), x # <<f.msg.sesion, f.n>> PROVE x \in Pares(filas')
    <3>1. PICK g \in SinDespachar(filas) : x = <<g.msg.sesion, g.n>>
      BY DEF Pares
    <3>2. g \notin S
      BY <2>1, <2>3, <3>1
    <3>3. QED BY <1>2, <3>1, <3>2 DEF Pares
  <2>4. Pares(filas') \subseteq Pares(filas)
    BY <1>3, <1>5, ParesBorrados
  <2>5. Pares(filas') = Pares(filas) \ {<<f.msg.sesion, f.n>>}
    BY <2>2, <2>3, <2>4
  <2>6. Buzon!Retira
    BY <1>1, <2>2, <2>5 DEF Buzon!Retira, Pares
  <2>7. QED BY <2>6 DEF Buzon!Next
<1>8. QED BY <1>6, <1>7

LEMMA BuzonPaso ==
  TipoInv /\ FifoInv /\ Identidad /\ [Next]_vars => [Buzon!Next]_Buzon!vars
<1> SUFFICES ASSUME TipoInv, FifoInv, Identidad, [Next]_vars PROVE [Buzon!Next]_Buzon!vars
  OBVIOUS
\* The steps that leave alone what BuzonDurable sees.
<1>1. ASSUME SinDespachar(filas') = SinDespachar(filas), admitidas' = admitidas,
             descartadas' = descartadas, ultima' = ultima
      PROVE  [Buzon!Next]_Buzon!vars
  BY <1>1 DEF Buzon!vars
<1>2. ASSUME NEW m \in Mensajes, Enqueue(m) PROVE [Buzon!Next]_Buzon!vars
  <2>1. SinDespachar(filas') = SinDespachar(filas)
    BY <1>2, Poda DEF Enqueue
  <2>2. QED BY <1>1, <1>2, <2>1 DEF Enqueue, testigos
<1>3. CASE Capa1
  <2>1. SinDespachar(filas') = SinDespachar(filas)
    BY <1>3, PorEstado DEF Capa1, SinDespachar, EnEstado
  <2>2. QED BY <1>1, <1>3, <2>1 DEF Capa1, testigos
<1>4. CASE Capa2
  <2>1. BorraPorEstado(filas, "clasificado", enq.faltan) \subseteq SinDespachar(filas)
    BY PorEstado DEF EnEstado, SinDespachar
  <2>2. QED BY <1>4, <2>1, BuzonSacrifica DEF Capa2, Buzon!Next
<1>5. CASE Capa3
  <2>1. ConversacionMasVieja(filas) \subseteq SinDespachar(filas)
    BY PorConversacion DEF EnEstado, SinDespachar, Pendientes
  <2>2. QED BY <1>5, <2>1, BuzonSacrifica DEF Capa3, Buzon!Next
<1>6. CASE Insertar
  BY <1>6, BuzonInsertar
<1>7. ASSUME NEW s \in Sesiones, Entrega(s) PROVE [Buzon!Next]_Buzon!vars
  BY <1>7, BuzonEntrega DEF Buzon!Next
<1>8. ASSUME NEW s \in Sesiones, MarcarDespachada(s) PROVE [Buzon!Next]_Buzon!vars
  BY <1>8, BuzonSella
<1>9. CASE filas' = filas /\ UNCHANGED testigos
  BY <1>1, <1>9 DEF testigos
<1>10. CASE Contar \/ EnqueueFalla \/ Tic \/ Reinicio \/ UNCHANGED vars
  BY <1>9, <1>10 DEF Contar, EnqueueFalla, Tic, Reinicio, vars, tienda
<1>11. ASSUME NEW s \in Sesiones,
              \/ Acusar(s) \/ LeeCabeza(s) \/ EntregaFalla(s) \/ VueltaFalla(s)
              \/ DespiertaAviso(s) \/ DespiertaRespaldo(s) \/ VenceFreno(s)
       PROVE  [Buzon!Next]_Buzon!vars
  <2>1. filas' = filas
    BY <1>11 DEF Acusar, LeeCabeza, EntregaFalla, VueltaFalla, DespiertaAviso,
                 DespiertaRespaldo, VenceFreno, tienda
  <2>2. admitidas' = admitidas /\ descartadas' = descartadas /\ ultima' = ultima
    BY <1>11 DEF Acusar, LeeCabeza, EntregaFalla, VueltaFalla, DespiertaAviso,
                 DespiertaRespaldo, VenceFreno, testigos
  <2>3. QED BY <1>1, <2>1, <2>2
<1>12. QED BY <1>2, <1>3, <1>4, <1>5, <1>6, <1>7, <1>8, <1>10, <1>11
  DEF Next, NextTienda, NextSesion

\* For every set of sessions and messages, every cap and every table that was
\* left on disk, the inbox is a durable FIFO of each session: the statements of
\* an Enqueue, the dispatchers and the deaths of the process included.
THEOREM Refina == Spec => ImplementaBuzon
<1>1. Spec => [](TipoInv /\ FifoInv /\ Identidad)
  BY TipoInicial, TipoPaso, FifoInicial, FifoPaso, IdentidadInicial, IdentidadPaso,
     PTL DEF Spec
<1>2. QED BY <1>1, BuzonInicial, BuzonPaso, PTL DEF Spec, ImplementaBuzon, Buzon!Spec
=============================================================================
