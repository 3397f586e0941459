------------------------ MODULE ReenvioOutbox_proofs ------------------------
(***************************************************************************)
(* Theorems about the way out of the Edge, for every value of its          *)
(* constants.                                                              *)
(***************************************************************************)
EXTENDS ReenvioOutbox, FiniteSetTheorems, WellFoundedInduction, TLAPS

(***************************************************************************)
(* What the statements on the table, and the cloud, do.                    *)
(***************************************************************************)
\* A prune removes rows of the table.
LEMMA Prefijo ==
  ASSUME NEW t, NEW p \in Podas(t)
  PROVE  p \subseteq t
BY DEF Podas

\* A table that is not empty has an oldest row.
LEMMA HayPrimera ==
  ASSUME NEW t, t # {}, t \subseteq Fila
  PROVE  \E r \in t : \A q \in t : ~(q.orden < r.orden)
<1> DEFINE R == {p \in Nat \X Nat : p[1] < p[2]}
           S == {r.orden : r \in t}
<1>1. IsWellFoundedOn(R, Nat)
  BY NatLessThanWellFounded, Zenon DEF OpToRel
<1>2. S \subseteq Nat /\ S # {}
  BY DEF Fila
<1> HIDE DEF R
<1>3. PICK n \in S : \A m \in S : ~(<<m, n>> \in R)
  BY <1>1, <1>2, WFMin
<1>4. PICK r \in t : r.orden = n
  OBVIOUS
<1>5. QED BY <1>2, <1>3, <1>4 DEF R

\* What LIMIT leaves out of a batch comes after all of it.
LEMMA LoteEsPrefijo ==
  ASSUME NEW t, IsFiniteSet(t), t \subseteq Fila, NEW n \in Nat,
         NEW r \in t, NEW q \in MasViejas(t, n), r.orden <= q.orden
  PROVE  r \in MasViejas(t, n)
<1> DEFINE Antes(x) == {y \in t : y.orden < x.orden}
<1>1. q \in t /\ q.orden \in Nat /\ r.orden \in Nat /\ \A x \in t : x.orden \in Nat
  BY DEF MasViejas, Fila
<1>2. Antes(r) \subseteq Antes(q) /\ Antes(q) \subseteq t
  BY <1>1
<1>3. IsFiniteSet(Antes(q))
  BY <1>2, FS_Subset
<1>4. Cardinality(Antes(r)) <= Cardinality(Antes(q))
      /\ Cardinality(Antes(r)) \in Nat /\ Cardinality(Antes(q)) \in Nat
  BY <1>2, <1>3, FS_Subset, FS_CardinalityType
<1>5. Cardinality(Antes(q)) < n
  BY DEF MasViejas
<1>6. Cardinality(Antes(r)) < n
  BY <1>4, <1>5
<1>7. QED BY <1>6 DEF MasViejas

\* What the cloud has, it keeps, and an event it is sent it has from then on.
LEMMA NubeCrece ==
  ASSUME NEW s \in Sesiones, NEW k \in 1 .. MaxEventos, Recibe(s, k),
         DOMAIN nube = Sesiones, \A x \in Sesiones : nube[x] \in Seq(1 .. MaxEventos)
  PROVE  /\ DOMAIN nube' = Sesiones /\ \A x \in Sesiones : nube'[x] \in Seq(1 .. MaxEventos)
         /\ \A x \in Sesiones : ToSet(nube[x]) \subseteq ToSet(nube'[x])
         /\ k \in ToSet(nube'[s])
<1>1. CASE k \in ToSet(nube[s])
  BY <1>1 DEF Recibe
<1>2. CASE k \notin ToSet(nube[s])
  <2>1. nube' = [nube EXCEPT ![s] = Append(nube[s], k)]
    BY <1>2 DEF Recibe
  <2>2. nube'[s] = Append(nube[s], k) /\ \A x \in Sesiones \ {s} : nube'[x] = nube[x]
    BY <2>1
  <2>3. /\ Append(nube[s], k) \in Seq(1 .. MaxEventos)
        /\ DOMAIN Append(nube[s], k) = 1 .. Len(nube[s]) + 1
        /\ \A i \in DOMAIN nube[s] : Append(nube[s], k)[i] = nube[s][i] /\ i \in 1 .. Len(nube[s]) + 1
        /\ Append(nube[s], k)[Len(nube[s]) + 1] = k /\ Len(nube[s]) + 1 \in 1 .. Len(nube[s]) + 1
    OBVIOUS
  <2>4. ToSet(nube[s]) \subseteq ToSet(nube'[s]) /\ k \in ToSet(nube'[s])
    BY <2>2, <2>3 DEF ToSet
  <2>5. QED BY <2>1, <2>2, <2>3, <2>4
<1>3. QED BY <1>1, <1>2

(***************************************************************************)
(* Type correctness, and where everybody is.                               *)
(***************************************************************************)
\* A caller that has handed an event over has sealed all those before it, and
\* one between two events may still have to seal the last.
Sellos ==
  \A s \in Sesiones :
    /\ siguiente[s] \in {sellado[s] + 1, sellado[s] + 2}
    /\ fpc[s] # "libre" => siguiente[s] = sellado[s] + 1 /\ siguiente[s] <= MaxEventos

\* Only a drainer in its loop has a batch, and drainer 0 and those of streams
\* to come are not in it.
Puestos ==
  \A d \in Drenadores :
    /\ dpc[d] \notin {"envia", "borra"} => lote[d] = {}
    /\ d = 0 => dpc[d] \in {"relee", "fija", "fin"}
    /\ d > conexiones => dpc[d] = "fin"

TipoInv == TypeOK /\ DOMAIN nube = Sesiones /\ DOMAIN lote = Drenadores /\ DOMAIN foto = Drenadores
           /\ IsFiniteSet(outbox) /\ Sellos /\ Puestos

LEMMA TipoInicial == Init => TipoInv
<1> SUFFICES ASSUME Init PROVE TipoInv
  OBVIOUS
<1> USE DEF Init
<1>1. 0 \in Drenadores /\ 0 \in 0 .. MaxEventos /\ 1 \in 1 .. MaxEventos + 1 /\ 0 \in Nat
  BY CotasAssumption DEF Drenadores
<1>2. /\ outbox \subseteq Fila /\ orden \in Nat /\ pending \subseteq Sesiones
      /\ conexiones \in 0 .. MaxConexiones /\ vivo \in BOOLEAN /\ cliente \in {0, conexiones}
  BY <1>1, CotasAssumption
<1>3. /\ fpc \in [Sesiones -> {"libre", "cliente", "envia", "marca", "cuenta", "inserta"}]
      /\ fcl \in [Sesiones -> Drenadores] /\ falta \in [Sesiones -> Nat]
      /\ siguiente \in [Sesiones -> 1 .. MaxEventos + 1] /\ sellado \in [Sesiones -> 0 .. MaxEventos]
      /\ drenado \in [Sesiones -> 0 .. MaxEventos]
      /\ perdidos \subseteq Sesiones \X (1 .. MaxEventos)
      /\ descartados \subseteq Sesiones \X (1 .. MaxEventos)
  BY <1>1
<1>4. \A s \in Sesiones : nube[s] \in Seq(1 .. MaxEventos)
  OBVIOUS
<1>5. /\ dpc \in [Drenadores -> {"fin", "lee", "envia", "borra", "relee", "fija", "duerme"}]
      /\ \A d \in Drenadores : /\ lote[d] \subseteq Fila /\ foto[d] \subseteq Sesiones
                               /\ dpc[d] \in {"envia", "borra"} => lote[d] # {}
  OBVIOUS
<1>6. Sellos /\ Puestos
  BY <1>1, CotasAssumption DEF Sellos, Puestos, Drenadores
<1>7. QED BY <1>2, <1>3, <1>4, <1>5, <1>6, FS_EmptySet DEF TypeOK, TipoInv

\* A step of forward: the types of what it rewrites are enough.
LEMMA TipoForward ==
  ASSUME TipoInv, NEW s \in Sesiones, UNCHANGED <<flujo, drenaje, caidas, drenado>>,
         outbox' \subseteq Fila, IsFiniteSet(outbox'), orden' \in Nat, pending' \subseteq Sesiones,
         NEW p \in {"libre", "cliente", "envia", "marca", "cuenta", "inserta"}, Pasa(s, p),
         fcl' \in [Sesiones -> Drenadores], falta' \in [Sesiones -> Nat],
         siguiente' \in [Sesiones -> 1 .. MaxEventos + 1], sellado' \in [Sesiones -> 0 .. MaxEventos],
         DOMAIN nube' = Sesiones, \A x \in Sesiones : nube'[x] \in Seq(1 .. MaxEventos),
         perdidos' \subseteq Sesiones \X (1 .. MaxEventos),
         descartados' \subseteq Sesiones \X (1 .. MaxEventos),
         \A x \in Sesiones \ {s} : siguiente'[x] = siguiente[x] /\ sellado'[x] = sellado[x],
         siguiente'[s] \in {sellado'[s] + 1, sellado'[s] + 2},
         p # "libre" => siguiente'[s] = sellado'[s] + 1 /\ siguiente'[s] <= MaxEventos
  PROVE  TipoInv'
<1>1. fpc' \in [Sesiones -> {"libre", "cliente", "envia", "marca", "cuenta", "inserta"}]
  BY DEF TipoInv, TypeOK, Pasa
<1>2. fpc'[s] = p /\ \A x \in Sesiones \ {s} : fpc'[x] = fpc[x]
  BY DEF TipoInv, TypeOK, Pasa
<1>3. Sellos'
  <2>1. ASSUME NEW x \in Sesiones \ {s}
        PROVE  /\ siguiente'[x] = siguiente[x] /\ sellado'[x] = sellado[x] /\ fpc'[x] = fpc[x]
               /\ siguiente[x] \in {sellado[x] + 1, sellado[x] + 2}
               /\ fpc[x] # "libre" => siguiente[x] = sellado[x] + 1 /\ siguiente[x] <= MaxEventos
    BY <1>2 DEF TipoInv, Sellos
  <2>2. QED BY <1>2, <2>1 DEF Sellos
<1>4. Puestos'
  BY DEF TipoInv, Puestos, flujo, drenaje
<1>5. TypeOK'
  <2>1. UNCHANGED <<conexiones, vivo, cliente, dpc, lote, foto, drenado>>
    BY DEF flujo, drenaje
  <2>2. \A d \in Drenadores : /\ lote'[d] \subseteq Fila /\ foto'[d] \subseteq Sesiones
                              /\ dpc'[d] \in {"envia", "borra"} => lote'[d] # {}
    BY <2>1 DEF TipoInv, TypeOK
  <2>3. QED BY <1>1, <2>1, <2>2 DEF TipoInv, TypeOK
<1>6. QED BY <1>3, <1>4, <1>5 DEF TipoInv, drenaje

\* Events deleted from the table are events.
LEMMA Descarte ==
  ASSUME NEW b, b \subseteq Fila
  PROVE  {Evento(r) : r \in b} \subseteq Sesiones \X (1 .. MaxEventos)
BY DEF Evento, Fila
\* The rows a drop-oldest, or a prune, takes leave a smaller table.
LEMMA TablaMenor ==
  ASSUME TipoInv, NEW b, b \subseteq outbox
  PROVE  /\ outbox \ b \subseteq Fila /\ IsFiniteSet(outbox \ b) /\ Cardinality(outbox \ b) \in Nat
         /\ {Evento(r) : r \in b} \subseteq Sesiones \X (1 .. MaxEventos)
<1>1. outbox \subseteq Fila /\ IsFiniteSet(outbox) /\ outbox \ b \subseteq outbox /\ b \subseteq Fila
  BY DEF TipoInv, TypeOK
<1>2. QED BY <1>1, Descarte, FS_Subset, FS_CardinalityType

\* The caller goes on to the event after the one forward returned from.
LEMMA AlVolver ==
  ASSUME NEW s \in Sesiones, siguiente \in [Sesiones -> 1 .. MaxEventos + 1],
         sellado \in [Sesiones -> 0 .. MaxEventos],
         siguiente[s] = sellado[s] + 1, siguiente[s] <= MaxEventos,
         Retorna(s), UNCHANGED sellado
  PROVE  /\ siguiente' \in [Sesiones -> 1 .. MaxEventos + 1]
         /\ siguiente'[s] = siguiente[s] + 1 /\ siguiente'[s] = sellado'[s] + 2
         /\ \A x \in Sesiones \ {s} : siguiente'[x] = siguiente[x]
<1>1. siguiente[s] + 1 \in 1 .. MaxEventos + 1 /\ siguiente[s] + 1 = sellado[s] + 2
  BY CotasAssumption
<1>2. siguiente' = [siguiente EXCEPT ![s] = siguiente[s] + 1]
  BY DEF Retorna
<1>3. siguiente'[s] = siguiente[s] + 1 /\ \A x \in Sesiones \ {s} : siguiente'[x] = siguiente[x]
  BY <1>2
<1>4. siguiente' \in [Sesiones -> 1 .. MaxEventos + 1]
  BY <1>1, <1>2
<1>5. QED BY <1>1, <1>3, <1>4

LEMMA TipoNextForward ==
  ASSUME TipoInv, NEW s \in Sesiones, NextForward(s)
  PROVE  TipoInv'
<1>1. /\ outbox \subseteq Fila /\ IsFiniteSet(outbox) /\ orden \in Nat /\ pending \subseteq Sesiones
      /\ fcl \in [Sesiones -> Drenadores] /\ falta \in [Sesiones -> Nat]
      /\ siguiente \in [Sesiones -> 1 .. MaxEventos + 1] /\ sellado \in [Sesiones -> 0 .. MaxEventos]
      /\ DOMAIN nube = Sesiones /\ \A x \in Sesiones : nube[x] \in Seq(1 .. MaxEventos)
      /\ perdidos \subseteq Sesiones \X (1 .. MaxEventos)
      /\ descartados \subseteq Sesiones \X (1 .. MaxEventos)
  BY DEF TipoInv, TypeOK
<1> cliente \in Drenadores
  BY CotasAssumption DEF TipoInv, TypeOK, Drenadores
<1>2. /\ siguiente[s] \in 1 .. MaxEventos + 1 /\ sellado[s] \in 0 .. MaxEventos /\ falta[s] \in Nat
      /\ siguiente[s] \in {sellado[s] + 1, sellado[s] + 2}
      /\ fpc[s] # "libre" => siguiente[s] = sellado[s] + 1 /\ siguiente[s] <= MaxEventos
  BY <1>1 DEF TipoInv, Sellos
<1>3. CASE Forward(s)
  <2>1. siguiente[s] - 1 \in 0 .. MaxEventos
    BY <1>2, CotasAssumption
  <2>2. /\ sellado' \in [Sesiones -> 0 .. MaxEventos] /\ sellado'[s] = siguiente[s] - 1
        /\ \A x \in Sesiones \ {s} : sellado'[x] = sellado[x]
    BY <1>1, <1>3, <2>1 DEF Forward
  <2> DEFINE p == IF s \in pending THEN "cuenta" ELSE "cliente"
  <2>3. Pasa(s, p) /\ p \in {"cuenta", "cliente"} /\ siguiente[s] <= MaxEventos
    BY <1>3 DEF Forward
  <2> HIDE DEF p
  <2>4. UNCHANGED <<almacen, pending, flujo, fcl, falta, siguiente, drenaje, caidas,
                    nube, perdidos, descartados, drenado>>
    BY <1>3 DEF Forward
  <2>5. siguiente'[s] = sellado'[s] + 1
    BY <1>2, <2>2, <2>4
  <2>6. QED BY <1>1, <2>2, <2>3, <2>4, <2>5, TipoForward DEF almacen
<1>4. CASE CurrentClient(s)
  <2>1. fcl' \in [Sesiones -> Drenadores]
    BY <1>1, <1>4 DEF CurrentClient
  <2>2. QED BY <1>1, <1>2, <1>4, <2>1, TipoForward DEF CurrentClient, almacen
<1>5. CASE EnviaVivo(s)
  <2>1. CASE vivo /\ fcl[s] = conexiones
    <3>1. siguiente[s] \in 1 .. MaxEventos /\ Recibe(s, siguiente[s]) /\ Retorna(s)
      BY <1>2, <1>5, <2>1 DEF EnviaVivo
    <3>2. DOMAIN nube' = Sesiones /\ \A x \in Sesiones : nube'[x] \in Seq(1 .. MaxEventos)
      BY <1>1, <3>1, NubeCrece
    <3>3. UNCHANGED <<almacen, pending, flujo, fcl, sellado, falta, drenaje, caidas,
                      perdidos, descartados, drenado>>
      BY <1>5 DEF EnviaVivo
    <3>4. fpc[s] # "libre" /\ Pasa(s, "libre")
      BY <1>5, <3>1 DEF EnviaVivo, Retorna
    <3>5. /\ siguiente' \in [Sesiones -> 1 .. MaxEventos + 1] /\ siguiente'[s] = sellado'[s] + 2
          /\ \A x \in Sesiones \ {s} : siguiente'[x] = siguiente[x]
      BY <1>1, <1>2, <3>1, <3>3, <3>4, AlVolver
    <3>6. QED BY <1>1, <3>2, <3>3, <3>4, <3>5, TipoForward DEF almacen
  <2>2. CASE ~(vivo /\ fcl[s] = conexiones)
    BY <1>1, <1>2, <1>5, <2>2, TipoForward DEF EnviaVivo, almacen
  <2>3. QED BY <2>1, <2>2
<1>6. CASE MarkPending(s)
  BY <1>1, <1>2, <1>6, TipoForward DEF MarkPending, almacen
<1>7. CASE Cuenta(s)
  <2>1. PICK b \in Podas(outbox) : outbox' = outbox \ b /\ descartados' = descartados \cup {Evento(r) : r \in b}
    BY <1>7 DEF Cuenta
  <2>2. /\ outbox' \subseteq Fila /\ IsFiniteSet(outbox') /\ Cardinality(outbox') \in Nat
        /\ descartados' \subseteq Sesiones \X (1 .. MaxEventos)
    BY <1>1, <2>1, Prefijo, TablaMenor
  <2>3. falta' \in [Sesiones -> Nat]
    <3> DEFINE n == IF Cardinality(outbox') < Tope THEN 0 ELSE Cardinality(outbox') + 1 - Tope
    <3>1. n \in Nat
      BY <2>2, TopeAssumption
    <3> HIDE DEF n
    <3>2. falta' = [falta EXCEPT ![s] = n]
      BY <1>7 DEF Cuenta, n
    <3>3. QED BY <1>1, <3>1, <3>2
  <2>4. QED BY <1>1, <1>2, <1>7, <2>2, <2>3, TipoForward DEF Cuenta
<1>8. CASE Inserta(s)
  <2> DEFINE b == MasViejas(outbox, falta[s])
             n == [orden |-> orden + 1, sesion |-> s, k |-> siguiente[s]]
  <2>1. b \subseteq outbox
    BY DEF MasViejas
  <2>2. n \in Fila
    BY <1>1, <1>2, <1>8 DEF Inserta, Fila
  <2>3. outbox' = (outbox \ b) \cup {n} /\ descartados' = descartados \cup {Evento(r) : r \in b}
    BY <1>8 DEF Inserta
  <2> HIDE DEF b, n
  <2>4. /\ outbox' \subseteq Fila /\ IsFiniteSet(outbox')
        /\ descartados' \subseteq Sesiones \X (1 .. MaxEventos)
    BY <1>1, <2>1, <2>2, <2>3, TablaMenor, FS_AddElement
  <2>5. falta' \in [Sesiones -> Nat] /\ orden' \in Nat
    BY <1>1, <1>8 DEF Inserta
  <2>6. /\ siguiente' \in [Sesiones -> 1 .. MaxEventos + 1] /\ siguiente'[s] = sellado'[s] + 2
        /\ \A x \in Sesiones \ {s} : siguiente'[x] = siguiente[x]
    BY <1>1, <1>2, <1>8, AlVolver DEF Inserta
  <2>7. QED BY <1>1, <1>2, <1>8, <2>4, <2>5, <2>6, TipoForward DEF Inserta, Retorna
<1>9. CASE EnqueueFalla(s)
  <2>1. /\ outbox' \subseteq Fila /\ IsFiniteSet(outbox') /\ orden' \in Nat
        /\ descartados' \subseteq Sesiones \X (1 .. MaxEventos)
    <3>1. CASE UNCHANGED <<outbox, orden, descartados>>
      BY <1>1, <3>1
    <3>2. CASE orden' = orden + 1
               /\ outbox' = outbox \ MasViejas(outbox, falta[s])
               /\ descartados' = descartados \cup {Evento(r) : r \in MasViejas(outbox, falta[s])}
      <4> DEFINE b == MasViejas(outbox, falta[s])
      <4>1. b \subseteq outbox
        BY DEF MasViejas
      <4>2. outbox' = outbox \ b /\ descartados' = descartados \cup {Evento(r) : r \in b} /\ orden' \in Nat
        BY <1>1, <3>2
      <4> HIDE DEF b
      <4>3. QED BY <1>1, <4>1, <4>2, TablaMenor
    <3>3. QED BY <1>9, <3>1, <3>2 DEF EnqueueFalla
  <2>2. falta' \in [Sesiones -> Nat]
    BY <1>1, <1>9 DEF EnqueueFalla
  <2>3. /\ siguiente' \in [Sesiones -> 1 .. MaxEventos + 1] /\ siguiente'[s] = sellado'[s] + 2
        /\ \A x \in Sesiones \ {s} : siguiente'[x] = siguiente[x]
    BY <1>1, <1>2, <1>9, AlVolver DEF EnqueueFalla
  <2>4. perdidos' \subseteq Sesiones \X (1 .. MaxEventos)
    BY <1>1, <1>2, <1>9 DEF EnqueueFalla
  <2>5. QED BY <1>1, <1>2, <1>9, <2>1, <2>2, <2>3, <2>4, TipoForward DEF EnqueueFalla, Retorna
<1>10. QED BY <1>3, <1>4, <1>5, <1>6, <1>7, <1>8, <1>9 DEF NextForward
\* A step of a drainer, likewise.
LEMMA TipoDrenador ==
  ASSUME TipoInv, NEW d \in Drenadores, UNCHANGED <<orden, flujo, envio, caidas, perdidos>>,
         outbox' \subseteq Fila, IsFiniteSet(outbox'), pending' \subseteq Sesiones,
         NEW p \in {"fin", "lee", "envia", "borra", "relee", "fija", "duerme"}, Va(d, p),
         DOMAIN lote' = Drenadores, DOMAIN foto' = Drenadores,
         \A x \in Drenadores \ {d} : lote'[x] = lote[x] /\ foto'[x] = foto[x],
         lote'[d] \subseteq Fila, foto'[d] \subseteq Sesiones,
         p \in {"envia", "borra"} <=> lote'[d] # {},
         d = 0 => p \in {"relee", "fija", "fin"}, d > conexiones => p = "fin",
         DOMAIN nube' = Sesiones, \A x \in Sesiones : nube'[x] \in Seq(1 .. MaxEventos),
         descartados' \subseteq Sesiones \X (1 .. MaxEventos),
         drenado' \in [Sesiones -> 0 .. MaxEventos]
  PROVE  TipoInv'
<1>1. UNCHANGED <<orden, conexiones, vivo, cliente, fpc, fcl, falta, siguiente, sellado, perdidos>>
  BY DEF flujo, envio
<1>2. dpc \in [Drenadores -> {"fin", "lee", "envia", "borra", "relee", "fija", "duerme"}]
  BY DEF TipoInv, TypeOK
<1>3. /\ dpc' \in [Drenadores -> {"fin", "lee", "envia", "borra", "relee", "fija", "duerme"}]
      /\ dpc'[d] = p /\ \A x \in Drenadores \ {d} : dpc'[x] = dpc[x]
  BY <1>2 DEF Va
<1>4. ASSUME NEW x \in Drenadores
      PROVE  /\ lote'[x] \subseteq Fila /\ foto'[x] \subseteq Sesiones
             /\ dpc'[x] \in {"envia", "borra"} <=> lote'[x] # {}
             /\ x = 0 => dpc'[x] \in {"relee", "fija", "fin"}
             /\ x > conexiones => dpc'[x] = "fin"
  <2>1. CASE x = d
    BY <1>3, <2>1
  <2>2. CASE x # d
    BY <1>3, <2>2 DEF TipoInv, TypeOK, Puestos
  <2>3. QED BY <2>1, <2>2
<1>5. Puestos'
  BY <1>1, <1>4 DEF Puestos
<1>6. Sellos'
  BY <1>1 DEF TipoInv, Sellos
<1>7. TypeOK'
  BY <1>1, <1>3, <1>4 DEF TipoInv, TypeOK
<1>8. QED BY <1>5, <1>6, <1>7 DEF TipoInv

LEMMA TipoNextDrenador ==
  ASSUME TipoInv, NEW d \in Drenadores, NextDrenador(d)
  PROVE  TipoInv'
<1>1. /\ outbox \subseteq Fila /\ IsFiniteSet(outbox) /\ pending \subseteq Sesiones
      /\ DOMAIN lote = Drenadores /\ DOMAIN foto = Drenadores
      /\ DOMAIN nube = Sesiones /\ \A x \in Sesiones : nube[x] \in Seq(1 .. MaxEventos)
      /\ descartados \subseteq Sesiones \X (1 .. MaxEventos)
      /\ drenado \in [Sesiones -> 0 .. MaxEventos]
      /\ DOMAIN dpc = Drenadores
  BY DEF TipoInv, TypeOK
<1>2. /\ lote[d] \subseteq Fila /\ foto[d] \subseteq Sesiones
      /\ dpc[d] \in {"envia", "borra"} <=> lote[d] # {}
      /\ d = 0 => dpc[d] \in {"relee", "fija", "fin"}
      /\ d > conexiones => dpc[d] = "fin"
  BY DEF TipoInv, TypeOK, Puestos
<1>3. CASE Drain(d)
  <2>1. PICK fuera \in Podas(outbox) :
          outbox' = outbox \ fuera /\ descartados' = descartados \cup {Evento(r) : r \in fuera}
    BY <1>3 DEF Drain
  <2>2. /\ outbox' \subseteq Fila /\ IsFiniteSet(outbox')
        /\ descartados' \subseteq Sesiones \X (1 .. MaxEventos)
    BY <1>1, <2>1, Prefijo, TablaMenor
  <2> DEFINE b == MasViejas(outbox', Lote)
             p == IF outbox' = {} THEN "relee" ELSE "envia"
  <2>3. lote' = [lote EXCEPT ![d] = b] /\ Va(d, p)
    BY <1>3 DEF Drain
  <2>4. b \subseteq outbox'
    BY DEF MasViejas
  <2>5. outbox' # {} => b # {}
    <3> SUFFICES ASSUME outbox' # {} PROVE b # {}
      OBVIOUS
    <3>1. PICK r \in outbox' : \A q \in outbox' : ~(q.orden < r.orden)
      BY <2>2, HayPrimera
    <3>2. {q \in outbox' : q.orden < r.orden} = {}
      BY <3>1
    <3>3. r \in b
      BY <3>2, FS_EmptySet, TopeAssumption DEF MasViejas
    <3>4. QED BY <3>3
  <2> HIDE DEF b
  <2>6. (p \in {"envia", "borra"} <=> b # {}) /\ p \in {"relee", "envia"}
    BY <2>4, <2>5
  <2> HIDE DEF p
  <2>7. d # 0 /\ ~(d > conexiones)
    BY <1>2, <1>3 DEF Drain
  <2>8. QED BY <1>1, <1>2, <1>3, <2>2, <2>3, <2>4, <2>6, <2>7, TipoDrenador DEF Drain
<1>4. CASE EnviaLote(d)
  <2>1. PICK r \in lote[d] :
          IF vivo /\ d = conexiones
            THEN /\ Recibe(r.sesion, r.k) /\ Va(d, "borra")
                 /\ drenado' = [drenado EXCEPT ![r.sesion] = r.k]
                 /\ UNCHANGED lote
            ELSE /\ Va(d, "relee") /\ lote' = [lote EXCEPT ![d] = {}]
                 /\ UNCHANGED <<nube, drenado>>
    BY <1>4 DEF EnviaLote
  <2>2. r.sesion \in Sesiones /\ r.k \in 1 .. MaxEventos /\ r.k \in 0 .. MaxEventos
    BY <1>2 DEF Fila
  <2>3. d # 0 /\ ~(d > conexiones) /\ UNCHANGED <<almacen, pending, flujo, envio, foto, caidas, perdidos, descartados>>
    BY <1>2, <1>4 DEF EnviaLote
  <2>4. CASE vivo /\ d = conexiones
    <3>1. Recibe(r.sesion, r.k) /\ Va(d, "borra") /\ UNCHANGED lote
          /\ drenado' \in [Sesiones -> 0 .. MaxEventos]
      BY <1>1, <2>1, <2>2, <2>4
    <3>2. DOMAIN nube' = Sesiones /\ \A x \in Sesiones : nube'[x] \in Seq(1 .. MaxEventos)
      BY <1>1, <2>2, <3>1, NubeCrece
    <3>3. QED BY <1>1, <1>2, <2>1, <2>3, <3>1, <3>2, TipoDrenador DEF almacen
  <2>5. CASE ~(vivo /\ d = conexiones)
    BY <1>1, <1>2, <2>1, <2>3, <2>5, TipoDrenador DEF almacen
  <2>6. QED BY <2>4, <2>5
<1>5. CASE Borra(d)
  <2>1. PICK r \in lote[d] : outbox' = outbox \ {r} /\ lote' = [lote EXCEPT ![d] = lote[d] \ {r}]
    BY <1>5 DEF Borra
  <2>2. outbox' \subseteq Fila /\ IsFiniteSet(outbox')
    BY <1>1, <2>1, FS_Subset
  <2> DEFINE p == IF lote'[d] = {} THEN "lee" ELSE "envia"
  <2>3. Va(d, p)
    BY <1>5 DEF Borra
  <2>4. p \in {"lee", "envia"} /\ (p \in {"envia", "borra"} <=> lote'[d] # {})
    OBVIOUS
  <2> HIDE DEF p
  <2>5. d # 0 /\ ~(d > conexiones) /\ UNCHANGED <<orden, pending, flujo, envio, foto, caidas,
                                                nube, perdidos, descartados, drenado>>
    BY <1>2, <1>5 DEF Borra
  <2>6. /\ lote'[d] \subseteq Fila /\ DOMAIN lote' = Drenadores
        /\ \A x \in Drenadores \ {d} : lote'[x] = lote[x]
    BY <1>1, <1>2, <2>1
  <2>7. QED BY <1>1, <1>2, <2>2, <2>3, <2>4, <2>5, <2>6, TipoDrenador
<1>6. CASE LeePendientes(d)
  <2>1. {r.sesion : r \in outbox} \subseteq Sesiones
    BY <1>1 DEF Fila
  <2>2. QED BY <1>1, <1>2, <1>6, <2>1, TipoDrenador DEF LeePendientes, almacen
<1> DEFINE q == IF d = 0 THEN "fin" ELSE "duerme"
<1>7. q \in {"fin", "duerme"} /\ (d = 0 => q = "fin") /\ (Duerme(d) => Va(d, q))
  BY DEF Duerme
<1> HIDE DEF q
<1>8. CASE FijaPendientes(d)
  BY <1>1, <1>2, <1>7, <1>8, TipoDrenador DEF FijaPendientes, almacen
<1>9. CASE DrenajeFalla(d)
  BY <1>1, <1>2, <1>7, <1>9, TipoDrenador DEF DrenajeFalla, almacen
<1>10. CASE Tic(d)
  BY <1>1, <1>2, <1>10, TipoDrenador DEF Tic, almacen
<1>11. CASE Cancelado(d)
  BY <1>1, <1>2, <1>11, TipoDrenador DEF Cancelado, almacen
<1>12. QED BY <1>3, <1>4, <1>5, <1>6, <1>8, <1>9, <1>10, <1>11 DEF NextDrenador
LEMMA TipoPaso == TipoInv /\ [Next]_vars => TipoInv'
<1> SUFFICES ASSUME TipoInv, [Next]_vars PROVE TipoInv'
  OBVIOUS
<1>1. ASSUME NEW s \in Sesiones, NextForward(s) PROVE TipoInv'
  BY <1>1, TipoNextForward
<1>2. ASSUME NEW d \in Drenadores, NextDrenador(d) PROVE TipoInv'
  BY <1>2, TipoNextDrenador
<1>3. CASE Conecta
  <2>1. conexiones + 1 \in Drenadores /\ conexiones + 1 \in 0 .. MaxConexiones /\ conexiones \in Nat
    BY <1>3, CotasAssumption DEF Conecta, TipoInv, TypeOK, Drenadores
  <2>2. dpc \in [Drenadores -> {"fin", "lee", "envia", "borra", "relee", "fija", "duerme"}]
        /\ dpc[conexiones + 1] = "fin"
    BY <2>1 DEF TipoInv, TypeOK, Puestos
  <2>3. /\ dpc' \in [Drenadores -> {"fin", "lee", "envia", "borra", "relee", "fija", "duerme"}]
        /\ dpc'[conexiones + 1] = "lee" /\ \A x \in Drenadores \ {conexiones + 1} : dpc'[x] = dpc[x]
    BY <1>3, <2>1, <2>2 DEF Conecta, Va
  <2>4. UNCHANGED <<outbox, orden, pending, fpc, fcl, falta, siguiente, sellado, lote, foto, caidas,
                    nube, perdidos, descartados, drenado>>
        /\ conexiones' = conexiones + 1 /\ vivo' = TRUE /\ cliente' = conexiones + 1
    BY <1>3 DEF Conecta, almacen, envio
  <2>5. ASSUME NEW x \in Drenadores
        PROVE  /\ lote'[x] \subseteq Fila /\ foto'[x] \subseteq Sesiones
               /\ dpc'[x] \in {"envia", "borra"} <=> lote'[x] # {}
               /\ x = 0 => dpc'[x] \in {"relee", "fija", "fin"}
               /\ x > conexiones' => dpc'[x] = "fin"
    <3>1. /\ lote[x] \subseteq Fila /\ foto[x] \subseteq Sesiones
          /\ dpc[x] \in {"envia", "borra"} <=> lote[x] # {}
          /\ x = 0 => dpc[x] \in {"relee", "fija", "fin"}
          /\ x > conexiones => dpc[x] = "fin"
      BY DEF TipoInv, TypeOK, Puestos
    <3>2. CASE x = conexiones + 1
      BY <2>1, <2>2, <2>3, <2>4, <3>1, <3>2
    <3>3. CASE x # conexiones + 1
      <4>1. x > conexiones' => x > conexiones
        BY <2>1, <2>4, CotasAssumption DEF Drenadores
      <4>2. QED BY <2>3, <2>4, <3>1, <3>3, <4>1
    <3>4. QED BY <3>2, <3>3
  <2>6. Puestos'
    BY <2>5 DEF Puestos
  <2>7. Sellos'
    BY <2>4 DEF TipoInv, Sellos
  <2>8. TypeOK'
    BY <2>1, <2>3, <2>4, <2>5 DEF TipoInv, TypeOK
  <2>9. QED BY <2>4, <2>6, <2>7, <2>8 DEF TipoInv
<1>4. CASE CaeStream \/ FinRunOnce \/ UNCHANGED vars
  <2>1. /\ UNCHANGED <<outbox, orden, pending, fpc, fcl, falta, siguiente, sellado, dpc, lote, foto,
                       nube, perdidos, descartados, drenado, conexiones>>
        /\ vivo' \in {FALSE, vivo} /\ cliente' \in {0, cliente}
    BY <1>4 DEF CaeStream, FinRunOnce, vars, almacen, envio, drenaje, flujo
  <2>2. TypeOK'
    <3>1. vivo' \in BOOLEAN /\ cliente' \in {0, conexiones'}
      BY <2>1 DEF TipoInv, TypeOK
    <3>2. QED BY <2>1, <3>1 DEF TipoInv, TypeOK
  <2>3. Sellos' /\ Puestos'
    BY <2>1 DEF TipoInv, Sellos, Puestos
  <2>4. QED BY <2>1, <2>2, <2>3 DEF TipoInv
<1>5. CASE Reinicio
  <2>1. outbox \subseteq Fila /\ orden' \in {0} \cup {r.orden : r \in outbox}
    BY <1>5 DEF Reinicio, TipoInv, TypeOK
  <2>2. orden' \in Nat
    BY <2>1 DEF Fila
  <2>3. /\ siguiente' \in [Sesiones -> 1 .. MaxEventos + 1]
        /\ sellado' = [s \in Sesiones |-> siguiente'[s] - 1]
    BY <1>5 DEF Reinicio
  <2>4. sellado' \in [Sesiones -> 0 .. MaxEventos] /\ \A s \in Sesiones : siguiente'[s] = sellado'[s] + 1
    <3>1. ASSUME NEW s \in Sesiones PROVE siguiente'[s] - 1 \in 0 .. MaxEventos
                                          /\ siguiente'[s] = (siguiente'[s] - 1) + 1
      BY <2>3, CotasAssumption
    <3>2. QED BY <2>3, <3>1
  <2>5. 0 \in Drenadores /\ 0 \in Nat
    BY CotasAssumption DEF Drenadores
  <2>6. /\ UNCHANGED <<outbox, conexiones, nube, perdidos, descartados, drenado>>
        /\ pending' = {} /\ cliente' = 0 /\ vivo' = FALSE
        /\ fpc' = [s \in Sesiones |-> "libre"]
        /\ fcl' = [s \in Sesiones |-> 0] /\ falta' = [s \in Sesiones |-> 0]
        /\ dpc' = [d \in Drenadores |-> IF d = 0 THEN "relee" ELSE "fin"]
        /\ lote' = [d \in Drenadores |-> {}] /\ foto' = [d \in Drenadores |-> {}]
    BY <1>5 DEF Reinicio
  <2>7. Sellos'
    BY <2>4, <2>6 DEF Sellos
  <2>8. Puestos'
    BY <2>6, CotasAssumption DEF Puestos, Drenadores, TipoInv, TypeOK
  <2>9. TypeOK'
    <3>1. /\ fpc' \in [Sesiones -> {"libre", "cliente", "envia", "marca", "cuenta", "inserta"}]
          /\ fcl' \in [Sesiones -> Drenadores] /\ falta' \in [Sesiones -> Nat]
          /\ dpc' \in [Drenadores -> {"fin", "lee", "envia", "borra", "relee", "fija", "duerme"}]
      BY <2>5, <2>6
    <3>2. \A d \in Drenadores : /\ lote'[d] \subseteq Fila /\ foto'[d] \subseteq Sesiones
                                /\ dpc'[d] \in {"envia", "borra"} => lote'[d] # {}
      BY <2>6
    <3>3. QED BY <2>2, <2>3, <2>4, <2>6, <3>1, <3>2 DEF TipoInv, TypeOK
  <2>10. QED BY <2>6, <2>7, <2>8, <2>9 DEF TipoInv
<1>6. QED BY <1>1, <1>2, <1>3, <1>4, <1>5 DEF Next

\* Every variable keeps to its type, however forward, the drainers, the streams
\* and the restarts interleave (Adapter.forward, drainLoop, Store).
THEOREM TipoCorrecto == Spec => []TypeOK
<1>1. TipoInv => TypeOK
  BY DEF TipoInv
<1> QED BY <1>1, TipoInicial, TipoPaso, PTL DEF Spec

(***************************************************************************)
(* The order of the backlog.                                               *)
(***************************************************************************)
SinEmpates(t) == \A r, q \in t : r.orden = q.orden => r = q

EnSuOrden(t) == \A r, q \in t : r.sesion = q.sesion /\ r.orden <= q.orden => r.k <= q.k

\* A row is under the counter of the store, under the next event of its session,
\* and not before what the session has drained.
EnSuSitio(t) ==
  \A r \in t : /\ r.orden <= orden
               /\ r.k <= sellado[r.sesion] + 1
               /\ drenado[r.sesion] <= r.k

\* The batch of the stream in use, part of which may have been deleted from the
\* table meanwhile, goes before whatever else the table holds.
LoteVivo ==
  cliente # 0 =>
    /\ SinEmpates(outbox \cup lote[cliente])
    /\ EnSuOrden(outbox \cup lote[cliente])
    /\ EnSuSitio(lote[cliente])
    /\ \A r \in outbox : \A q \in lote[cliente] : r.orden <= q.orden => r \in lote[cliente]

OrdenInv ==
  /\ SinEmpates(outbox) /\ EnSuOrden(outbox) /\ EnSuSitio(outbox)
  /\ \A s \in Sesiones : drenado[s] <= sellado[s] + 1
  /\ \A d \in Drenadores : SinEmpates(lote[d])
  /\ LoteVivo

LEMMA OrdenInicial == Init => OrdenInv
<1> SUFFICES ASSUME Init PROVE OrdenInv
  OBVIOUS
<1>1. QED BY DEF Init, OrdenInv, SinEmpates, EnSuOrden, EnSuSitio, LoteVivo, Drenadores

\* What only deletes keeps the order: rows of the table, whole batches, or a row
\* of a batch that leaves the table with it.
LEMMA OrdenAlBorrar ==
  ASSUME TipoInv, OrdenInv, outbox' \subseteq outbox, orden' \in Nat, orden <= orden',
         cliente' \in {0, cliente}, UNCHANGED drenado,
         \A s \in Sesiones : sellado'[s] \in Nat /\ sellado[s] <= sellado'[s],
         \A d \in Drenadores : /\ lote'[d] \subseteq lote[d]
                               /\ (lote'[d] = {} \/ outbox' \cap lote[d] \subseteq lote'[d])
  PROVE  OrdenInv'
<1>1. \A s \in Sesiones : sellado[s] \in Nat /\ drenado[s] \in Nat
  BY DEF TipoInv, TypeOK
<1>2. orden \in Nat /\ outbox \subseteq Fila /\ cliente \in Drenadores
      /\ \A d \in Drenadores : lote[d] \subseteq Fila
  BY CotasAssumption DEF TipoInv, TypeOK, Drenadores
<1>3. SinEmpates(outbox') /\ EnSuOrden(outbox')
  BY DEF OrdenInv, SinEmpates, EnSuOrden
<1>4. ASSUME NEW t, EnSuSitio(t), t \subseteq Fila, NEW r \in t
      PROVE  r.orden <= orden' /\ r.k <= sellado'[r.sesion] + 1 /\ drenado'[r.sesion] <= r.k
  <2>1. r.orden \in Nat /\ r.k \in Nat /\ r.sesion \in Sesiones
    BY <1>4 DEF Fila
  <2>2. r.orden <= orden /\ r.k <= sellado[r.sesion] + 1 /\ drenado[r.sesion] <= r.k
    BY <1>4 DEF EnSuSitio
  <2>3. QED BY <1>1, <1>2, <2>1, <2>2
<1>5. EnSuSitio(outbox)'
  BY <1>2, <1>4 DEF OrdenInv, EnSuSitio
<1>6. \A s \in Sesiones : drenado'[s] <= sellado'[s] + 1
  BY <1>1 DEF OrdenInv
<1>7. ASSUME NEW d \in Drenadores
      PROVE  SinEmpates(lote'[d])
  <2>1. SinEmpates(lote[d]) /\ lote'[d] \subseteq lote[d]
    BY DEF OrdenInv
  <2>2. QED BY <2>1 DEF SinEmpates
<1>8. ASSUME cliente' # 0
      PROVE  LoteVivo'
  <2>1. /\ cliente' = cliente /\ cliente # 0 /\ lote'[cliente'] \subseteq lote[cliente]
        /\ (lote'[cliente'] = {} \/ outbox' \cap lote[cliente] \subseteq lote'[cliente'])
    <3>1. cliente' = cliente /\ cliente # 0 /\ cliente \in Drenadores
      BY <1>2, <1>8
    <3>2. QED BY <3>1
  <2>2. SinEmpates(outbox' \cup lote'[cliente']) /\ EnSuOrden(outbox' \cup lote'[cliente'])
    BY <2>1 DEF OrdenInv, LoteVivo, SinEmpates, EnSuOrden
  <2>3. EnSuSitio(lote[cliente])'
    BY <1>2, <1>4, <2>1 DEF OrdenInv, LoteVivo, EnSuSitio
  <2>4. \A r \in outbox' : \A q \in lote'[cliente'] : r.orden <= q.orden => r \in lote'[cliente']
    BY <2>1 DEF OrdenInv, LoteVivo
  <2>5. QED BY <2>2, <2>3, <2>4 DEF LoteVivo
<1>9. LoteVivo'
  BY <1>8 DEF LoteVivo
<1>10. QED BY <1>3, <1>5, <1>6, <1>7, <1>9 DEF OrdenInv

LEMMA OrdenNextForward ==
  ASSUME TipoInv, OrdenInv, NEW s \in Sesiones, NextForward(s)
  PROVE  OrdenInv'
<1>1. /\ orden \in Nat /\ outbox \subseteq Fila /\ cliente \in Drenadores
      /\ siguiente \in [Sesiones -> 1 .. MaxEventos + 1] /\ sellado \in [Sesiones -> 0 .. MaxEventos]
      /\ drenado \in [Sesiones -> 0 .. MaxEventos]
      /\ siguiente[s] \in {sellado[s] + 1, sellado[s] + 2}
      /\ fpc[s] # "libre" => siguiente[s] = sellado[s] + 1
      /\ \A d \in Drenadores : lote[d] \subseteq Fila
  BY CotasAssumption DEF TipoInv, TypeOK, Drenadores, Sellos
<1>2. \A x \in Sesiones : sellado[x] \in Nat /\ siguiente[x] \in Nat /\ drenado[x] \in Nat
  BY <1>1
<1>3. UNCHANGED <<cliente, drenado, lote>>
  BY DEF NextForward, Forward, CurrentClient, EnviaVivo, MarkPending, Cuenta, Inserta, EnqueueFalla,
         flujo, drenaje
<1>4. CASE Forward(s)
  <2>1. sellado' = [sellado EXCEPT ![s] = siguiente[s] - 1] /\ UNCHANGED almacen
    BY <1>4 DEF Forward
  <2>2. siguiente[s] - 1 \in Nat /\ sellado[s] <= siguiente[s] - 1
    BY <1>1, <1>2
  <2>3. \A x \in Sesiones : sellado'[x] \in Nat /\ sellado[x] <= sellado'[x]
    BY <1>1, <1>2, <2>1, <2>2
  <2>4. QED BY <1>1, <1>3, <2>1, <2>3, OrdenAlBorrar DEF almacen
<1>5. CASE CurrentClient(s) \/ EnviaVivo(s) \/ MarkPending(s)
  <2>1. UNCHANGED <<outbox, orden, sellado>>
    BY <1>5 DEF CurrentClient, EnviaVivo, MarkPending, almacen
  <2>2. QED BY <1>1, <1>2, <1>3, <2>1, OrdenAlBorrar
<1>6. CASE Cuenta(s) \/ EnqueueFalla(s)
  <2>1. /\ outbox' \subseteq outbox /\ orden' \in {orden, orden + 1} /\ UNCHANGED sellado
    BY <1>6 DEF Cuenta, EnqueueFalla
  <2>2. orden' \in Nat /\ orden <= orden'
    BY <1>1, <2>1
  <2>3. QED BY <1>1, <1>2, <1>3, <2>1, <2>2, OrdenAlBorrar
<1>7. CASE Inserta(s)
  <2> DEFINE n == [orden |-> orden + 1, sesion |-> s, k |-> siguiente[s]]
  <2>1. /\ outbox' \subseteq outbox \cup {n} /\ orden' = orden + 1 /\ UNCHANGED sellado
        /\ siguiente[s] = sellado[s] + 1
    BY <1>1, <1>7 DEF Inserta
  <2>2. n.orden = orden + 1 /\ n.sesion = s /\ n.k = sellado[s] + 1
    BY <2>1
  <2> HIDE DEF n
  <2>3. ASSUME NEW t, t \subseteq Fila, EnSuSitio(t)
        PROVE  /\ \A r \in t : ~(n.orden <= r.orden)
               /\ \A r \in t : r.sesion = n.sesion => r.k <= n.k
               /\ \A r \in t : r.orden <= orden' /\ r.k <= sellado'[r.sesion] + 1 /\ drenado'[r.sesion] <= r.k
    <3> SUFFICES ASSUME NEW r \in t
                 PROVE  /\ ~(n.orden <= r.orden) /\ (r.sesion = n.sesion => r.k <= n.k)
                        /\ r.orden <= orden' /\ r.k <= sellado'[r.sesion] + 1 /\ drenado'[r.sesion] <= r.k
      OBVIOUS
    <3>1. r.orden \in Nat /\ r.k \in Nat /\ r.orden <= orden /\ r.k <= sellado[r.sesion] + 1
          /\ drenado[r.sesion] <= r.k
      BY <2>3 DEF EnSuSitio, Fila
    <3>2. QED BY <1>1, <1>3, <2>1, <2>2, <3>1
  <2>4. ASSUME NEW t, t \subseteq Fila, EnSuSitio(t), SinEmpates(t), EnSuOrden(t),
               NEW v, v \subseteq t \cup {n}
        PROVE  SinEmpates(v) /\ EnSuOrden(v)
    <3>1. ASSUME NEW r \in v, NEW q \in v
          PROVE  /\ r.orden = q.orden => r = q
                 /\ r.sesion = q.sesion /\ r.orden <= q.orden => r.k <= q.k
      <4>1. CASE r = n /\ q = n
        BY <1>2, <2>2, <4>1
      <4>2. CASE r \in t /\ q \in t
        BY <2>4, <4>2 DEF SinEmpates, EnSuOrden
      <4>3. CASE r = n /\ q \in t
        <5>1. ~(n.orden <= q.orden) /\ q.orden \in Nat /\ n.orden \in Nat
          BY <1>1, <2>2, <2>3, <2>4, <4>3 DEF Fila
        <5>2. QED BY <4>3, <5>1
      <4>4. CASE r \in t /\ q = n
        <5>1. ~(n.orden <= r.orden) /\ (r.sesion = n.sesion => r.k <= n.k) /\ r.orden \in Nat /\ n.orden \in Nat
          BY <1>1, <2>2, <2>3, <2>4, <4>4 DEF Fila
        <5>2. QED BY <4>4, <5>1
      <4>5. QED BY <2>4, <4>1, <4>2, <4>3, <4>4
    <3>2. QED BY <3>1 DEF SinEmpates, EnSuOrden
  <2>5. SinEmpates(outbox)' /\ EnSuOrden(outbox)'
    BY <1>1, <2>1, <2>4 DEF OrdenInv, SinEmpates, EnSuOrden
  <2>6. EnSuSitio(outbox)'
    <3>1. n.orden <= orden' /\ n.k <= sellado'[n.sesion] + 1 /\ drenado'[n.sesion] <= n.k
      BY <1>1, <1>2, <1>3, <2>1, <2>2 DEF OrdenInv
    <3>2. QED BY <1>1, <2>1, <2>3, <3>1 DEF OrdenInv, EnSuSitio
  <2>7. (\A d \in Drenadores : SinEmpates(lote[d]))'
    BY <1>3 DEF OrdenInv, SinEmpates
  <2>8. ASSUME cliente # 0
        PROVE  /\ SinEmpates(outbox' \cup lote[cliente]) /\ EnSuOrden(outbox' \cup lote[cliente])
               /\ \A r \in lote[cliente] :
                    r.orden <= orden' /\ r.k <= sellado'[r.sesion] + 1 /\ drenado'[r.sesion] <= r.k
               /\ \A r \in outbox' : \A q \in lote[cliente] : r.orden <= q.orden => r \in lote[cliente]
    <3> DEFINE t == outbox \cup lote[cliente]
    <3>1. t \subseteq Fila /\ EnSuSitio(t) /\ SinEmpates(t) /\ EnSuOrden(t) /\ lote[cliente] \subseteq Fila
          /\ EnSuSitio(lote[cliente])
      BY <1>1, <2>8 DEF OrdenInv, LoteVivo, EnSuSitio
    <3>2. outbox' \cup lote[cliente] \subseteq t \cup {n}
      BY <2>1
    <3>3. \A q \in lote[cliente] : ~(n.orden <= q.orden)
      BY <2>3, <3>1
    <3>4. \A r \in outbox' : \A q \in lote[cliente] : r.orden <= q.orden => r \in lote[cliente]
      BY <2>1, <2>8, <3>3 DEF OrdenInv, LoteVivo
    <3> HIDE DEF t
    <3>5. SinEmpates(outbox' \cup lote[cliente]) /\ EnSuOrden(outbox' \cup lote[cliente])
      BY <2>4, <3>1, <3>2
    <3>6. QED BY <2>3, <3>1, <3>4, <3>5
  <2>9. LoteVivo'
    BY <1>3, <2>8 DEF LoteVivo, EnSuSitio, SinEmpates, EnSuOrden
  <2>10. \A x \in Sesiones : drenado'[x] <= sellado'[x] + 1
    BY <1>3, <2>1 DEF OrdenInv
  <2>11. QED BY <2>5, <2>6, <2>7, <2>9, <2>10 DEF OrdenInv
<1>8. QED BY <1>4, <1>5, <1>6, <1>7 DEF NextForward

LEMMA OrdenNextDrenador ==
  ASSUME TipoInv, OrdenInv, NEW d \in Drenadores, NextDrenador(d)
  PROVE  OrdenInv'
<1>1. /\ orden \in Nat /\ outbox \subseteq Fila /\ IsFiniteSet(outbox)
      /\ \A x \in Drenadores : lote[x] \subseteq Fila
      /\ DOMAIN lote = Drenadores
      /\ drenado \in [Sesiones -> 0 .. MaxEventos]
  BY DEF TipoInv, TypeOK
<1> cliente \in Drenadores
  BY CotasAssumption DEF TipoInv, TypeOK, Drenadores
<1>2. \A x \in Sesiones : sellado[x] \in Nat /\ drenado[x] \in Nat
  BY DEF TipoInv, TypeOK
<1>3. UNCHANGED <<orden, cliente, sellado>>
  BY DEF NextDrenador, Drain, EnviaLote, Borra, LeePendientes, FijaPendientes, DrenajeFalla, Tic,
         Cancelado, flujo, envio, almacen
<1>4. CASE Drain(d)
  <2>1. outbox' \subseteq outbox /\ UNCHANGED drenado /\ cliente = d
    BY <1>4 DEF Drain
  <2> DEFINE b == MasViejas(outbox', Lote)
  <2>2. lote' = [lote EXCEPT ![d] = b] /\ b \subseteq outbox'
    BY <1>4 DEF Drain, MasViejas
  <2>3. \A r \in outbox' : \A q \in b : r.orden <= q.orden => r \in b
    <3>1. outbox' \subseteq Fila /\ IsFiniteSet(outbox')
      BY <1>1, <2>1, FS_Subset
    <3>2. QED BY <3>1, LoteEsPrefijo, TopeAssumption
  <2> HIDE DEF b
  <2>4. lote'[d] = b /\ \A x \in Drenadores \ {d} : lote'[x] = lote[x]
    BY <1>1, <2>2
  <2>5. SinEmpates(outbox)' /\ EnSuOrden(outbox)' /\ EnSuSitio(outbox)'
    BY <1>3, <2>1 DEF OrdenInv, SinEmpates, EnSuOrden, EnSuSitio
  <2>6. /\ SinEmpates(b) /\ outbox' \cup b = outbox'
        /\ \A r \in b : r.orden <= orden' /\ r.k <= sellado'[r.sesion] + 1 /\ drenado'[r.sesion] <= r.k
    BY <2>2, <2>5 DEF SinEmpates, EnSuSitio
  <2>7. \A x \in Drenadores : SinEmpates(lote'[x])
    BY <2>4, <2>6 DEF OrdenInv
  <2>8. LoteVivo'
    BY <1>3, <2>1, <2>3, <2>4, <2>5, <2>6 DEF LoteVivo, SinEmpates, EnSuOrden, EnSuSitio
  <2>9. \A x \in Sesiones : drenado'[x] <= sellado'[x] + 1
    BY <1>3, <2>1 DEF OrdenInv
  <2>10. QED BY <2>5, <2>7, <2>8, <2>9 DEF OrdenInv, SinEmpates
<1>5. CASE EnviaLote(d)
  <2>1. UNCHANGED outbox /\ cliente = d
    BY <1>5 DEF EnviaLote, almacen
  <2>2. CASE vivo /\ d = conexiones
    <3>1. PICK r \in lote[d] : /\ Primera(r, lote[d]) /\ drenado' = [drenado EXCEPT ![r.sesion] = r.k]
                               /\ UNCHANGED lote
      BY <1>5, <2>2 DEF EnviaLote
    <3>2. r \in Fila /\ r.sesion \in Sesiones /\ r.k \in Nat /\ r.orden \in Nat /\ d # 0
      BY <1>1, <3>1 DEF Fila, TipoInv, Puestos
    <3>3. drenado'[r.sesion] = r.k /\ \A x \in Sesiones \ {r.sesion} : drenado'[x] = drenado[x]
      BY <1>1, <3>1, <3>2
    <3>4. ASSUME NEW q \in outbox \cup lote[d], q.sesion = r.sesion
          PROVE  r.k <= q.k
      <4>1. q \in Fila /\ q.orden \in Nat /\ q.k \in Nat
        BY <1>1, <3>4 DEF Fila
      <4>2. CASE r.orden <= q.orden
        BY <2>1, <3>1, <3>2, <3>4, <4>2 DEF OrdenInv, LoteVivo, EnSuOrden
      <4>3. CASE q.orden <= r.orden /\ q.orden # r.orden
        <5>1. q \in lote[d]
          BY <2>1, <3>1, <3>2, <3>4, <4>3 DEF OrdenInv, LoteVivo
        <5>2. QED BY <3>1, <3>2, <4>1, <4>3, <5>1 DEF Primera
      <4>4. QED BY <3>2, <4>1, <4>2, <4>3
    <3>5. ASSUME NEW q \in outbox \cup lote[d]
          PROVE  q.orden <= orden' /\ q.k <= sellado'[q.sesion] + 1 /\ drenado'[q.sesion] <= q.k
      <4>1. q.orden <= orden /\ q.k <= sellado[q.sesion] + 1 /\ drenado[q.sesion] <= q.k
            /\ q.sesion \in Sesiones
        BY <1>1, <2>1, <3>2 DEF OrdenInv, LoteVivo, EnSuSitio, Fila
      <4>2. QED BY <1>3, <3>3, <3>4, <4>1
    <3>6. EnSuSitio(outbox)'
      BY <2>1, <3>5 DEF EnSuSitio
    <3>7. LoteVivo'
      BY <1>3, <2>1, <3>1, <3>5 DEF OrdenInv, LoteVivo, EnSuSitio, SinEmpates, EnSuOrden
    <3>8. \A x \in Sesiones : drenado'[x] <= sellado'[x] + 1
      <4>1. r.k <= sellado[r.sesion] + 1
        BY <2>1, <3>1, <3>2 DEF OrdenInv, LoteVivo, EnSuSitio
      <4>2. QED BY <1>3, <3>3, <4>1 DEF OrdenInv
    <3>9. QED BY <2>1, <3>1, <3>6, <3>7, <3>8 DEF OrdenInv, SinEmpates, EnSuOrden
  <2>3. CASE ~(vivo /\ d = conexiones)
    <3>1. lote' = [lote EXCEPT ![d] = {}] /\ UNCHANGED drenado
      BY <1>5, <2>3 DEF EnviaLote
    <3>2. QED BY <1>1, <1>2, <1>3, <2>1, <3>1, OrdenAlBorrar
  <2>4. QED BY <2>2, <2>3
<1>6. CASE Borra(d)
  <2>1. PICK r \in lote[d] : outbox' = outbox \ {r} /\ lote' = [lote EXCEPT ![d] = lote[d] \ {r}]
    BY <1>6 DEF Borra
  <2>2. UNCHANGED drenado
    BY <1>6 DEF Borra
  <2>3. \A x \in Drenadores : /\ lote'[x] \subseteq lote[x]
                              /\ (lote'[x] = {} \/ outbox' \cap lote[x] \subseteq lote'[x])
    BY <1>1, <2>1
  <2>4. QED BY <1>1, <1>2, <1>3, <2>1, <2>2, <2>3, OrdenAlBorrar
<1>7. CASE LeePendientes(d) \/ FijaPendientes(d) \/ Tic(d)
  <2>1. UNCHANGED <<outbox, lote, drenado>>
    BY <1>7 DEF LeePendientes, FijaPendientes, Tic, almacen
  <2>2. QED BY <1>1, <1>2, <1>3, <2>1, OrdenAlBorrar
<1>8. CASE DrenajeFalla(d) \/ Cancelado(d)
  <2>1. UNCHANGED <<outbox, drenado>> /\ lote' = [lote EXCEPT ![d] = {}]
    BY <1>8 DEF DrenajeFalla, Cancelado, almacen
  <2>2. QED BY <1>1, <1>2, <1>3, <2>1, OrdenAlBorrar
<1>9. QED BY <1>4, <1>5, <1>6, <1>7, <1>8 DEF NextDrenador

LEMMA OrdenPaso == TipoInv /\ OrdenInv /\ [Next]_vars => OrdenInv'
<1> SUFFICES ASSUME TipoInv, OrdenInv, [Next]_vars PROVE OrdenInv'
  OBVIOUS
<1>1. /\ orden \in Nat /\ outbox \subseteq Fila /\ DOMAIN lote = Drenadores
      /\ \A x \in Sesiones : /\ sellado[x] \in 0 .. MaxEventos /\ drenado[x] \in 0 .. MaxEventos
                             /\ siguiente[x] \in {sellado[x] + 1, sellado[x] + 2}
  BY DEF TipoInv, TypeOK, Sellos
<1>2. ASSUME NEW s \in Sesiones, NextForward(s) PROVE OrdenInv'
  BY <1>2, OrdenNextForward
<1>3. ASSUME NEW d \in Drenadores, NextDrenador(d) PROVE OrdenInv'
  BY <1>3, OrdenNextDrenador
<1>4. CASE Conecta
  <2>1. UNCHANGED <<outbox, orden, sellado, drenado, lote>> /\ cliente' = conexiones + 1
    BY <1>4 DEF Conecta, almacen, envio
  <2>2. lote[conexiones + 1] = {}
    <3>1. conexiones + 1 \in Drenadores /\ conexiones + 1 > conexiones
      BY <1>4, CotasAssumption DEF Conecta, TipoInv, TypeOK, Drenadores
    <3>2. QED BY <3>1 DEF TipoInv, Puestos
  <2>3. LoteVivo'
    BY <2>1, <2>2 DEF OrdenInv, LoteVivo, SinEmpates, EnSuOrden, EnSuSitio
  <2>4. QED BY <2>1, <2>3 DEF OrdenInv, SinEmpates, EnSuOrden, EnSuSitio
<1>5. CASE CaeStream \/ FinRunOnce \/ UNCHANGED vars
  <2>1. UNCHANGED <<outbox, orden, sellado, drenado, lote>> /\ cliente' \in {0, cliente}
    BY <1>5 DEF CaeStream, FinRunOnce, vars, almacen, envio, drenaje, flujo
  <2>2. QED BY <1>1, <2>1, OrdenAlBorrar
<1>6. CASE Reinicio
  <2>1. /\ UNCHANGED <<outbox, drenado>> /\ cliente' = 0 /\ \A d \in Drenadores : lote'[d] = {}
        /\ \A r \in outbox : r.orden <= orden'
    BY <1>6 DEF Reinicio
  <2>2. /\ sellado' = [x \in Sesiones |-> siguiente'[x] - 1]
        /\ \A x \in Sesiones : siguiente'[x] \in {sellado[x] + 1, siguiente[x]}
    BY <1>6 DEF Reinicio
  <2>3. ASSUME NEW x \in Sesiones PROVE sellado'[x] \in Nat /\ sellado[x] <= sellado'[x]
    BY <1>1, <2>2
  <2>4. EnSuSitio(outbox)'
    <3> SUFFICES ASSUME NEW r \in outbox
                 PROVE  r.k <= sellado'[r.sesion] + 1
      BY <2>1 DEF OrdenInv, EnSuSitio
    <3>1. r.k \in Nat /\ r.sesion \in Sesiones /\ r.k <= sellado[r.sesion] + 1
      BY <1>1 DEF OrdenInv, EnSuSitio, Fila
    <3>2. QED BY <1>1, <2>3, <3>1
  <2>5. \A x \in Sesiones : drenado'[x] <= sellado'[x] + 1
    BY <1>1, <2>1, <2>3 DEF OrdenInv
  <2>6. QED BY <2>1, <2>4, <2>5 DEF OrdenInv, LoteVivo, SinEmpates, EnSuOrden
<1>7. QED BY <1>2, <1>3, <1>4, <1>5, <1>6 DEF Next

\* The seq of the rows of a session follows the order of its events, across the
\* drops, the failed inserts and the restarts that re-seed the counter
\* (Store.Enqueue, Store.New).
THEOREM OrdenDelBacklog == Spec => []OrdenDelOutbox
<1>1. Init => TipoInv /\ OrdenInv
  BY TipoInicial, OrdenInicial
<1>2. TipoInv /\ OrdenInv /\ [Next]_vars => (TipoInv /\ OrdenInv)'
  BY TipoPaso, OrdenPaso
<1>3. OrdenInv => OrdenDelOutbox
  BY DEF OrdenInv, EnSuOrden, OrdenDelOutbox
<1>4. QED BY <1>1, <1>2, <1>3, PTL DEF Spec

LEMMA DrenajePaso ==
  TipoInv /\ OrdenInv /\ [Next]_vars => [\A s \in Sesiones : drenado[s] <= drenado'[s]]_vars
<1> SUFFICES ASSUME TipoInv, OrdenInv, Next, NEW s \in Sesiones PROVE drenado[s] <= drenado'[s]
  OBVIOUS
<1>1. drenado \in [Sesiones -> 0 .. MaxEventos] /\ drenado[s] \in Nat
  BY DEF TipoInv, TypeOK
<1>2. CASE UNCHANGED drenado
  BY <1>1, <1>2
<1>3. ASSUME NEW d \in Drenadores, EnviaLote(d), ~UNCHANGED drenado PROVE drenado[s] <= drenado'[s]
  <2>1. PICK r \in lote[d] : drenado' = [drenado EXCEPT ![r.sesion] = r.k] /\ cliente = d
    BY <1>3 DEF EnviaLote
  <2>2. r \in Fila /\ d # 0
    BY <2>1 DEF TipoInv, TypeOK, Puestos
  <2>3. drenado[r.sesion] <= r.k /\ r.sesion \in Sesiones
    BY <2>1, <2>2 DEF OrdenInv, LoteVivo, EnSuSitio, Fila
  <2>4. QED BY <1>1, <2>1, <2>3
<1>4. UNCHANGED drenado \/ \E d \in Drenadores : EnviaLote(d)
  BY DEF Next, NextForward, NextDrenador, Forward, CurrentClient, EnviaVivo, MarkPending, Cuenta, Inserta,
         EnqueueFalla, Drain, Borra, LeePendientes, FijaPendientes, DrenajeFalla, Tic, Cancelado,
         Conecta, CaeStream, FinRunOnce, Reinicio
<1>5. QED BY <1>2, <1>3, <1>4

\* The backlog of a session is re-sent in order, whichever streams carry it: a
\* drainer that outlives its stream, a Delete that fails and a row that is drained
\* twice never bring back an event older than one already re-sent (drainOnce).
THEOREM BacklogEnOrden == Spec => DrenajeEnOrden
<1>1. Init => TipoInv /\ OrdenInv
  BY TipoInicial, OrdenInicial
<1>2. TipoInv /\ OrdenInv /\ [Next]_vars => (TipoInv /\ OrdenInv)'
  BY TipoPaso, OrdenPaso
<1>3. QED BY <1>1, <1>2, DrenajePaso, PTL DEF Spec, DrenajeEnOrden

(***************************************************************************)
(* Nothing without a trace.                                                *)
(***************************************************************************)
Rastro(s, k) ==
  \/ k \in ToSet(nube[s])
  \/ \E r \in outbox : Evento(r) = <<s, k>>
  \/ <<s, k>> \in perdidos \cup descartados

\* A drainer about to delete a row has sent it.
Enviado ==
  \A d \in Drenadores : dpc[d] = "borra" =>
    \A r \in lote[d] : Primera(r, lote[d]) => r.k \in ToSet(nube[r.sesion])

RastroInv == NadaSinRastro /\ Enviado

\* What only grows.
Historia ==
  /\ \A s \in Sesiones : ToSet(nube[s]) \subseteq ToSet(nube'[s])
  /\ perdidos \subseteq perdidos' /\ descartados \subseteq descartados'

\* A row that leaves the table is in the cloud, or is recorded.
SaleConRastro ==
  \A r \in outbox \ outbox' : r.k \in ToSet(nube'[r.sesion]) \/ Evento(r) \in descartados'

LEMMA RastroQueda ==
  ASSUME Historia, SaleConRastro, NEW s \in Sesiones, NEW k, Rastro(s, k)
  PROVE  Rastro(s, k)'
<1>1. CASE k \in ToSet(nube[s])
  BY <1>1 DEF Rastro, Historia
<1>2. CASE <<s, k>> \in perdidos \cup descartados
  BY <1>2 DEF Rastro, Historia
<1>3. ASSUME NEW r \in outbox, Evento(r) = <<s, k>> PROVE Rastro(s, k)'
  <2>1. r.sesion = s /\ r.k = k
    BY <1>3 DEF Evento
  <2>2. CASE r \in outbox'
    BY <1>3, <2>2 DEF Rastro, Evento
  <2>3. CASE r \notin outbox'
    BY <1>3, <2>1, <2>3 DEF Rastro, SaleConRastro
  <2>4. QED BY <2>2, <2>3
<1>4. QED BY <1>1, <1>2, <1>3 DEF Rastro

\* A step after which the events handed over are those of before, with at most
\* one more that has a trace too.
LEMMA RastroAvanza ==
  ASSUME NadaSinRastro, Historia, SaleConRastro,
         \A s \in Sesiones : /\ siguiente[s] \in Nat /\ siguiente'[s] \in Nat
                             /\ (siguiente'[s] <= siguiente[s]
                                 \/ (siguiente'[s] = siguiente[s] + 1 /\ \E k : k = siguiente[s] /\ Rastro(s, k)'))
  PROVE  NadaSinRastro'
<1> SUFFICES ASSUME NEW s \in Sesiones, NEW k \in 1 .. siguiente'[s] - 1 PROVE Rastro(s, k)'
  BY DEF NadaSinRastro, Rastro
<1>1. CASE k \in 1 .. siguiente[s] - 1
  BY <1>1, RastroQueda DEF NadaSinRastro, Rastro
<1>2. CASE k \notin 1 .. siguiente[s] - 1
  <2>1. k = siguiente[s] /\ siguiente'[s] = siguiente[s] + 1
    BY <1>2
  <2>2. PICK q : q = siguiente[s] /\ Rastro(s, q)'
    BY <2>1
  <2>3. QED BY <2>1, <2>2
<1>3. QED BY <1>1, <1>2

LEMMA RastroNextForward ==
  ASSUME TipoInv, RastroInv, NEW s \in Sesiones, NextForward(s)
  PROVE  RastroInv'
<1>1. /\ siguiente \in [Sesiones -> 1 .. MaxEventos + 1] /\ \A x \in Sesiones : siguiente[x] \in Nat
      /\ fpc[s] # "libre" => siguiente[s] \in 1 .. MaxEventos
      /\ DOMAIN nube = Sesiones /\ \A x \in Sesiones : nube[x] \in Seq(1 .. MaxEventos)
  BY DEF TipoInv, TypeOK, Sellos
<1>2. UNCHANGED <<dpc, lote>>
  BY DEF NextForward, Forward, CurrentClient, EnviaVivo, MarkPending, Cuenta, Inserta, EnqueueFalla,
         drenaje
<1>3. ASSUME UNCHANGED siguiente, UNCHANGED outbox, UNCHANGED <<nube, perdidos, descartados>>
      PROVE  Historia /\ NadaSinRastro'
  BY <1>1, <1>3, RastroAvanza DEF Historia, SaleConRastro, RastroInv
<1>4. Retorna(s) => \A x \in Sesiones : /\ siguiente'[x] \in Nat
                                        /\ x # s => siguiente'[x] = siguiente[x]
                                        /\ x = s => siguiente'[x] = siguiente[x] + 1
  BY <1>1 DEF Retorna
<1>5. Historia /\ NadaSinRastro'
  <2>1. CASE Forward(s) \/ CurrentClient(s) \/ MarkPending(s)
    BY <1>3, <2>1 DEF Forward, CurrentClient, MarkPending, almacen
  <2>2. CASE EnviaVivo(s)
    <3>1. CASE vivo /\ fcl[s] = conexiones
      <4>1. Recibe(s, siguiente[s]) /\ Retorna(s) /\ siguiente[s] \in 1 .. MaxEventos
            /\ UNCHANGED <<outbox, perdidos, descartados>>
        BY <1>1, <2>2, <3>1 DEF EnviaVivo, almacen
      <4>2. Historia /\ siguiente[s] \in ToSet(nube'[s])
        BY <1>1, <4>1, NubeCrece DEF Historia
      <4>3. \E k : k = siguiente[s] /\ Rastro(s, k)'
        BY <4>2 DEF Rastro
      <4>4. QED BY <1>1, <1>4, <4>1, <4>2, <4>3, RastroAvanza DEF SaleConRastro, RastroInv
    <3>2. CASE ~(vivo /\ fcl[s] = conexiones)
      BY <1>3, <2>2, <3>2 DEF EnviaVivo, almacen
    <3>3. QED BY <3>1, <3>2
  <2>3. CASE Cuenta(s)
    <3>1. PICK b \in Podas(outbox) : outbox' = outbox \ b /\ descartados' = descartados \cup {Evento(r) : r \in b}
      BY <2>3 DEF Cuenta
    <3>2. Historia /\ SaleConRastro
      BY <2>3, <3>1 DEF Cuenta, Historia, SaleConRastro
    <3>3. QED BY <1>1, <2>3, <3>2, RastroAvanza DEF Cuenta, RastroInv
  <2>4. CASE Inserta(s)
    <3> DEFINE b == MasViejas(outbox, falta[s])
               n == [orden |-> orden + 1, sesion |-> s, k |-> siguiente[s]]
    <3>1. outbox' = (outbox \ b) \cup {n} /\ descartados' = descartados \cup {Evento(r) : r \in b}
          /\ UNCHANGED <<nube, perdidos>> /\ Retorna(s)
      BY <2>4 DEF Inserta
    <3>2. Evento(n) = <<s, siguiente[s]>>
      BY DEF Evento
    <3> HIDE DEF b, n
    <3>3. Historia /\ SaleConRastro
      BY <3>1 DEF Historia, SaleConRastro
    <3>4. \E k : k = siguiente[s] /\ Rastro(s, k)'
      BY <3>1, <3>2 DEF Rastro, Evento
    <3>5. QED BY <1>1, <1>4, <3>1, <3>3, <3>4, RastroAvanza DEF RastroInv
  <2>5. CASE EnqueueFalla(s)
    <3>1. /\ perdidos' = perdidos \cup {<<s, siguiente[s]>>} /\ Retorna(s) /\ UNCHANGED nube
          /\ UNCHANGED <<outbox, descartados>>
             \/ \E b : /\ outbox' = outbox \ b
                       /\ descartados' = descartados \cup {Evento(r) : r \in b}
      BY <2>5 DEF EnqueueFalla
    <3>2. Historia /\ SaleConRastro
      BY <3>1 DEF Historia, SaleConRastro
    <3>3. \E k : k = siguiente[s] /\ Rastro(s, k)'
      BY <3>1 DEF Rastro
    <3>4. QED BY <1>1, <1>4, <3>1, <3>2, <3>3, RastroAvanza DEF RastroInv
  <2>6. QED BY <2>1, <2>2, <2>3, <2>4, <2>5 DEF NextForward
<1>6. Enviado'
  <2>1. \A d \in Drenadores : lote[d] \subseteq Fila
    BY DEF TipoInv, TypeOK
  <2>2. QED BY <1>2, <1>5, <2>1 DEF RastroInv, Enviado, Historia, Fila
<1>7. QED BY <1>5, <1>6 DEF RastroInv

LEMMA RastroNextDrenador ==
  ASSUME TipoInv, OrdenInv, RastroInv, NEW d \in Drenadores, NextDrenador(d)
  PROVE  RastroInv'
<1>1. /\ \A x \in Sesiones : siguiente[x] \in Nat
      /\ DOMAIN nube = Sesiones /\ \A x \in Sesiones : nube[x] \in Seq(1 .. MaxEventos)
      /\ DOMAIN dpc = Drenadores /\ DOMAIN lote = Drenadores
      /\ \A x \in Drenadores : lote[x] \subseteq Fila
  BY DEF TipoInv, TypeOK
<1>2. UNCHANGED <<siguiente, perdidos>>
  BY DEF NextDrenador, Drain, EnviaLote, Borra, LeePendientes, FijaPendientes, DrenajeFalla, Tic,
         Cancelado, envio
<1>3. \A x \in Drenadores \ {d} : dpc'[x] = dpc[x] /\ lote'[x] = lote[x]
  BY <1>1 DEF NextDrenador, Drain, EnviaLote, Borra, LeePendientes, FijaPendientes, DrenajeFalla, Tic,
         Cancelado, Va, Duerme
<1>4. ASSUME Historia, SaleConRastro,
             dpc'[d] = "borra" => \A r \in lote'[d] : Primera(r, lote'[d]) => r.k \in ToSet(nube'[r.sesion])
      PROVE  RastroInv'
  <2>1. NadaSinRastro'
    BY <1>1, <1>2, <1>4, RastroAvanza DEF RastroInv
  <2>2. ASSUME NEW x \in Drenadores, dpc'[x] = "borra", NEW r \in lote'[x], Primera(r, lote'[x])
        PROVE  r.k \in ToSet(nube'[r.sesion])
    <3>1. CASE x = d
      BY <1>4, <2>2, <3>1
    <3>2. CASE x # d
      BY <1>1, <1>3, <1>4, <2>2, <3>2 DEF RastroInv, Enviado, Historia, Fila
    <3>3. QED BY <3>1, <3>2
  <2>3. QED BY <2>1, <2>2 DEF RastroInv, Enviado
<1>5. CASE Drain(d)
  <2>1. PICK b \in Podas(outbox) : outbox' = outbox \ b /\ descartados' = descartados \cup {Evento(r) : r \in b}
    BY <1>5 DEF Drain
  <2>2. Historia /\ SaleConRastro
    BY <1>2, <1>5, <2>1 DEF Drain, Historia, SaleConRastro
  <2>3. dpc'[d] # "borra"
    BY <1>1, <1>5 DEF Drain, Va
  <2>4. QED BY <1>4, <2>2, <2>3
<1>6. CASE EnviaLote(d)
  <2>1. UNCHANGED <<outbox, descartados>>
    BY <1>6 DEF EnviaLote, almacen
  <2>2. CASE vivo /\ d = conexiones
    <3>1. PICK r \in lote[d] : Primera(r, lote[d]) /\ Recibe(r.sesion, r.k) /\ UNCHANGED lote
      BY <1>6, <2>2 DEF EnviaLote
    <3>2. r.sesion \in Sesiones /\ r.k \in 1 .. MaxEventos
      BY <1>1, <3>1 DEF Fila
    <3>3. Historia /\ r.k \in ToSet(nube'[r.sesion])
      BY <1>1, <1>2, <2>1, <3>1, <3>2, NubeCrece DEF Historia
    <3>4. ASSUME NEW q \in lote[d], Primera(q, lote[d]) PROVE q = r
      <4>1. q.orden <= r.orden /\ r.orden <= q.orden /\ q.orden \in Nat /\ r.orden \in Nat
        BY <1>1, <3>1, <3>4 DEF Primera, Fila
      <4>2. QED BY <3>1, <3>4, <4>1 DEF OrdenInv, SinEmpates
    <3>5. QED BY <1>4, <2>1, <3>1, <3>3, <3>4 DEF SaleConRastro
  <2>3. CASE ~(vivo /\ d = conexiones)
    <3>1. UNCHANGED nube /\ Va(d, "relee")
      BY <1>6, <2>3 DEF EnviaLote
    <3>2. QED BY <1>1, <1>2, <1>4, <2>1, <3>1 DEF Va, Historia, SaleConRastro
  <2>4. QED BY <2>2, <2>3
<1>7. CASE Borra(d)
  <2>1. PICK r \in lote[d] : Primera(r, lote[d]) /\ outbox' = outbox \ {r}
    BY <1>7 DEF Borra
  <2>2. r.k \in ToSet(nube[r.sesion])
    BY <1>7, <2>1 DEF Borra, RastroInv, Enviado
  <2>3. dpc'[d] # "borra" /\ UNCHANGED <<nube, descartados>>
    BY <1>1, <1>7 DEF Borra, Va
  <2>4. QED BY <1>2, <1>4, <2>1, <2>2, <2>3 DEF Historia, SaleConRastro
<1>8. CASE LeePendientes(d) \/ FijaPendientes(d) \/ DrenajeFalla(d) \/ Tic(d) \/ Cancelado(d)
  <2>1. UNCHANGED <<outbox, nube, descartados>> /\ dpc'[d] # "borra"
    BY <1>1, <1>8 DEF LeePendientes, FijaPendientes, DrenajeFalla, Tic, Cancelado, almacen, Va, Duerme
  <2>2. QED BY <1>2, <1>4, <2>1 DEF Historia, SaleConRastro
<1>9. QED BY <1>5, <1>6, <1>7, <1>8 DEF NextDrenador

LEMMA RastroPaso == TipoInv /\ OrdenInv /\ RastroInv /\ [Next]_vars => RastroInv'
<1> SUFFICES ASSUME TipoInv, OrdenInv, RastroInv, [Next]_vars PROVE RastroInv'
  OBVIOUS
<1>1. \A s \in Sesiones : siguiente[s] \in Nat /\ sellado[s] \in Nat
                          /\ siguiente[s] \in {sellado[s] + 1, sellado[s] + 2}
  BY DEF TipoInv, TypeOK, Sellos
<1>2. ASSUME NEW s \in Sesiones, NextForward(s) PROVE RastroInv'
  BY <1>2, RastroNextForward
<1>3. ASSUME NEW d \in Drenadores, NextDrenador(d) PROVE RastroInv'
  BY <1>3, RastroNextDrenador
<1>4. CASE Conecta \/ CaeStream \/ FinRunOnce \/ UNCHANGED vars
  <2>1. UNCHANGED <<outbox, nube, perdidos, descartados, siguiente, lote>>
    BY <1>4 DEF Conecta, CaeStream, FinRunOnce, vars, almacen, envio, drenaje
  <2>2. NadaSinRastro'
    BY <1>1, <2>1, RastroAvanza DEF RastroInv, Historia, SaleConRastro
  <2>3. \A d \in Drenadores : dpc'[d] = "borra" => dpc[d] = "borra"
    BY <1>4 DEF Conecta, CaeStream, FinRunOnce, vars, drenaje, Va, TipoInv, TypeOK
  <2>4. QED BY <2>1, <2>2, <2>3 DEF RastroInv, Enviado
<1>5. CASE Reinicio
  <2>1. /\ UNCHANGED <<outbox, nube, perdidos, descartados>>
        /\ \A s \in Sesiones : siguiente'[s] \in {sellado[s] + 1, siguiente[s]}
        /\ \A d \in Drenadores : dpc'[d] # "borra"
    BY <1>5 DEF Reinicio
  <2>2. NadaSinRastro'
    <3>1. \A s \in Sesiones : siguiente'[s] \in Nat /\ siguiente'[s] <= siguiente[s]
      BY <1>1, <2>1
    <3>2. QED BY <1>1, <2>1, <3>1, RastroAvanza DEF RastroInv, Historia, SaleConRastro
  <2>3. QED BY <2>1, <2>2 DEF RastroInv, Enviado
<1>6. QED BY <1>2, <1>3, <1>4, <1>5 DEF Next

\* No event whose forward returned disappears without a trace: it is in the cloud
\* or in the outbox, or the log tells that it was lost or dropped, whatever
\* drainers overlap and whenever the process dies (forward, drainOnce, enqueue).
THEOREM Rastreable == Spec => []NadaSinRastro
<1>1. Init => RastroInv
  BY DEF Init, RastroInv, NadaSinRastro, Enviado
<1>2. Init => TipoInv /\ OrdenInv /\ RastroInv
  BY <1>1, TipoInicial, OrdenInicial
<1>3. TipoInv /\ OrdenInv /\ RastroInv /\ [Next]_vars => (TipoInv /\ OrdenInv /\ RastroInv)'
  BY TipoPaso, OrdenPaso, RastroPaso
<1>4. RastroInv => NadaSinRastro
  BY DEF RastroInv
<1>5. QED BY <1>2, <1>3, <1>4, PTL DEF Spec
=============================================================================
