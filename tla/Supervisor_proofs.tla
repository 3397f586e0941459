------------------------- MODULE Supervisor_proofs -------------------------
(***************************************************************************)
(* Stop wins, for any number of children, watchers, commands and deaths.   *)
(***************************************************************************)
EXTENDS Supervisor, TLAPS

(***************************************************************************)
(* Start keeps the mutex from the moment it lowers stopping until it       *)
(* adopts: whoever finds it waiting for readiness finds stopping down.     *)
(***************************************************************************)
StartAlMando == mando.paso = "arranca" => ~stopping

\* What the waits of Start and Stop, the processes, the threads and Status do to
\* the fields that say who is in command.
LEMMA EnMando ==
  ASSUME StartAlMando, [Next]_vars
  PROVE  StartAlMando' /\ (stopping /\ stopping' => lanzados' = lanzados /\ p' \in {0, p})
<1>1. ASSUME NEW c \in Hijos, Muere(c) \/ Kill(c) \/ Recoge(c)
      PROVE  StartAlMando' /\ UNCHANGED <<lanzados, p>>
  BY <1>1 DEF Muere, Kill, Recoge, StartAlMando, puerta
<1>2. CASE StartIdempotente
  <2>1. stopping' = FALSE \/ UNCHANGED stopping
    BY <1>2 DEF StartIdempotente, Vigila, puerta
  <2> QED  BY <1>2, <2>1 DEF StartIdempotente, StartAlMando
<1>3. CASE Start
  BY <1>3 DEF Start, StartAlMando
<1>4. CASE StartReady \/ StartFalla \/ StartDesiste
  BY <1>4 DEF StartReady, StartFalla, StartDesiste, AdoptLocked, StartAlMando, puerta, Libre
<1>5. CASE Stop
  BY <1>5 DEF Stop, StartAlMando
<1>6. CASE StopPorPid
  BY <1>6 DEF StopPorPid, StartAlMando, Manda, SinCandado, Libre
<1>7. CASE StopTermina \/ StopPidTermina
  BY <1>7 DEF StopTermina, StopPidTermina, StartAlMando, puerta, Libre
<1>8. CASE Status
  BY <1>8 DEF Status, Limpia, StartAlMando, puerta
<1>9. ASSUME NEW h \in Hilos, NextHilo(h)
      PROVE  StartAlMando' /\ (stopping => lanzados' = lanzados /\ p' \in {0, p})
  <2>1. CASE TrasSalida(h)
    BY <2>1 DEF TrasSalida, StartAlMando, puerta
  <2>2. CASE Despierta(h) \/ SondeaReady(h) \/ SondeaFalla(h)
    BY <2>2 DEF Despierta, SondeaReady, SondeaFalla, StartAlMando, puerta
  <2>3. CASE Relanza(h)
    BY <2>3 DEF Relanza, Relevado, StartAlMando, puerta
  <2>4. CASE NoRelanza(h)
    BY <2>4 DEF NoRelanza, Relevado, StartAlMando, puerta
  <2>5. CASE Vuelve(h) \/ Sobra(h) \/ VigiaAcaba(h)
    BY <2>5 DEF Vuelve, Sobra, VigiaAcaba, StartAlMando, puerta
  <2>6. CASE Adopta(h)
    BY <2>6 DEF Adopta, Relevado, StartAlMando, puerta
  <2> QED  BY <1>9, <2>1, <2>2, <2>3, <2>4, <2>5, <2>6 DEF NextHilo
<1>10. CASE Reinicio
  BY <1>10 DEF Reinicio, StartAlMando
<1>11. CASE UNCHANGED vars
  BY <1>11 DEF vars, puerta, StartAlMando
<1> QED
  BY <1>1, <1>2, <1>3, <1>4, <1>5, <1>6, <1>7, <1>8, <1>9, <1>10, <1>11 DEF Next, NextMando

\* Until the next Start, no restart launches or adopts a child, whatever was on
\* its way when Stop came.
THEOREM StopMasFuerte == Spec => StopGana
<1>1. Init => StartAlMando
  BY DEF Init, StartAlMando, Libre
<1>2. StartAlMando /\ [Next]_vars => StartAlMando'
  BY EnMando
<1>3. StartAlMando /\ [Next]_vars
        => [stopping /\ stopping' => lanzados' = lanzados /\ p' \in {0, p}]_vars
  BY EnMando
<1> QED  BY <1>1, <1>2, <1>3, PTL DEF Spec, StopGana
-----------------------------------------------------------------------------
(***************************************************************************)
(* Types and marks.  A child that has not been launched has no thread yet: *)
(* without that the new reaper could be the restart loop that holds the    *)
(* mark.                                                                   *)
(***************************************************************************)
SinHilo == \A c \in Hijos : c > lanzados => pc[c] = "fin"

TipoInv == Tipos /\ Marcas /\ SinHilo

\* One watcher at a time: its mark may come down when it leaves.
UnVigia ==
  \A h, k \in Hilos : pc[h] = "vigila" /\ pc[k] = "vigila" => h = k /\ h \in Vigias

\* A launch, whoever makes it.
LEMMA LanzaTipo ==
  ASSUME TipoInv, NEW g \in 0 .. generaciones', Lanza(g)
  PROVE  /\ lanzados' = lanzados + 1 /\ lanzados' \in Hijos
         /\ estado' \in [Hijos -> {"nunca", "vivo", "avisado", "zombi", "muerto"}]
         /\ pidfile' = lanzados'
  BY CotasAssumption DEF TipoInv, Tipos, Lanza, Hijos

LEMMA Ensancha ==
  ASSUME NEW S, NEW m \in Nat, NEW n \in Nat, m <= n, NEW f \in [S -> 0 .. m]
  PROVE  /\ f \in [S -> 0 .. n]
         /\ \A i, x : x \in 0 .. n => [f EXCEPT ![i] = x] \in [S -> 0 .. n]
<1>1. \A s \in S : f[s] \in 0 .. n
  OBVIOUS
<1> QED  BY <1>1

\* A thread on its way goes on, and is not one of a child not yet launched.
LEMMA Avanza ==
  ASSUME TipoInv, NEW h \in Hilos, pc[h] # "fin", NEW l, Va(h, l), UNCHANGED lanzados
  PROVE  SinHilo'
<1> SUFFICES ASSUME NEW c \in Hijos, c > lanzados
             PROVE  pc'[c] = "fin"
  BY DEF SinHilo
<1>1. pc[c] = "fin"
  BY DEF TipoInv, SinHilo
<1>2. c \in Hilos
  BY CotasAssumption DEF Hijos, Hilos
<1> QED  BY <1>1, <1>2 DEF TipoInv, Tipos, Va

\* Nobody becomes a watcher but through Start.
LEMMA UnVigiaPaso == TipoInv /\ UnVigia /\ [Next]_vars => UnVigia'
<1> SUFFICES ASSUME TipoInv, UnVigia, [Next]_vars PROVE UnVigia'
  OBVIOUS
<1>1. CASE StartIdempotente
  <2>1. CASE UNCHANGED hilos
    BY <2>1 DEF hilos, UnVigia
  <2>2. CASE ~vigiaAdoptado /\ Vigila
    BY <2>2 DEF Vigila, Va, TipoInv, Tipos, Marcas, UnVigia, Vigias
  <2> QED  BY <1>1, <2>1, <2>2 DEF StartIdempotente, Vigila
<1>2. ASSUME \A k \in Hilos : pc'[k] = "vigila" => pc[k] = "vigila"
      PROVE  UnVigia'
  BY <1>2 DEF UnVigia
<1>3. ASSUME NEW c \in Hijos, Muere(c) \/ Kill(c) \/ Recoge(c)
      PROVE  UnVigia'
  BY <1>2, <1>3 DEF Muere, Kill, Recoge, TipoInv, Tipos, Vigias, hilos
<1>4. CASE Start
  BY <1>2, <1>4 DEF Start, Va, TipoInv, Tipos, Vigias
<1>5. CASE StartReady \/ StartFalla \/ StartDesiste \/ Stop \/ StopPorPid
  BY <1>2, <1>5 DEF StartReady, StartFalla, StartDesiste, Stop, StopPorPid, hilos
<1>6. CASE StopTermina \/ StopPidTermina \/ Status
  BY <1>2, <1>6 DEF StopTermina, StopPidTermina, Status, hilos
<1>7. ASSUME NEW h \in Hilos, NextHilo(h)
      PROVE  UnVigia'
  <2>1. ASSUME NEW l, l # "vigila", Va(h, l)
        PROVE  UnVigia'
    BY <1>2, <2>1 DEF Va, TipoInv, Tipos, Vigias
  <2>2. CASE TrasSalida(h) \/ Despierta(h)
    BY <2>1, <2>2 DEF TrasSalida, Despierta
  <2>3. CASE Relanza(h)
    BY <1>2, <2>3 DEF Relanza, TipoInv, Tipos, Vigias
  <2>4. CASE NoRelanza(h)
    BY <2>1, <2>4 DEF NoRelanza
  <2>5. CASE SondeaReady(h) \/ SondeaFalla(h)
    BY <2>1, <2>5 DEF SondeaReady, SondeaFalla
  <2>6. CASE Vuelve(h) \/ Sobra(h)
    BY <2>1, <2>6 DEF Vuelve, Sobra
  <2>7. CASE Adopta(h) \/ VigiaAcaba(h)
    BY <2>1, <2>7 DEF Adopta, VigiaAcaba
  <2> QED  BY <1>7, <2>2, <2>3, <2>4, <2>5, <2>6, <2>7 DEF NextHilo
<1>8. CASE Reinicio \/ UNCHANGED vars
  BY <1>2, <1>8 DEF Reinicio, vars, hilos, Vigias
<1> QED  BY <1>1, <1>3, <1>4, <1>5, <1>6, <1>7, <1>8 DEF Next, NextMando

LEMMA TipoPaso == TipoInv /\ UnVigia /\ [Next]_vars => TipoInv'
<1> SUFFICES ASSUME TipoInv, UnVigia, [Next]_vars PROVE TipoInv'
  OBVIOUS
<1> USE CotasAssumption
<1>1. ASSUME NEW c \in Hijos, Muere(c) \/ Kill(c)
      PROVE  TipoInv'
  BY <1>1 DEF Muere, Kill, TrasMuerte, TipoInv, Tipos, Marcas, SinHilo, EnTramo, puerta, hilos, cotas
<1>2. ASSUME NEW c \in Hijos, Recoge(c)
      PROVE  TipoInv'
  <2>1. Tipos'
    BY <1>2 DEF Recoge, TipoInv, Tipos, Hijos, Hilos, puerta, cotas
  <2>2. Marcas'
    BY <1>2 DEF Recoge, TipoInv, Tipos, Marcas, EnTramo, Hijos, Hilos, Vigias, puerta
  <2>3. SinHilo'
    BY <1>2 DEF Recoge, TipoInv, Tipos, SinHilo, Hijos, Hilos
  <2> QED  BY <2>1, <2>2, <2>3 DEF TipoInv
<1>3. CASE StartIdempotente
  <2>1. CASE UNCHANGED <<puerta, vigiaAdoptado, hilos>>
    BY <1>3, <2>1 DEF StartIdempotente, Manda, TipoInv, Tipos, Marcas, SinHilo, EnTramo,
                      procesos, puerta, hilos
  <2>2. CASE ~vigiaAdoptado /\ Vigila
    <3>1. Corre \in 0 .. lanzados
      BY DEF TipoInv, Tipos, Corre
    <3>2. PICK h \in Vigias :
            /\ pc[h] = "fin" /\ Va(h, "vigila")
            /\ stopping' = FALSE /\ vigiaAdoptado' = TRUE
            /\ generaciones' = IF stopCh = 0 THEN generaciones + 1 ELSE generaciones
            /\ stopCh' = generaciones'
            /\ gate' = [gate EXCEPT ![h] = stopCh']
            /\ hijo' = [hijo EXCEPT ![h] = Corre]
      BY <2>2 DEF Vigila
    <3>3. generaciones' \in Nat /\ generaciones <= generaciones'
      BY <3>2 DEF TipoInv, Tipos
    <3>4. Tipos'
      <4>1. gate' \in [Hilos -> 0 .. generaciones']
        BY <3>2, <3>3, Ensancha DEF TipoInv, Tipos
      <4>2. hijo' \in [Hilos -> 0 .. lanzados]
        BY <3>1, <3>2 DEF TipoInv, Tipos
      <4>3. pc' \in [Hilos -> {"fin", "wait", "vigila", "salida", "backoff", "sondea", "cierra",
                               "lista", "sobra"}]
        BY <3>2 DEF TipoInv, Tipos, Va
      <4>4. stopping' \in BOOLEAN /\ relanzando' \in BOOLEAN /\ vigiaAdoptado' \in BOOLEAN
        BY <1>3, <3>2 DEF StartIdempotente, TipoInv, Tipos
      <4>5. mandos' \in Nat /\ caidas' \in Nat
        BY <1>3 DEF StartIdempotente, Manda, TipoInv, Tipos
      <4>6. UNCHANGED <<estado, restartable, pidfile, p, mando, lanzados>>
        BY <1>3 DEF StartIdempotente, procesos
      <4> QED  BY <3>2, <3>3, <4>1, <4>2, <4>3, <4>4, <4>5, <4>6 DEF TipoInv, Tipos
    <3>5. Marcas'
      BY <1>3, <3>2 DEF StartIdempotente, TipoInv, Tipos, Marcas, EnTramo, Va, Vigias
    <3>6. SinHilo'
      BY <1>3, <3>2 DEF StartIdempotente, TipoInv, Tipos, SinHilo, Va, Vigias
    <3> QED  BY <3>4, <3>5, <3>6 DEF TipoInv
  <2> QED  BY <1>3, <2>1, <2>2 DEF StartIdempotente, Vigila
<1>4. CASE Start
  <2>1. generaciones' = generaciones + 1 /\ generaciones' \in Nat /\ generaciones + 1 \in 0 .. generaciones'
    BY <1>4 DEF Start, TipoInv, Tipos
  <2>2. CASE Lanza(generaciones + 1) /\ Va(lanzados + 1, "wait")
             /\ mando' = [paso |-> "arranca", hijo |-> lanzados + 1]
    <3>1. /\ lanzados' = lanzados + 1 /\ lanzados' \in Hijos
          /\ estado' \in [Hijos -> {"nunca", "vivo", "avisado", "zombi", "muerto"}]
          /\ pidfile' = lanzados'
      BY <2>1, <2>2, LanzaTipo
    <3>2. pc[lanzados'] = "fin"
      BY <3>1 DEF TipoInv, Tipos, SinHilo
    <3>3. Tipos'
      <4>1. gate' \in [Hilos -> 0 .. generaciones']
        BY <2>1, <2>2, Ensancha DEF TipoInv, Tipos, Lanza
      <4>2. hijo' \in [Hilos -> 0 .. lanzados']
        BY <1>4, <3>1, Ensancha DEF Start, TipoInv, Tipos
      <4>3. mando' \in [paso : {"libre", "arranca", "desiste", "para", "paraPid"},
                        hijo : 0 .. lanzados']
        BY <2>2, <3>1 DEF TipoInv, Tipos
      <4>4. lanzados' \in 0 .. MaxHijos
        BY <3>1 DEF Hijos
      <4>5. pc' \in [Hilos -> {"fin", "wait", "vigila", "salida", "backoff", "sondea", "cierra",
                               "lista", "sobra"}]
        BY <2>2 DEF TipoInv, Tipos, Va
      <4>6. stopping' \in BOOLEAN /\ relanzando' \in BOOLEAN /\ vigiaAdoptado' \in BOOLEAN
        BY <1>4 DEF Start, TipoInv, Tipos
      <4>7. mandos' \in Nat /\ caidas' \in Nat
        BY <1>4 DEF Start, Manda, TipoInv, Tipos
      <4>8. pidfile' \in 0 .. lanzados' /\ p' \in 0 .. lanzados'
        BY <1>4, <3>1 DEF Start, Hijos
      <4>9. restartable' \in [Hijos -> BOOLEAN]
        BY <1>4 DEF Start, TipoInv, Tipos
      <4>10. stopCh' = generaciones'
        BY <1>4 DEF Start
      <4> QED  BY <2>1, <3>1, <4>1, <4>2, <4>3, <4>4, <4>5, <4>6, <4>7, <4>8, <4>9, <4>10 DEF Tipos
    <3>4. Marcas'
      BY <1>4, <2>2, <3>1, <3>2 DEF Start, TipoInv, Tipos, Marcas, EnTramo, Va, Hijos, Hilos, Vigias
    <3>5. SinHilo'
      BY <2>2, <3>1 DEF TipoInv, Tipos, SinHilo, Va, Hijos, Hilos
    <3> QED  BY <3>3, <3>4, <3>5 DEF TipoInv
  <2>3. CASE pidfile' = 0 /\ UNCHANGED <<estado, pc, gate, mando, lanzados>>
    <3>1. gate' \in [Hilos -> 0 .. generaciones']
      BY <2>1, <2>3, Ensancha DEF TipoInv, Tipos
    <3>2. Tipos'
      <4>1. stopping' \in BOOLEAN /\ relanzando' \in BOOLEAN /\ vigiaAdoptado' \in BOOLEAN
        BY <1>4 DEF Start, TipoInv, Tipos
      <4>2. mandos' \in Nat /\ caidas' \in Nat
        BY <1>4 DEF Start, Manda, TipoInv, Tipos
      <4>3. /\ pidfile' = 0 /\ p' = 0 /\ stopCh' = generaciones'
            /\ UNCHANGED <<estado, restartable, pc, hijo, mando, lanzados>>
        BY <1>4, <2>3 DEF Start
      <4>4. 0 \in 0 .. lanzados
        BY DEF TipoInv, Tipos
      <4> QED  BY <2>1, <3>1, <4>1, <4>2, <4>3, <4>4 DEF TipoInv, Tipos
    <3>3. Marcas' /\ SinHilo'
      BY <1>4, <2>3 DEF Start, TipoInv, Marcas, SinHilo, EnTramo
    <3> QED  BY <3>2, <3>3 DEF TipoInv
  <2> QED  BY <1>4, <2>2, <2>3 DEF Start
<1>5. CASE StartReady \/ StartFalla \/ StartDesiste
  <2>1. mando' \in [paso : {"libre", "arranca", "desiste", "para", "paraPid"}, hijo : 0 .. lanzados]
    BY <1>5 DEF StartReady, StartFalla, StartDesiste, Libre, TipoInv, Tipos
  <2>2. estado' \in [Hijos -> {"nunca", "vivo", "avisado", "zombi", "muerto"}]
    BY <1>5 DEF StartReady, StartFalla, StartDesiste, TrasSenal, TipoInv, Tipos, procesos
  <2>3. p' \in 0 .. lanzados /\ pidfile' \in 0 .. lanzados /\ restartable' \in [Hijos -> BOOLEAN]
    <3>1. mando.hijo \in 0 .. lanzados /\ 0 \in 0 .. lanzados
      BY DEF TipoInv, Tipos
    <3>2. p' \in {p, mando.hijo} /\ pidfile' \in {pidfile, 0}
      BY <1>5 DEF StartReady, StartFalla, StartDesiste, AdoptLocked
    <3>3. restartable' = restartable \/ restartable' = [restartable EXCEPT ![mando.hijo] = TRUE]
      BY <1>5 DEF StartReady, StartFalla, StartDesiste, AdoptLocked, procesos
    <3>4. restartable' \in [Hijos -> BOOLEAN]
      BY <3>3 DEF TipoInv, Tipos
    <3> QED  BY <3>1, <3>2, <3>4 DEF TipoInv, Tipos
  <2>4. UNCHANGED <<puerta, relanzando, vigiaAdoptado, hilos, lanzados, cotas>>
    BY <1>5 DEF StartReady, StartFalla, StartDesiste
  <2>5. Tipos'
    BY <2>1, <2>2, <2>3, <2>4 DEF TipoInv, Tipos, puerta, hilos, cotas
  <2>6. Marcas' /\ SinHilo'
    BY <2>4 DEF TipoInv, Marcas, SinHilo, EnTramo, hilos
  <2> QED  BY <2>5, <2>6 DEF TipoInv
<1>6. CASE Stop \/ StopPorPid
  <2>1. mando' \in [paso : {"libre", "arranca", "desiste", "para", "paraPid"}, hijo : 0 .. lanzados]
    BY <1>6 DEF Stop, StopPorPid, TipoInv, Tipos
  <2>2. estado' \in [Hijos -> {"nunca", "vivo", "avisado", "zombi", "muerto"}]
    BY <1>6 DEF Stop, StopPorPid, TrasSenal, TipoInv, Tipos
  <2>3. p' = p /\ pidfile' \in {0, pidfile} /\ restartable' \in [Hijos -> BOOLEAN]
    BY <1>6 DEF Stop, StopPorPid, TipoInv, Tipos
  <2>4. /\ stopping' = TRUE /\ stopCh' = 0 /\ generaciones' = generaciones
        /\ mandos' \in Nat /\ caidas' = caidas
        /\ UNCHANGED <<relanzando, vigiaAdoptado, hilos, lanzados>>
    BY <1>6 DEF Stop, StopPorPid, Manda, CierraLaPuerta, TipoInv, Tipos
  <2>5. Tipos'
    BY <2>1, <2>2, <2>3, <2>4 DEF TipoInv, Tipos, hilos
  <2>6. Marcas' /\ SinHilo'
    BY <2>4 DEF TipoInv, Marcas, SinHilo, EnTramo, hilos
  <2> QED  BY <2>5, <2>6 DEF TipoInv
<1>7. CASE StopTermina \/ StopPidTermina
  BY <1>7 DEF StopTermina, StopPidTermina, TrasMuerte, Libre, TipoInv, Tipos,
              Marcas, SinHilo, EnTramo, procesos, puerta, hilos, cotas
<1>8. CASE Status
  BY <1>8 DEF Status, Limpia, TipoInv, Tipos, Marcas, SinHilo, EnTramo, procesos, puerta, hilos, cotas
<1>9. ASSUME NEW h \in Hilos, NextHilo(h)
      PROVE  TipoInv'
  <2>1. CASE TrasSalida(h)
    <3>1. Tipos'
      BY <2>1 DEF TrasSalida, Va, TipoInv, Tipos, puerta, cotas
    <3>2. Marcas'
      BY <2>1 DEF TrasSalida, Va, TipoInv, Tipos, Marcas, EnTramo, Vigias
    <3>3. SinHilo'
      <4>1. PICK l : Va(h, l)
        BY <2>1 DEF TrasSalida
      <4>2. pc[h] # "fin" /\ UNCHANGED lanzados
        BY <2>1 DEF TrasSalida
      <4> QED  BY <4>1, <4>2, Avanza
    <3> QED  BY <3>1, <3>2, <3>3 DEF TipoInv
  <2>2. CASE Despierta(h)
    <3>1. Tipos'
      BY <2>2 DEF Despierta, Va, TipoInv, Tipos, procesos, puerta, cotas
    <3>2. Marcas'
      BY <2>2 DEF Despierta, Va, TipoInv, Tipos, Marcas, EnTramo, Vigias
    <3>3. SinHilo'
      BY <2>2, Avanza DEF Despierta
    <3> QED  BY <3>1, <3>2, <3>3 DEF TipoInv
  <2>3. CASE Relanza(h)
    <3>1. gate[h] \in 0 .. generaciones' /\ UNCHANGED generaciones
      BY <2>3 DEF Relanza, TipoInv, Tipos, puerta
    <3>2. Lanza(gate[h])
      BY <2>3 DEF Relanza
    <3>3. /\ lanzados' = lanzados + 1 /\ lanzados' \in Hijos
          /\ estado' \in [Hijos -> {"nunca", "vivo", "avisado", "zombi", "muerto"}]
          /\ pidfile' = lanzados'
      BY <3>1, <3>2, LanzaTipo
    <3>4. gate' \in [Hilos -> 0 .. generaciones'] /\ pc[lanzados'] = "fin" /\ lanzados' # h
      <4>1. pc[lanzados'] = "fin"
        BY <3>3 DEF TipoInv, Tipos, SinHilo
      <4>2. gate' \in [Hilos -> 0 .. generaciones']
        BY <3>1, <3>2 DEF TipoInv, Tipos, Lanza
      <4> QED  BY <2>3, <4>1, <4>2 DEF Relanza
    <3>5. /\ pc' \in [Hilos -> {"fin", "wait", "vigila", "salida", "backoff", "sondea", "cierra",
                                "lista", "sobra"}]
          /\ pc'[h] = "sondea"
          /\ \A k \in Hilos \ {h, lanzados'} : pc'[k] = pc[k]
          /\ lanzados' \in Hilos /\ pc'[lanzados'] = "wait"
      <4>1. lanzados' \in Hilos
        BY <3>3 DEF Hijos, Hilos
      <4>2. pc' = [[pc EXCEPT ![h] = "sondea"] EXCEPT ![lanzados'] = "wait"]
        BY <2>3, <3>3 DEF Relanza
      <4> QED  BY <3>4, <4>1, <4>2 DEF TipoInv, Tipos
    <3>6. Tipos'
      <4>1. hijo' \in [Hilos -> 0 .. lanzados']
        <5>1. lanzados' \in 0 .. lanzados' /\ lanzados <= lanzados' /\ lanzados' \in Nat
          BY <3>3 DEF TipoInv, Tipos, Hijos
        <5> QED  BY <2>3, <3>3, <5>1, Ensancha DEF Relanza, TipoInv, Tipos
      <4>2. /\ mando' \in [paso : {"libre", "arranca", "desiste", "para", "paraPid"},
                           hijo : 0 .. lanzados']
            /\ lanzados' \in 0 .. MaxHijos
        BY <2>3, <3>3 DEF Relanza, TipoInv, Tipos, Hijos
      <4>3. p' \in 0 .. lanzados' /\ pidfile' \in 0 .. lanzados'
        BY <2>3, <3>3 DEF Relanza, Hijos
      <4> QED  BY <2>3, <3>1, <3>3, <3>4, <3>5, <4>1, <4>2, <4>3
               DEF Relanza, TipoInv, Tipos, puerta, cotas
    <3>7. Marcas'
      BY <2>3, <3>3, <3>4, <3>5 DEF Relanza, TipoInv, Tipos, Marcas, EnTramo, Vigias
    <3>8. SinHilo'
      BY <2>3, <3>3, <3>4, <3>5 DEF Relanza, TipoInv, Tipos, SinHilo, Hijos, Hilos
    <3> QED  BY <3>6, <3>7, <3>8 DEF TipoInv
  <2>4. CASE NoRelanza(h)
    <3>1. Tipos'
      BY <2>4 DEF NoRelanza, Limpia, Va, TipoInv, Tipos, procesos, puerta, cotas
    <3>2. Marcas'
      BY <2>4 DEF NoRelanza, Va, TipoInv, Tipos, Marcas, EnTramo, Vigias
    <3>3. SinHilo'
      <4>1. PICK l : Va(h, l)
        BY <2>4 DEF NoRelanza
      <4>2. pc[h] # "fin" /\ UNCHANGED lanzados
        BY <2>4 DEF NoRelanza
      <4> QED  BY <4>1, <4>2, Avanza
    <3> QED  BY <3>1, <3>2, <3>3 DEF TipoInv
  <2>5. CASE SondeaReady(h) \/ SondeaFalla(h)
    <3>1. Tipos'
      BY <2>5 DEF SondeaReady, SondeaFalla, TrasSenal, Va, TipoInv, Tipos, procesos, puerta, cotas
    <3>2. Marcas'
      BY <2>5 DEF SondeaReady, SondeaFalla, Va, TipoInv, Tipos, Marcas, EnTramo, Vigias
    <3>3. SinHilo'
      <4>1. PICK l : Va(h, l)
        BY <2>5 DEF SondeaReady, SondeaFalla
      <4>2. pc[h] # "fin" /\ UNCHANGED lanzados
        BY <2>5 DEF SondeaReady, SondeaFalla
      <4> QED  BY <4>1, <4>2, Avanza
    <3> QED  BY <3>1, <3>2, <3>3 DEF TipoInv
  <2>6. CASE Vuelve(h) \/ Sobra(h)
    <3>1. Tipos'
      <4>1. pidfile' \in {0, pidfile}
        BY <2>6 DEF Vuelve, Sobra, BorrarPIDFileSiEsDe
      <4>2. relanzando' \in {FALSE, relanzando}
        BY <2>6 DEF Vuelve, Sobra
      <4>3. pc' \in [Hilos -> {"fin", "wait", "vigila", "salida", "backoff", "sondea", "cierra",
                               "lista", "sobra"}]
        BY <2>6 DEF Vuelve, Sobra, Va, TipoInv, Tipos
      <4>4. stopping' \in BOOLEAN /\ relanzando' \in BOOLEAN /\ vigiaAdoptado' \in BOOLEAN
        BY <2>6, <4>2 DEF Vuelve, Sobra, TipoInv, Tipos, puerta
      <4>5. UNCHANGED <<estado, restartable, p, stopCh, generaciones, gate, hijo, mando, lanzados, cotas>>
        BY <2>6 DEF Vuelve, Sobra, procesos, puerta
      <4>6. 0 \in 0 .. lanzados
        BY DEF TipoInv, Tipos
      <4> QED  BY <4>1, <4>3, <4>4, <4>5, <4>6 DEF TipoInv, Tipos, cotas
    <3>2. Marcas'
      BY <2>6 DEF Vuelve, Sobra, Va, TipoInv, Tipos, Marcas, EnTramo, Vigias
    <3>3. SinHilo'
      <4>1. PICK l : Va(h, l)
        BY <2>6 DEF Vuelve, Sobra
      <4>2. pc[h] # "fin" /\ UNCHANGED lanzados
        BY <2>6 DEF Vuelve, Sobra
      <4> QED  BY <4>1, <4>2, Avanza
    <3> QED  BY <3>1, <3>2, <3>3 DEF TipoInv
  <2>7. CASE Adopta(h)
    <3>1. Tipos'
      <4>1. estado' \in [Hijos -> {"nunca", "vivo", "avisado", "zombi", "muerto"}]
        BY <2>7 DEF Adopta, TrasSenal, TipoInv, Tipos
      <4>2. p' \in 0 .. lanzados /\ restartable' \in [Hijos -> BOOLEAN]
        <5>1. hijo[h] \in 0 .. lanzados
          BY DEF TipoInv, Tipos
        <5>2. p' \in {p, hijo[h]}
          BY <2>7 DEF Adopta, AdoptLocked
        <5>3. restartable' = restartable \/ restartable' = [restartable EXCEPT ![hijo[h]] = TRUE]
          BY <2>7 DEF Adopta, AdoptLocked
        <5>4. restartable' \in [Hijos -> BOOLEAN]
          BY <5>3 DEF TipoInv, Tipos
        <5> QED  BY <5>1, <5>2, <5>4 DEF TipoInv, Tipos
      <4>3. pc' \in [Hilos -> {"fin", "wait", "vigila", "salida", "backoff", "sondea", "cierra",
                               "lista", "sobra"}]
        BY <2>7 DEF Adopta, Va, TipoInv, Tipos
      <4> QED  BY <2>7, <4>1, <4>2, <4>3 DEF Adopta, TipoInv, Tipos, puerta, cotas
    <3>2. Marcas'
      BY <2>7 DEF Adopta, Va, TipoInv, Tipos, Marcas, EnTramo, Vigias
    <3>3. SinHilo'
      <4>1. PICK l : Va(h, l)
        BY <2>7 DEF Adopta
      <4>2. pc[h] # "fin" /\ UNCHANGED lanzados
        BY <2>7 DEF Adopta
      <4> QED  BY <4>1, <4>2, Avanza
    <3> QED  BY <3>1, <3>2, <3>3 DEF TipoInv
  <2>8. CASE VigiaAcaba(h)
    <3>1. Tipos'
      BY <2>8 DEF VigiaAcaba, Va, TipoInv, Tipos, procesos, puerta, cotas
    <3>2. Marcas'
      <4>1. PICK l \in {"fin", "salida"} : Va(h, l)
        BY <2>8 DEF VigiaAcaba
      <4>2. pc[h] = "vigila" /\ vigiaAdoptado' = FALSE /\ relanzando' = relanzando
        BY <2>8 DEF VigiaAcaba
      <4>3. \A k \in Hilos \ {h} : pc'[k] = pc[k]
        BY <4>1 DEF Va, TipoInv, Tipos
      <4>4. \A k \in Vigias : pc'[k] # "vigila"
        BY <4>1, <4>2, <4>3 DEF Va, TipoInv, Tipos, UnVigia, Vigias
      <4>5. ASSUME relanzando
            PROVE  \E k \in Hilos : EnTramo(k)'
        BY <4>2, <4>3, <4>5 DEF TipoInv, Marcas, EnTramo
      <4> QED  BY <4>2, <4>4, <4>5 DEF Marcas
    <3>3. SinHilo'
      <4>1. PICK l : Va(h, l)
        BY <2>8 DEF VigiaAcaba
      <4>2. pc[h] # "fin" /\ UNCHANGED lanzados
        BY <2>8 DEF VigiaAcaba
      <4> QED  BY <4>1, <4>2, Avanza
    <3> QED  BY <3>1, <3>2, <3>3 DEF TipoInv
  <2> QED  BY <1>9, <2>1, <2>2, <2>3, <2>4, <2>5, <2>6, <2>7, <2>8 DEF NextHilo
<1>10. CASE Reinicio
  <2>1. mando' \in [paso : {"libre", "arranca", "desiste", "para", "paraPid"}, hijo : 0 .. lanzados]
    BY <1>10 DEF Reinicio, Libre, TipoInv, Tipos
  <2>2. estado' \in [Hijos -> {"nunca", "vivo", "avisado", "zombi", "muerto"}]
    BY <1>10 DEF Reinicio, TipoInv, Tipos
  <2>3. gate' \in [Hilos -> 0 .. generaciones] /\ hijo' \in [Hilos -> 0 .. lanzados]
    BY <1>10 DEF Reinicio, TipoInv, Tipos
  <2>4. Tipos'
    <3>1. stopping' \in BOOLEAN /\ relanzando' \in BOOLEAN /\ vigiaAdoptado' \in BOOLEAN
      BY <1>10 DEF Reinicio
    <3>2. /\ restartable' \in [Hijos -> BOOLEAN]
          /\ pc' \in [Hilos -> {"fin", "wait", "vigila", "salida", "backoff", "sondea", "cierra",
                                "lista", "sobra"}]
      BY <1>10 DEF Reinicio
    <3>3. caidas' \in Nat
      BY <1>10 DEF Reinicio, TipoInv, Tipos
    <3>4. p' = 0 /\ stopCh' = 0 /\ UNCHANGED <<pidfile, generaciones, lanzados, mandos>>
      BY <1>10 DEF Reinicio
    <3>5. 0 \in 0 .. lanzados
      BY DEF TipoInv, Tipos
    <3> QED  BY <2>1, <2>2, <2>3, <3>1, <3>2, <3>3, <3>4, <3>5 DEF TipoInv, Tipos
  <2>5. Marcas' /\ SinHilo'
    BY <1>10 DEF Reinicio, Marcas, SinHilo, EnTramo, Hijos, Hilos, Vigias
  <2> QED  BY <2>4, <2>5 DEF TipoInv
<1>11. CASE UNCHANGED vars
  BY <1>11 DEF vars, TipoInv, Tipos, Marcas, SinHilo, EnTramo, procesos, puerta, hilos, cotas
<1> QED
  BY <1>1, <1>2, <1>3, <1>4, <1>5, <1>6, <1>7, <1>8, <1>9, <1>10, <1>11 DEF Next, NextMando

LEMMA TipoInit == Init => TipoInv /\ UnVigia
<1> SUFFICES ASSUME Init PROVE TipoInv /\ UnVigia
  OBVIOUS
<1>1. mando \in [paso : {"libre", "arranca", "desiste", "para", "paraPid"}, hijo : 0 .. lanzados]
  BY DEF Init, Libre
<1>2. Tipos
  <2>1. stopping \in BOOLEAN /\ relanzando \in BOOLEAN /\ vigiaAdoptado \in BOOLEAN
    BY DEF Init
  <2>2. /\ lanzados \in 0 .. MaxHijos /\ generaciones \in Nat /\ mandos \in Nat /\ caidas \in Nat
        /\ pidfile \in 0 .. lanzados /\ p \in 0 .. lanzados /\ stopCh \in {0, generaciones}
    BY CotasAssumption DEF Init
  <2>3. gate \in [Hilos -> 0 .. generaciones] /\ hijo \in [Hilos -> 0 .. lanzados]
    BY DEF Init
  <2>4. /\ estado \in [Hijos -> {"nunca", "vivo", "avisado", "zombi", "muerto"}]
        /\ restartable \in [Hijos -> BOOLEAN]
        /\ pc \in [Hilos -> {"fin", "wait", "vigila", "salida", "backoff", "sondea", "cierra",
                             "lista", "sobra"}]
    BY DEF Init
  <2> QED  BY <1>1, <2>1, <2>2, <2>3, <2>4 DEF Tipos
<1>3. Marcas /\ SinHilo
  BY CotasAssumption DEF Init, Marcas, SinHilo, EnTramo, Hijos, Hilos, Vigias
<1>4. UnVigia
  BY DEF Init, UnVigia, Vigias
<1> QED  BY <1>2, <1>3, <1>4 DEF TipoInv

\* The supervisor is type correct, and its marks tell the truth.
THEOREM TipoCorrecto == Spec => []TypeOK
<1>1. TipoInv => TypeOK
  BY DEF TipoInv, TypeOK
<1> QED  BY <1>1, TipoInit, TipoPaso, UnVigiaPaso, PTL DEF Spec
-----------------------------------------------------------------------------
(***************************************************************************)
(* The lock file.  Whoever holds the mutex to wait for a child knows whom  *)
(* the file names, or holds the child itself, and a reaper that decides    *)
(* whether to restart has seen its child dead.                             *)
(***************************************************************************)
CandadoInv ==
  /\ mando.paso \in {"arranca", "desiste"} => mando.hijo = pidfile
  /\ mando.paso = "para" => mando.hijo = p /\ p # 0 /\ estado[p] # "vivo"
  /\ mando.paso = "paraPid" => mando.hijo = pidfile /\ pidfile # 0 /\ estado[pidfile] # "vivo"
  /\ \A c \in Hijos : pc[c] = "salida" => Hecho(c)

LockInv == TipoInv /\ UnVigia /\ CandadoInv

\* A step that launches nobody: no child comes back to life.
Envejece ==
  \A c \in Hijos : /\ estado'[c] = "vivo" => estado[c] = "vivo"
                   /\ estado[c] = "muerto" => estado'[c] = "muerto"

NadieVivo == \A c \in Hijos : estado[c] # "vivo"

LEMMA SinLanzar ==
  ASSUME LockFiel, Envejece, UNCHANGED pidfile \/ NadieVivo
  PROVE  LockFiel'
  BY DEF LockFiel, Envejece, NadieVivo

LEMMA LanzaLock ==
  ASSUME TipoInv, NadieVivo, NEW g, Lanza(g)
  PROVE  LockFiel'
  BY CotasAssumption DEF TipoInv, Tipos, NadieVivo, Lanza, LockFiel, Hijos

\* What runningLocked finds missing is missing, but for the exception.
LEMMA NoCorre ==
  ASSUME TipoInv, LockFiel, ~LimpiezaCiega, Corre = 0
  PROVE  NadieVivo
<1> SUFFICES ASSUME NEW c \in Hijos, estado[c] = "vivo"
             PROVE  FALSE
  BY DEF NadieVivo
<1>1. pidfile = c /\ c # 0
  BY CotasAssumption DEF LockFiel, Hijos
<1>2. CASE p = 0
  BY <1>1, <1>2 DEF Corre, Vivo
<1>3. CASE p # 0
  BY <1>1, <1>3 DEF Corre, LimpiezaCiega, Hecho
<1> QED  BY <1>2, <1>3

LEMMA EnvejecePaso ==
  ASSUME TipoInv, NEW c
  PROVE  /\ estado' = TrasSenal(c) => Envejece
         /\ estado[c] # "muerto" /\ estado' = TrasMuerte(c) => Envejece
         /\ UNCHANGED estado => Envejece
  BY DEF TipoInv, Tipos, TrasSenal, TrasMuerte, Envejece

\* While the mutex is held, nobody touches the fields, and a dead child is dead.
LEMMA CandadoSigue ==
  ASSUME LockInv, Envejece, UNCHANGED <<pidfile, p, mando>>,
         \A c \in Hijos : pc'[c] = "salida" => pc[c] = "salida" \/ Hecho(c)'
  PROVE  CandadoInv'
  BY CotasAssumption DEF LockInv, TipoInv, Tipos, CandadoInv, Envejece, Hecho, Hijos

LEMMA CandadoLibre ==
  ASSUME LockInv, Envejece, mando' = Libre,
         \A c \in Hijos : pc'[c] = "salida" => pc[c] = "salida" \/ Hecho(c)'
  PROVE  CandadoInv'
  BY DEF LockInv, CandadoInv, Envejece, Hecho, Libre

\* A thread goes on, but not to decide about a child of this supervisor.
LEMMA VaSinSalida ==
  ASSUME LockInv, NEW h \in Hilos, NEW l, Va(h, l), l # "salida" \/ h \in Vigias
  PROVE  \A c \in Hijos : pc'[c] = "salida" => pc[c] = "salida"
  BY CotasAssumption DEF LockInv, TipoInv, Tipos, Va, Vigias, Hijos, Hilos

\* The new reaper waits, and the child it waits for had no thread.
LEMMA LanzaCandado ==
  ASSUME LockInv, NEW g, Lanza(g),
         \A c \in Hijos : pc'[c] = "salida" => pc[c] = "salida" /\ c # lanzados + 1
  PROVE  \A c \in Hijos : pc'[c] = "salida" => Hecho(c)'
<1> SUFFICES ASSUME NEW c \in Hijos, pc'[c] = "salida"
             PROVE  estado'[c] = "muerto"
  BY DEF Hecho
<1>1. estado[c] = "muerto" /\ c # lanzados + 1
  BY DEF LockInv, CandadoInv, Hecho
<1>2. estado' = [estado EXCEPT ![lanzados + 1] = "vivo"]
  BY DEF Lanza
<1> QED  BY <1>1, <1>2 DEF LockInv, TipoInv, Tipos

LEMMA CandadoPaso == LockInv /\ [Next]_vars => CandadoInv'
<1> SUFFICES ASSUME LockInv, [Next]_vars PROVE CandadoInv'
  OBVIOUS
<1>0. TipoInv /\ UnVigia /\ CandadoInv
  BY DEF LockInv
<1>1. ASSUME NEW c \in Hijos, Muere(c) \/ Kill(c)
      PROVE  CandadoInv'
  <2>1. Envejece
    BY <1>0, <1>1, EnvejecePaso DEF Muere, Kill
  <2> QED  BY <1>1, <2>1, CandadoSigue DEF Muere, Kill, hilos
<1>2. ASSUME NEW c \in Hijos, Recoge(c)
      PROVE  CandadoInv'
  <2>1. Envejece
    BY <1>0, <1>2 DEF Recoge, TipoInv, Tipos, Envejece
  <2>2. \A k \in Hijos : pc'[k] = "salida" => pc[k] = "salida" \/ Hecho(k)'
    BY <1>0, <1>2, CotasAssumption DEF Recoge, TipoInv, Tipos, Hecho, Hijos, Hilos
  <2> QED  BY <1>2, <2>1, <2>2, CandadoSigue DEF Recoge
<1>3. CASE StartIdempotente
  <2>1. Envejece
    BY <1>0, <1>3, EnvejecePaso DEF StartIdempotente, procesos
  <2>2. (\E h \in Vigias : Va(h, "vigila")) \/ UNCHANGED pc
    BY <1>3 DEF StartIdempotente, Vigila, hilos
  <2>3. \A c \in Hijos : pc'[c] = "salida" => pc[c] = "salida"
    BY <2>2, VaSinSalida DEF Vigias
  <2> QED  BY <1>3, <2>1, <2>3, CandadoSigue DEF StartIdempotente
<1>4. CASE Start
  <2>1. CASE Lanza(generaciones + 1) /\ Va(lanzados + 1, "wait")
             /\ mando' = [paso |-> "arranca", hijo |-> lanzados + 1]
    <3>1. \A c \in Hijos : pc'[c] = "salida" => pc[c] = "salida" /\ c # lanzados + 1
      BY <1>0, <2>1, CotasAssumption DEF TipoInv, Tipos, Va, Hijos, Hilos
    <3>2. \A c \in Hijos : pc'[c] = "salida" => Hecho(c)'
      BY <2>1, <3>1, LanzaCandado
    <3>3. pidfile' = lanzados + 1
      BY <2>1 DEF Lanza
    <3> QED  BY <2>1, <3>2, <3>3 DEF CandadoInv
  <2>2. CASE UNCHANGED <<estado, pc, gate, mando, lanzados>>
    BY <1>0, <1>4, <2>2, EnvejecePaso, CandadoLibre DEF Start, Manda, SinCandado
  <2> QED  BY <1>4, <2>1, <2>2 DEF Start
<1>5. CASE StartReady \/ StartDesiste
  BY <1>0, <1>5, EnvejecePaso, CandadoLibre DEF StartReady, StartDesiste, procesos, hilos
<1>6. CASE StartFalla
  <2>1. Envejece
    BY <1>0, <1>6, EnvejecePaso DEF StartFalla
  <2>2. \A c \in Hijos : pc'[c] = "salida" => Hecho(c)'
    BY <1>0, <1>6, <2>1 DEF StartFalla, hilos, CandadoInv, Envejece, Hecho
  <2> QED  BY <1>0, <1>6, <2>2 DEF StartFalla, CandadoInv
<1>7. CASE Stop
  <2>1. Envejece
    BY <1>0, <1>7, EnvejecePaso DEF Stop
  <2>2. \A c \in Hijos : pc'[c] = "salida" => Hecho(c)'
    BY <1>0, <1>7, <2>1 DEF Stop, hilos, CandadoInv, Envejece, Hecho
  <2>3. p' = p /\ p # 0 /\ estado'[p] # "vivo"
    BY <1>0, <1>7, CotasAssumption DEF Stop, TrasSenal, TipoInv, Tipos, Hijos
  <2> QED  BY <1>7, <2>2, <2>3 DEF Stop, CandadoInv
<1>8. CASE StopPorPid
  <2>1. CASE ~Vivo(pidfile)
    BY <1>0, <1>8, <2>1, EnvejecePaso, CandadoLibre DEF StopPorPid, Manda, SinCandado, hilos
  <2>2. CASE Vivo(pidfile)
    <3>1. Envejece
      BY <1>0, <1>8, <2>2, EnvejecePaso DEF StopPorPid
    <3>2. \A c \in Hijos : pc'[c] = "salida" => Hecho(c)'
      BY <1>0, <1>8, <3>1 DEF StopPorPid, hilos, CandadoInv, Envejece, Hecho
    <3>3. pidfile' = pidfile /\ pidfile # 0 /\ estado'[pidfile] # "vivo"
      BY <1>0, <1>8, <2>2, CotasAssumption DEF StopPorPid, Vivo, TrasSenal, TipoInv, Tipos, Hijos
    <3> QED  BY <1>8, <2>2, <3>2, <3>3 DEF StopPorPid, CandadoInv
  <2> QED  BY <2>1, <2>2
<1>9. CASE StopTermina \/ StopPidTermina \/ Status
  <2>1. Envejece
    BY <1>0, <1>9, EnvejecePaso DEF StopTermina, StopPidTermina, Status, procesos
  <2> QED  BY <1>9, <2>1, CandadoLibre DEF StopTermina, StopPidTermina, Status, SinCandado, hilos
<1>10. ASSUME NEW h \in Hilos, NextHilo(h)
       PROVE  CandadoInv'
  <2>1. CASE Despierta(h) \/ SondeaReady(h) \/ SondeaFalla(h)
    <3>1. Envejece
      BY <1>0, <2>1, EnvejecePaso DEF Despierta, SondeaReady, SondeaFalla, procesos
    <3>2. \E l : Va(h, l) /\ l # "salida"
      BY <2>1 DEF Despierta, SondeaReady, SondeaFalla
    <3>3. \A c \in Hijos : pc'[c] = "salida" => pc[c] = "salida"
      BY <3>2, VaSinSalida
    <3> QED  BY <2>1, <3>1, <3>3, CandadoSigue DEF Despierta, SondeaReady, SondeaFalla
  <2>2. CASE Relanza(h)
    <3>1. \A c \in Hijos : pc'[c] = "salida" => pc[c] = "salida" /\ c # lanzados + 1
      <4>1. pc' = [[pc EXCEPT ![h] = "sondea"] EXCEPT ![lanzados + 1] = "wait"]
        BY <2>2 DEF Relanza
      <4> QED  BY <1>0, <4>1, CotasAssumption DEF TipoInv, Tipos, Hijos, Hilos
    <3>2. \A c \in Hijos : pc'[c] = "salida" => Hecho(c)'
      BY <2>2, <3>1, LanzaCandado DEF Relanza
    <3> QED  BY <2>2, <3>2 DEF Relanza, SinCandado, Libre, CandadoInv
  <2>3. CASE TrasSalida(h) \/ NoRelanza(h)
    <3>1. Envejece
      BY <1>0, <2>3, EnvejecePaso DEF TrasSalida, NoRelanza, procesos
    <3>2. \E l : Va(h, l) /\ l # "salida"
      BY <2>3 DEF TrasSalida, NoRelanza
    <3>3. \A c \in Hijos : pc'[c] = "salida" => pc[c] = "salida"
      BY <3>2, VaSinSalida
    <3>4. mando' = Libre
      BY <2>3 DEF TrasSalida, NoRelanza, SinCandado
    <3> QED  BY <3>1, <3>3, <3>4, CandadoLibre
  <2>4. CASE Vuelve(h) \/ Sobra(h) \/ Adopta(h)
    <3>1. Envejece
      BY <1>0, <2>4, EnvejecePaso DEF Vuelve, Sobra, Adopta, procesos
    <3>2. \E l : Va(h, l) /\ l # "salida"
      BY <2>4 DEF Vuelve, Sobra, Adopta
    <3>3. \A c \in Hijos : pc'[c] = "salida" => pc[c] = "salida"
      BY <3>2, VaSinSalida
    <3>4. mando' = Libre
      BY <2>4 DEF Vuelve, Sobra, Adopta, SinCandado
    <3> QED  BY <3>1, <3>3, <3>4, CandadoLibre
  <2>5. CASE VigiaAcaba(h)
    <3>1. Envejece
      BY <1>0, <2>5, EnvejecePaso DEF VigiaAcaba, procesos
    <3>2. \E l : Va(h, l)
      BY <2>5 DEF VigiaAcaba
    <3>3. h \in Vigias
      BY <1>0, <2>5 DEF VigiaAcaba, UnVigia
    <3>4. \A c \in Hijos : pc'[c] = "salida" => pc[c] = "salida"
      BY <3>2, <3>3, VaSinSalida
    <3> QED  BY <2>5, <3>1, <3>4, CandadoSigue DEF VigiaAcaba
  <2> QED  BY <1>10, <2>1, <2>2, <2>3, <2>4, <2>5 DEF NextHilo
<1>11. CASE Reinicio
  <2>1. Envejece
    BY <1>0, <1>11 DEF Reinicio, TipoInv, Tipos, Envejece
  <2>2. \A c \in Hijos : pc'[c] # "salida"
    BY <1>11, CotasAssumption DEF Reinicio, Hijos, Hilos
  <2> QED  BY <1>11, <2>1, <2>2, CandadoLibre DEF Reinicio
<1>12. CASE UNCHANGED vars
  <2>1. Envejece
    BY <1>0, <1>12, EnvejecePaso DEF vars, procesos
  <2> QED  BY <1>12, <2>1, CandadoSigue DEF vars, hilos
<1> QED
  BY <1>1, <1>2, <1>3, <1>4, <1>5, <1>6, <1>7, <1>8, <1>9, <1>10, <1>11, <1>12 DEF Next, NextMando

\* No step but the blind cleaning makes the lock file lose a child.
LEMMA FielPaso ==
  ASSUME LockInv, [Next]_vars, LockFiel, ~LimpiezaCiega
  PROVE  LockFiel'
<1>0. TipoInv /\ UnVigia /\ CandadoInv
  BY DEF LockInv
<1>1. ASSUME NEW c \in Hijos, Muere(c) \/ Kill(c) \/ Recoge(c)
      PROVE  LockFiel'
  <2>1. Envejece
    BY <1>0, <1>1, EnvejecePaso DEF Muere, Kill, Recoge, TipoInv, Tipos, Envejece
  <2> QED  BY <1>1, <2>1, SinLanzar DEF Muere, Kill, Recoge
<1>2. CASE StartIdempotente
  BY <1>0, <1>2, EnvejecePaso, SinLanzar DEF StartIdempotente, procesos
<1>3. CASE Start
  <2>1. NadieVivo
    BY <1>0, <1>3, NoCorre DEF Start
  <2>2. Lanza(generaciones + 1) \/ UNCHANGED estado
    BY <1>3 DEF Start
  <2> QED  BY <1>0, <2>1, <2>2, LanzaLock, EnvejecePaso, SinLanzar
<1>4. CASE StartReady \/ StartFalla
  <2>1. Envejece
    BY <1>0, <1>4, EnvejecePaso DEF StartReady, StartFalla
  <2> QED  BY <1>4, <2>1, SinLanzar DEF StartReady, StartFalla
<1>5. CASE StartDesiste
  <2>1. NadieVivo
    BY <1>0, <1>5 DEF StartDesiste, CandadoInv, LockFiel, NadieVivo, Hecho
  <2> QED  BY <1>0, <1>5, <2>1, EnvejecePaso, SinLanzar DEF StartDesiste, procesos
<1>6. CASE Stop
  <2>1. Envejece
    BY <1>0, <1>6, EnvejecePaso DEF Stop
  <2> QED  BY <1>6, <2>1, SinLanzar DEF Stop
<1>7. CASE StopTermina
  <2>1. NadieVivo
    BY <1>0, <1>7 DEF StopTermina, CandadoInv, LimpiezaCiega, LockFiel, NadieVivo, Hecho
  <2> QED  BY <1>0, <1>7, <2>1, EnvejecePaso, SinLanzar DEF StopTermina, procesos
<1>8. CASE StopPorPid
  <2>1. Envejece
    BY <1>0, <1>8, EnvejecePaso DEF StopPorPid
  <2>2. UNCHANGED pidfile \/ NadieVivo
    BY <1>8, CotasAssumption DEF StopPorPid, Vivo, LockFiel, NadieVivo, Hijos
  <2> QED  BY <2>1, <2>2, SinLanzar
<1>9. CASE StopPidTermina
  <2>1. Envejece
    BY <1>0, <1>9, EnvejecePaso DEF StopPidTermina
  <2>2. NadieVivo
    BY <1>0, <1>9 DEF StopPidTermina, CandadoInv, LockFiel, NadieVivo
  <2> QED  BY <2>1, <2>2, SinLanzar
<1>10. CASE Status
  BY <1>0, <1>10, NoCorre, EnvejecePaso, SinLanzar DEF Status, Limpia, procesos
<1>11. ASSUME NEW h \in Hilos, NextHilo(h)
       PROVE  LockFiel'
  <2>1. CASE TrasSalida(h)
    <3>1. CASE UNCHANGED pidfile
      BY <1>0, <2>1, <3>1, EnvejecePaso, SinLanzar DEF TrasSalida
    <3>2. CASE p = h
      <4>1. h \in Hijos
        BY <1>0, <3>2, CotasAssumption DEF TipoInv, Tipos, Hijos, Hilos
      <4>2. Hecho(p) /\ p # 0
        BY <1>0, <2>1, <3>2, <4>1, CotasAssumption DEF TrasSalida, CandadoInv, Hijos
      <4>3. NadieVivo
        BY <4>2 DEF LimpiezaCiega, LockFiel, NadieVivo, Hecho
      <4> QED  BY <1>0, <2>1, <4>3, EnvejecePaso, SinLanzar DEF TrasSalida
    <3> QED  BY <2>1, <3>1, <3>2 DEF TrasSalida
  <2>2. CASE Despierta(h) \/ SondeaReady(h) \/ SondeaFalla(h)
    <3>1. Envejece
      BY <1>0, <2>2, EnvejecePaso DEF Despierta, SondeaReady, SondeaFalla, procesos
    <3> QED  BY <2>2, <3>1, SinLanzar DEF Despierta, SondeaReady, SondeaFalla
  <2>3. CASE Relanza(h)
    <3>1. NadieVivo
      BY <1>0, <2>3, NoCorre DEF Relanza
    <3> QED  BY <1>0, <2>3, <3>1, LanzaLock DEF Relanza
  <2>4. CASE NoRelanza(h)
    BY <1>0, <2>4, NoCorre, EnvejecePaso, SinLanzar DEF NoRelanza, Limpia, procesos
  <2>5. CASE Vuelve(h) \/ Sobra(h)
    <3>1. UNCHANGED pidfile \/ NadieVivo
      BY <2>5 DEF Vuelve, Sobra, BorrarPIDFileSiEsDe, LockFiel, NadieVivo, Hecho
    <3>2. UNCHANGED estado
      BY <2>5 DEF Vuelve, Sobra, procesos
    <3> QED  BY <1>0, <3>1, <3>2, EnvejecePaso, SinLanzar
  <2>6. CASE Adopta(h) \/ VigiaAcaba(h)
    <3>1. Envejece
      BY <1>0, <2>6, EnvejecePaso DEF Adopta, VigiaAcaba, procesos
    <3> QED  BY <2>6, <3>1, SinLanzar DEF Adopta, VigiaAcaba
  <2> QED  BY <1>11, <2>1, <2>2, <2>3, <2>4, <2>5, <2>6 DEF NextHilo
<1>12. CASE Reinicio
  <2>1. Envejece
    BY <1>0, <1>12 DEF Reinicio, TipoInv, Tipos, Envejece
  <2> QED  BY <1>12, <2>1, SinLanzar DEF Reinicio
<1>13. CASE UNCHANGED vars
  BY <1>0, <1>13, EnvejecePaso, SinLanzar DEF vars, procesos
<1> QED
  BY <1>1, <1>2, <1>3, <1>4, <1>5, <1>6, <1>7, <1>8, <1>9, <1>10, <1>11, <1>12, <1>13
  DEF Next, NextMando

\* Whatever reapers, restart loops, watchers, Start, Stop and the deaths of
\* wapp-ctl do, the lock file loses a child in one situation only: a dead child
\* is cleaned up while the file names another one.
THEOREM LockUnicaExcepcion == Spec => LockSoloCiego
<1>1. Init => LockInv
  <2>1. Init => CandadoInv
    BY CotasAssumption DEF Init, Libre, CandadoInv, Hijos, Hilos
  <2> QED  BY <2>1, TipoInit DEF LockInv
<1>2. LockInv /\ [Next]_vars => LockInv'
  BY TipoPaso, UnVigiaPaso, CandadoPaso DEF LockInv
<1>3. LockInv /\ [Next]_vars => [LockFiel /\ ~LockFiel' => LimpiezaCiega]_vars
  BY FielPaso
<1> QED  BY <1>1, <1>2, <1>3, PTL DEF Spec, LockSoloCiego
=============================================================================
