----------------------------- MODULE Supervisor -----------------------------
(***************************************************************************)
(* The supervisor of wapp-ctl: it launches its child, restarts it when it  *)
(* dies by itself, stops it when asked, and takes over a child that        *)
(* outlived an earlier supervisor.  One mutex guards its fields; Start and *)
(* Stop keep it while they wait, the automatic restart does not.           *)
(*                                                                         *)
(* Threads 1 .. MaxHijos are the reapers, one per child launched; the      *)
(* others watch adopted children by pid.  Either may become a restart      *)
(* loop.  The gate of a generation is closed when stopCh is no longer it.  *)
(* The times (backoff, timeouts) are left out: a timer may always fire.    *)
(* Re-use of a pid, which the code declares out of its reach, is left out. *)
(***************************************************************************)
EXTENDS Naturals, FiniteSets

CONSTANTS
  MaxHijos,   \* bound on the children ever launched
  MaxVigias,  \* bound on the watchers at a time
  MaxMandos,  \* bound on the calls of Start and Stop that take effect
  MaxCaidas   \* bound on the deaths of wapp-ctl

ASSUME CotasAssumption ==
  MaxHijos \in Nat \ {0} /\ MaxVigias \in Nat /\ MaxMandos \in Nat /\ MaxCaidas \in Nat

Hijos == 1 .. MaxHijos
Hilos == 1 .. MaxHijos + MaxVigias
Vigias == Hilos \ Hijos

VARIABLES
  estado,      \* per child: the process
  restartable, \* per child: proc.restartable
  pidfile,     \* the lock file (0 = none), the only thing on disk
  p,           \* Supervisor.p (0 = nil)
  stopping, relanzando, vigiaAdoptado,
  stopCh,      \* the generation whose gate is open (0 = nil)
  pc,          \* per thread: where it is
  gate,        \* per thread: the gate it captured
  hijo,        \* per thread: the child it watches, or the one it has relaunched
  mando,       \* the Start or Stop that holds the mutex, and its child
  lanzados, generaciones, mandos, caidas

procesos == <<estado, restartable>>
puerta   == <<stopping, stopCh, generaciones>>
hilos    == <<pc, gate, hijo>>
cotas    == <<mandos, caidas>>
vars == <<procesos, pidfile, p, puerta, relanzando, vigiaAdoptado, hilos, mando, lanzados, cotas>>

Libre == [paso |-> "libre", hijo |-> 0]
SinCandado == mando = Libre

\* The tract of the restart that runs without the mutex.
EnTramo(h) == pc[h] \in {"sondea", "cierra", "lista"}

Tipos ==
  /\ estado \in [Hijos -> {"nunca", "vivo", "avisado", "zombi", "muerto"}]
  /\ restartable \in [Hijos -> BOOLEAN]
  /\ pidfile \in 0 .. lanzados /\ p \in 0 .. lanzados
  /\ stopping \in BOOLEAN /\ relanzando \in BOOLEAN /\ vigiaAdoptado \in BOOLEAN
  /\ stopCh \in {0, generaciones} /\ gate \in [Hilos -> 0 .. generaciones]
  /\ pc \in [Hilos -> {"fin", "wait", "vigila", "salida", "backoff", "sondea", "cierra",
                       "lista", "sobra"}]
  /\ hijo \in [Hilos -> 0 .. lanzados]
  /\ mando \in [paso : {"libre", "arranca", "desiste", "para", "paraPid"}, hijo : 0 .. lanzados]
  /\ lanzados \in 0 .. MaxHijos /\ generaciones \in Nat /\ mandos \in Nat /\ caidas \in Nat

\* The two marks are up only while somebody is doing what they say.
Marcas ==
  /\ relanzando => \E h \in Hilos : EnTramo(h)
  /\ vigiaAdoptado <=> \E h \in Vigias : pc[h] = "vigila"

TypeOK == Tipos /\ Marcas

Init ==
  /\ estado = [c \in Hijos |-> "nunca"] /\ restartable = [c \in Hijos |-> FALSE]
  /\ pidfile = 0 /\ p = 0
  /\ stopping = FALSE /\ relanzando = FALSE /\ vigiaAdoptado = FALSE
  /\ stopCh = 0 /\ generaciones = 0
  /\ pc = [h \in Hilos |-> "fin"] /\ gate = [h \in Hilos |-> 0] /\ hijo = [h \in Hilos |-> 0]
  /\ mando = Libre /\ lanzados = 0 /\ mandos = 0 /\ caidas = 0

-----------------------------------------------------------------------------
(***************************************************************************)
(* The processes.  A child that has died answers signal 0 until its parent *)
(* waits for it; one whose supervisor is gone is reaped by init.           *)
(***************************************************************************)
Vivo(c)  == c # 0 /\ estado[c] \in {"vivo", "avisado", "zombi"}
Hecho(c) == estado[c] = "muerto"

\* SIGTERM to a process that is still running.
TrasSenal(c) == [estado EXCEPT ![c] = IF @ = "vivo" THEN "avisado" ELSE @]
TrasMuerte(c) == [estado EXCEPT ![c] = IF pc[c] = "wait" THEN "zombi" ELSE "muerto"]

Muere(c) ==
  /\ estado[c] \in {"vivo", "avisado"}
  /\ estado' = TrasMuerte(c)
  /\ UNCHANGED <<restartable, pidfile, p, puerta, relanzando, vigiaAdoptado, hilos, mando,
                 lanzados, cotas>>

\* Somebody is in terminar(c), which ends with a SIGKILL.
Terminan(c) ==
  \/ mando.paso \in {"desiste", "para"} /\ mando.hijo = c
  \/ \E h \in Hilos : pc[h] \in {"cierra", "sobra"} /\ hijo[h] = c

Kill(c) == Terminan(c) /\ estado[c] = "avisado" /\ Muere(c)

\* Mutant: the reaper takes the mutex before it closes done.
RecogeConCandado(c) ==
  /\ SinCandado /\ pc[c] = "wait" /\ estado[c] = "zombi"
  /\ estado' = [estado EXCEPT ![c] = "muerto"]
  /\ pc' = [pc EXCEPT ![c] = "salida"]
  /\ UNCHANGED <<restartable, pidfile, p, puerta, relanzando, vigiaAdoptado, gate, hijo, mando,
                 lanzados, cotas>>

\* cmd.Wait returns and done is closed.
Recoge(c) ==
  /\ pc[c] = "wait" /\ estado[c] = "zombi"
  /\ estado' = [estado EXCEPT ![c] = "muerto"]
  /\ pc' = [pc EXCEPT ![c] = "salida"]
  /\ UNCHANGED <<restartable, pidfile, p, puerta, relanzando, vigiaAdoptado, gate, hijo, mando,
                 lanzados, cotas>>

-----------------------------------------------------------------------------
(***************************************************************************)
(* What the fields say under the mutex.                                    *)
(***************************************************************************)
\* runningLocked: the pid it returns (0 = not running) and what it cleans up.
Corre == IF p # 0 THEN (IF Hecho(p) THEN 0 ELSE p)
                  ELSE IF Vivo(pidfile) THEN pidfile ELSE 0

Limpia ==
  /\ p' = IF p # 0 /\ Hecho(p) THEN 0 ELSE p
  /\ pidfile' = IF Corre = 0 THEN 0 ELSE pidfile

\* launchLocked in generation g: exec, the reaper, the lock file.
Lanza(g) ==
  LET n == lanzados + 1
  IN  /\ lanzados < MaxHijos /\ lanzados' = n
      /\ estado' = [estado EXCEPT ![n] = "vivo"]
      /\ gate' = [gate EXCEPT ![n] = g]
      /\ pidfile' = n

AdoptLocked(n) == p' = n /\ restartable' = [restartable EXCEPT ![n] = TRUE]

\* Mutant: the lock file goes, whoever it points at.
BorraSinMirar(c) == pidfile' = 0

BorrarPIDFileSiEsDe(c) == pidfile' = IF pidfile = c THEN 0 ELSE pidfile

Va(h, l) == pc' = [pc EXCEPT ![h] = l]

\* Another generation, or nobody, is in command.
PuertaCerrada(h) == stopCh # gate[h]
Relevado(h)      == stopping \/ PuertaCerrada(h)

-----------------------------------------------------------------------------
(***************************************************************************)
(* Start, Stop and Status.                                                 *)
(***************************************************************************)
Manda == SinCandado /\ mandos < MaxMandos /\ mandos' = mandos + 1 /\ UNCHANGED caidas

\* vigilarAdoptadoLocked.
Vigila ==
  IF vigiaAdoptado
    THEN UNCHANGED <<puerta, vigiaAdoptado, hilos>>
    ELSE \E h \in Vigias :
           /\ pc[h] = "fin" /\ Va(h, "vigila")
           /\ stopping' = FALSE /\ vigiaAdoptado' = TRUE
           /\ generaciones' = IF stopCh = 0 THEN generaciones + 1 ELSE generaciones
           /\ stopCh' = generaciones'
           /\ gate' = [gate EXCEPT ![h] = stopCh']
           /\ hijo' = [hijo EXCEPT ![h] = Corre]

StartIdempotente ==
  /\ Manda /\ Corre # 0
  /\ IF p = 0 THEN Vigila ELSE UNCHANGED <<puerta, vigiaAdoptado, hilos>>
  /\ UNCHANGED <<procesos, pidfile, p, relanzando, mando, lanzados>>

\* A new generation: the exec fails, or there is a child to wait for.
Start ==
  /\ Manda /\ Corre = 0 /\ p' = 0
  /\ stopping' = FALSE
  /\ generaciones' = generaciones + 1 /\ stopCh' = generaciones + 1
  /\ \/ /\ Lanza(generaciones + 1)
        /\ Va(lanzados + 1, "wait")
        /\ mando' = [paso |-> "arranca", hijo |-> lanzados + 1]
     \/ pidfile' = 0 /\ UNCHANGED <<estado, pc, gate, mando, lanzados>>
  /\ UNCHANGED <<restartable, relanzando, vigiaAdoptado, hijo>>

\* awaitReady says yes (a probe may not know that the child has just died).
StartReady ==
  /\ mando.paso = "arranca" /\ ~Hecho(mando.hijo)
  /\ AdoptLocked(mando.hijo)
  /\ mando' = Libre
  /\ UNCHANGED <<estado, pidfile, puerta, relanzando, vigiaAdoptado, hilos, lanzados, cotas>>

\* It died, the time is over, or the caller has gone: terminar.
StartFalla ==
  /\ mando.paso = "arranca"
  /\ mando' = [paso |-> "desiste", hijo |-> mando.hijo]
  /\ estado' = TrasSenal(mando.hijo)
  /\ UNCHANGED <<restartable, pidfile, p, puerta, relanzando, vigiaAdoptado, hilos, lanzados, cotas>>

StartDesiste ==
  /\ mando.paso = "desiste" /\ Hecho(mando.hijo)
  /\ pidfile' = 0 /\ mando' = Libre
  /\ UNCHANGED <<procesos, p, puerta, relanzando, vigiaAdoptado, hilos, lanzados, cotas>>

\* The part that Stop always does: the gate is closed before anything is killed.
CierraLaPuerta == stopping' = TRUE /\ stopCh' = 0 /\ UNCHANGED generaciones

Stop ==
  /\ Manda /\ p # 0 /\ CierraLaPuerta
  /\ restartable' = [restartable EXCEPT ![p] = FALSE]
  /\ estado' = TrasSenal(p)
  /\ mando' = [paso |-> "para", hijo |-> p]
  /\ UNCHANGED <<pidfile, p, relanzando, vigiaAdoptado, hilos, lanzados>>

StopTermina ==
  /\ mando.paso = "para" /\ Hecho(mando.hijo)
  /\ p' = 0 /\ pidfile' = 0 /\ mando' = Libre
  /\ UNCHANGED <<procesos, puerta, relanzando, vigiaAdoptado, hilos, lanzados, cotas>>

\* Mutant: Stop knows of its own child only.
StopSoloPropio ==
  /\ Manda /\ p = 0 /\ CierraLaPuerta
  /\ UNCHANGED <<procesos, pidfile, p, relanzando, vigiaAdoptado, hilos, mando, lanzados>>

\* No child of its own: whoever the lock file names.
StopPorPid ==
  /\ Manda /\ p = 0 /\ CierraLaPuerta
  /\ IF Vivo(pidfile)
       THEN /\ estado' = TrasSenal(pidfile)
            /\ mando' = [paso |-> "paraPid", hijo |-> pidfile]
            /\ UNCHANGED pidfile
       ELSE pidfile' = 0 /\ UNCHANGED <<estado, mando>>
  /\ UNCHANGED <<restartable, p, relanzando, vigiaAdoptado, hilos, lanzados>>

\* waitPIDExit: it is gone, it is killed, or the caller has gone and nobody waits.
StopPidTermina ==
  /\ mando.paso = "paraPid"
  /\ \/ UNCHANGED estado
     \/ estado[mando.hijo] = "avisado" /\ estado' = TrasMuerte(mando.hijo)
  /\ pidfile' = 0 /\ mando' = Libre
  /\ UNCHANGED <<restartable, p, puerta, relanzando, vigiaAdoptado, hilos, lanzados, cotas>>

Status ==
  /\ SinCandado /\ Limpia
  /\ UNCHANGED <<procesos, puerta, relanzando, vigiaAdoptado, hilos, mando, lanzados, cotas>>

-----------------------------------------------------------------------------
(***************************************************************************)
(* trasSalida: the automatic restart, of a child or of an adopted one.     *)
(***************************************************************************)
TrasSalida(h) ==
  /\ pc[h] = "salida" /\ SinCandado
  /\ IF stopping \/ (h \in Hijos /\ ~restartable[h])
       THEN Va(h, "fin") /\ UNCHANGED <<restartable, p, pidfile>>
       ELSE /\ Va(h, "backoff")
            /\ restartable' = [c \in Hijos |-> restartable[c] /\ c # h]
            /\ IF p = h THEN p' = 0 /\ pidfile' = 0 ELSE UNCHANGED <<p, pidfile>>
  /\ UNCHANGED <<estado, puerta, relanzando, vigiaAdoptado, gate, hijo, mando, lanzados, cotas>>

\* The gate closes during the backoff.
Despierta(h) ==
  /\ pc[h] = "backoff" /\ PuertaCerrada(h)
  /\ Va(h, "fin")
  /\ UNCHANGED <<procesos, pidfile, p, puerta, relanzando, vigiaAdoptado, gate, hijo, mando,
                 lanzados, cotas>>

\* Mutant: after the backoff only the lock file is looked at.
RelanzaSinMirar(h) ==
  /\ pc[h] = "backoff" /\ SinCandado /\ Corre = 0 /\ p' = 0
  /\ Lanza(gate[h])
  /\ pc' = [pc EXCEPT ![h] = "sondea", ![lanzados + 1] = "wait"]
  /\ hijo' = [hijo EXCEPT ![h] = lanzados + 1]
  /\ relanzando' = TRUE
  /\ UNCHANGED <<restartable, puerta, vigiaAdoptado, mando, cotas>>

\* The backoff is over, in command and with nothing running: launch.
Relanza(h) ==
  /\ pc[h] = "backoff" /\ SinCandado /\ ~Relevado(h) /\ Corre = 0 /\ p' = 0
  /\ Lanza(gate[h])
  /\ pc' = [pc EXCEPT ![h] = "sondea", ![lanzados + 1] = "wait"]
  /\ hijo' = [hijo EXCEPT ![h] = lanzados + 1]
  /\ relanzando' = TRUE
  /\ UNCHANGED <<restartable, puerta, vigiaAdoptado, mando, cotas>>

\* Nothing to do any more, or the exec failed and the backoff starts again.
NoRelanza(h) ==
  /\ pc[h] = "backoff" /\ SinCandado
  /\ IF Relevado(h) THEN Va(h, "fin") /\ UNCHANGED <<p, pidfile>>
                    ELSE Limpia /\ Va(h, IF Corre # 0 THEN "fin" ELSE "backoff")
  /\ UNCHANGED <<procesos, puerta, relanzando, vigiaAdoptado, gate, hijo, mando, lanzados, cotas>>

SondeaReady(h) ==
  /\ pc[h] = "sondea" /\ ~Hecho(hijo[h])
  /\ Va(h, "lista")
  /\ UNCHANGED <<procesos, pidfile, p, puerta, relanzando, vigiaAdoptado, gate, hijo, mando,
                 lanzados, cotas>>

\* It died, the time is over, or the gate was closed: terminar.
SondeaFalla(h) ==
  /\ pc[h] = "sondea"
  /\ Va(h, "cierra")
  /\ estado' = TrasSenal(hijo[h])
  /\ UNCHANGED <<restartable, pidfile, p, puerta, relanzando, vigiaAdoptado, gate, hijo, mando,
                 lanzados, cotas>>

\* The mutex again, with a child that did not get ready.
Vuelve(h) ==
  /\ pc[h] = "cierra" /\ Hecho(hijo[h]) /\ SinCandado
  /\ relanzando' = FALSE
  /\ BorrarPIDFileSiEsDe(hijo[h])
  /\ Va(h, IF Relevado(h) THEN "fin" ELSE "backoff")
  /\ UNCHANGED <<procesos, p, puerta, vigiaAdoptado, gate, hijo, mando, lanzados, cotas>>

\* The mutex again, with a child that did: adopted, or one too many.
Adopta(h) ==
  /\ pc[h] = "lista" /\ SinCandado
  /\ relanzando' = FALSE
  /\ IF Relevado(h) \/ p # 0
       THEN Va(h, "sobra") /\ estado' = TrasSenal(hijo[h]) /\ UNCHANGED <<p, restartable>>
       ELSE Va(h, "fin") /\ AdoptLocked(hijo[h]) /\ UNCHANGED estado
  /\ UNCHANGED <<pidfile, puerta, vigiaAdoptado, gate, hijo, mando, lanzados, cotas>>

Sobra(h) ==
  /\ pc[h] = "sobra" /\ Hecho(hijo[h]) /\ SinCandado
  /\ BorrarPIDFileSiEsDe(hijo[h])
  /\ Va(h, "fin")
  /\ UNCHANGED <<procesos, p, puerta, relanzando, vigiaAdoptado, gate, hijo, mando, lanzados, cotas>>

\* vigilarAdoptado: its gate is closed, or its child has gone.
VigiaAcaba(h) ==
  /\ pc[h] = "vigila" /\ SinCandado
  /\ \/ PuertaCerrada(h) /\ Va(h, "fin")
     \/ ~Vivo(hijo[h]) /\ Va(h, IF Relevado(h) \/ p # 0 THEN "fin" ELSE "salida")
  /\ vigiaAdoptado' = FALSE
  /\ UNCHANGED <<procesos, pidfile, p, puerta, relanzando, gate, hijo, mando, lanzados, cotas>>

-----------------------------------------------------------------------------
\* wapp-ctl dies and comes back: the children and the lock file stay.
Reinicio ==
  /\ caidas < MaxCaidas /\ caidas' = caidas + 1
  /\ estado' = [c \in Hijos |-> IF estado[c] = "zombi" THEN "muerto" ELSE estado[c]]
  /\ restartable' = [c \in Hijos |-> FALSE]
  /\ p' = 0 /\ stopping' = FALSE /\ stopCh' = 0 /\ relanzando' = FALSE /\ vigiaAdoptado' = FALSE
  /\ pc' = [h \in Hilos |-> "fin"] /\ gate' = [h \in Hilos |-> 0] /\ hijo' = [h \in Hilos |-> 0]
  /\ mando' = Libre
  /\ UNCHANGED <<pidfile, generaciones, lanzados, mandos>>

NextMando ==
  \/ StartIdempotente \/ Start \/ StartReady \/ StartFalla \/ StartDesiste
  \/ Stop \/ StopTermina \/ StopPorPid \/ StopPidTermina \/ Status

NextHilo(h) ==
  \/ TrasSalida(h) \/ Despierta(h) \/ Relanza(h) \/ NoRelanza(h)
  \/ SondeaReady(h) \/ SondeaFalla(h) \/ Vuelve(h) \/ Adopta(h) \/ Sobra(h) \/ VigiaAcaba(h)

Next ==
  \/ \E c \in Hijos : Muere(c) \/ Kill(c) \/ Recoge(c)
  \/ NextMando
  \/ \E h \in Hilos : NextHilo(h)
  \/ Reinicio

\* The threads run, their timers fire, a wait ends when what it waits for has
\* happened, and SIGKILL kills.  Nothing is assumed of children or operators.
Justicia ==
  /\ \A c \in Hijos : WF_vars(Kill(c)) /\ WF_vars(Recoge(c))
  /\ \A h \in Hilos : WF_vars(NextHilo(h))
  /\ WF_vars(StartReady \/ StartFalla) /\ WF_vars(StartDesiste)
  /\ WF_vars(StopTermina) /\ WF_vars(StopPidTermina)

Spec      == Init /\ [][Next]_vars
SpecJusta == Spec /\ Justicia
-----------------------------------------------------------------------------
\* Anti-duplicado: a child that nobody has told to stop is the one that the lock
\* file names, so there is one at most, and the next Start finds it, whoever
\* launched it, adopted or not, after any race of restarts, Stop and Start, and
\* after the death of wapp-ctl.
LockFiel == \A c \in Hijos : estado[c] = "vivo" => pidfile = c

\* ... with one exception: the field holds a dead child and the file names
\* another, which is then lost when the dead one is cleaned up.  A restart gets
\* there when it adopts a child whose reaper has come and gone (AlguienRelanza).
LimpiezaCiega == p # 0 /\ Hecho(p) /\ pidfile # p

\* Nothing else makes the lock file lose a child: no interleaving of reapers,
\* restart loops, watchers, Start and Stop, and no death of wapp-ctl.
LockSoloCiego == [][LockFiel /\ ~LockFiel' => LimpiezaCiega]_vars

\* Stop wins: until the next Start no restart launches or adopts a child.
StopGana == [][stopping /\ stopping' => lanzados' = lanzados /\ p' \in {0, p}]_vars

\* ... and every child has been told to stop, the one whose restart Stop caught
\* half-way and the adopted one included, unless the lock file has lost one.
ParadaManda == []LockFiel /\ <>[]stopping => <>[](\A c \in Hijos : estado[c] # "vivo")

\* Start and Stop return: nobody waits with the mutex for one who wants it.
MandoVuelve == mando.paso # "libre" ~> mando.paso = "libre"

\* supervisor.go: "Con relanzado automatico activo, Stop es la UNICA forma de que
\* el hijo se quede abajo".  An adopted child that has died with a right to be
\* restarted still has its reaper to do it.
AlguienRelanza == p # 0 /\ Hecho(p) /\ restartable[p] => pc[p] = "salida"
=============================================================================
