----------------------------- MODULE Edge_proofs -----------------------------
(***************************************************************************)
(* Theorems about components of the Edge that share no state: the shutdown *)
(* of the daemon, the pushed configuration, the listening cycles, the      *)
(* migration of the old layout, the report of the cajero, the door of the  *)
(* messages, the refresh of the tokens, the claims, the correlator.        *)
(***************************************************************************)
EXTENDS Daemon, EdgeConfig, CicloEscucha, Migracion, ParteCajero, PuertaEntrada, AuthManager, ColaCajero,
        Correlador, FiniteSetTheorems, FunctionTheorems, SequenceTheorems, WellFoundedInduction, TLAPS

(***************************************************************************)
(* Daemon: the orderly shutdown, for any number of sessions and pairings   *)
(* and any backlog of the inbox.                                           *)
(***************************************************************************)

\* Once Stop has returned, the threads that run are the ones armed after it.
ParadaEntera == plano = "cerrado" /\ StopVolvio => escuchan \subseteq tardias

\* The inbox is open from the wiring to the deferred calls.
ColaEnServicio == enRun \in {"BD", "cola", "sale", "fin"} \/ "cola" \in abiertas

\* The server of /v1 is closed, and the final block written, on the way out only.
Orden ==
  /\ plano = "cerrado" => enRun \in {"cierra", "para", "espera", "bloque", "sale", "fin"}
  /\ plano = "no" => enRun \notin {"sirve", "cierra", "para", "espera", "bloque"}
  /\ foto # {} => StopVolvio

\* What the count saw is still true unless there is a late session or a late injection.
FotoFiel == plano = "cerrado" /\ tardias = {} /\ ~inyectada => \A f \in foto : f = pendientes

CierreInv == ParadaEntera /\ ColaEnServicio /\ Orden /\ FotoFiel

LEMMA CierreInicial == InitDaemon => CierreInv
  BY DEF InitDaemon, CierreInv, ParadaEntera, ColaEnServicio, Orden, FotoFiel, StopVolvio

LEMMA CierreSeConserva == CierreInv /\ [NextDaemon]_varsD => CierreInv'
<1> SUFFICES ASSUME CierreInv, [NextDaemon]_varsD PROVE CierreInv'
  OBVIOUS
<1> USE DEF CierreInv, ParadaEntera, ColaEnServicio, Orden, FotoFiel, StopVolvio, sesionesD, colaD
<1>1. CASE AbreBD
  BY <1>1 DEF AbreBD, AbreBase
<1>2. CASE AbreCola
  BY <1>2 DEF AbreCola, AbreBase
<1>3. CASE Cablea
  BY <1>3 DEF Cablea
<1>4. CASE RestoreSesiones
  BY <1>4 DEF RestoreSesiones
<1>5. CASE ListenV1
  BY <1>5 DEF ListenV1
<1>6. CASE SenalDeCierre \/ CaeV1 \/ Peticion \/ TomaListener \/ InyectarEntrante \/ FlujoSale
  BY <1>6 DEF SenalDeCierre, CaeV1, Peticion, TomaListener, InyectarEntrante, FlujoSale
<1>7. ASSUME NEW n \in Nuevas, StartPairing(n) \/ ParRegistra(n) \/ ParGuarda(n) \/ ParFalla(n)
      PROVE CierreInv'
  BY <1>7 DEF StartPairing, ParRegistra, ParGuarda, ParFalla
<1>8. ASSUME NEW n \in Nuevas, ParArma(n) PROVE CierreInv'
  BY <1>8 DEF ParArma
<1>9. ASSUME NEW s \in Activas \cup Nuevas, Entrante(s) PROVE CierreInv'
  BY <1>9 DEF Entrante
<1>10. ASSUME NEW s \in Activas \cup Nuevas, EscuchaSale(s) PROVE CierreInv'
  BY <1>10 DEF EscuchaSale
<1>11. CASE SaleDelSelect \/ ShutdownV1
  BY <1>11 DEF SaleDelSelect, ShutdownV1
<1>12. CASE StopManager
  BY <1>12 DEF StopManager
<1>13. CASE StopEspera
  BY <1>13 DEF StopEspera
<1>14. CASE BloqueFinal
  BY <1>14 DEF BloqueFinal
<1>15. CASE Difiere
  BY <1>15 DEF Difiere
<1>16. CASE UNCHANGED varsD
  BY <1>16 DEF varsD
<1> QED
  BY <1>1, <1>2, <1>3, <1>4, <1>5, <1>6, <1>7, <1>8, <1>9, <1>10, <1>11, <1>12, <1>13, <1>14,
     <1>15, <1>16 DEF NextDaemon

(***************************************************************************)
(* The listeners are gone before the inbox is closed, and the count of the *)
(* final block stays true (daemon.go:363-377).                             *)
(***************************************************************************)
THEOREM CierreSeguro == SpecDaemon => []CierreEnOrden
<1>1. InitDaemon => CierreInv
  BY CierreInicial
<1>2. CierreInv /\ [NextDaemon]_varsD => CierreInv'
  BY CierreSeConserva
<1>3. CierreInv => CierreEnOrden
  BY DEF CierreInv, ParadaEntera, ColaEnServicio, Orden, FotoFiel, StopVolvio, CierreEnOrden
<1> QED
  BY <1>1, <1>2, <1>3, PTL DEF SpecDaemon

-----------------------------------------------------------------------------
(***************************************************************************)
(* EdgeConfig: Apply by any number of workers, any versions and restarts.  *)
(***************************************************************************)

TrasValidar == {"pone", "notifica"}

\* aplicaMu is held by the Apply that is in its critical section, and only by it.
Candado ==
  \A w \in Aplicadores : cpc[w] \in {"valida"} \cup TrasValidar <=> aplicaMu = w

\* What passed the validator is still later than memory, and what was Put is on disk.
EnCurso ==
  \A w \in Aplicadores :
    /\ cpc[w] \in TrasValidar => Posterior(frame[w].tipo, frame[w].version)
    /\ cpc[w] = "notifica" => edgeConfig[frame[w].tipo] = frame[w].version

\* A kind on which disk and memory differ is about to be notified, or blind.
Diferencia ==
  listo => \A k \in TiposConfig \ ciegos :
             edgeConfig[k] # vigente[k]
               => \E w \in Aplicadores : cpc[w] = "notifica" /\ frame[w].tipo = k

AntesDeBootstrap ==
  ~listo => /\ \A w \in Aplicadores : cpc[w] = "libre"
            /\ \A k \in TiposConfig : vigente[k] = 0

Funciones ==
  /\ DOMAIN edgeConfig = TiposConfig /\ DOMAIN vigente = TiposConfig
  /\ DOMAIN cpc = Aplicadores /\ DOMAIN frame = Aplicadores
  /\ \A w \in Aplicadores : frame[w].tipo \in TiposConfig

ConfigInv == Funciones /\ Candado /\ EnCurso /\ Diferencia /\ AntesDeBootstrap

LEMMA ConfigInicial == InitConfig => ConfigInv
  BY SinAplicador
  DEF InitConfig, ConfigInv, Funciones, Candado, EnCurso, Diferencia, AntesDeBootstrap,
      TrasValidar, Nulo, TiposConfig

LEMMA NuloValido == Nulo.tipo \in TiposConfig
  BY DEF Nulo, TiposConfig

LEMMA ConfigSeConserva == ConfigInv /\ [NextConfig]_varsConfig => ConfigInv'
<1> SUFFICES ASSUME ConfigInv, [NextConfig]_varsConfig PROVE ConfigInv'
  OBVIOUS
<1> USE SinAplicador
    DEF ConfigInv, Funciones, Candado, EnCurso, Diferencia, AntesDeBootstrap, TrasValidar,
        discoConfig, hilosConfig, entornoConfig, Posterior
<1>1. CASE Bootstrap
  BY <1>1 DEF Bootstrap
<1>2. CASE Publica
  BY <1>2 DEF Publica
<1>3. CASE ReiniciaConfig
  BY <1>3, NuloValido DEF ReiniciaConfig
<1>4. ASSUME NEW w \in Aplicadores, HandleConfigUpdate(w) PROVE ConfigInv'
  BY <1>4 DEF HandleConfigUpdate
<1>5. ASSUME NEW w \in Aplicadores, Get(w) PROVE ConfigInv'
  BY <1>5, NuloValido DEF Get, Devuelve, Avanza
<1>6. ASSUME NEW w \in Aplicadores, Validar(w) PROVE ConfigInv'
  BY <1>6, NuloValido DEF Validar, Devuelve, Avanza
<1>7. ASSUME NEW w \in Aplicadores, Put(w) PROVE ConfigInv'
  <2>1. \A v \in Aplicadores : cpc[v] = "pone" \/ cpc[v] = "notifica" => v = w
    BY <1>7 DEF Put
  <2>2. Candado'
    BY <1>7, <2>1 DEF Put, Avanza
  <2>3. EnCurso'
    <3> SUFFICES ASSUME NEW v \in Aplicadores, cpc'[v] \in TrasValidar
                 PROVE  /\ Posterior(frame[v].tipo, frame[v].version)
                        /\ cpc'[v] = "notifica" => edgeConfig'[frame[v].tipo] = frame[v].version
      BY <1>7 DEF Put, Avanza
    <3>1. v = w
      BY <1>7, <2>1 DEF Put, Avanza
    <3> QED
      BY <1>7, <3>1 DEF Put, Avanza
  <2>4. Diferencia'
    BY <1>7, <2>1 DEF Put, Avanza
  <2> QED
    BY <1>7, <2>2, <2>3, <2>4 DEF Put, Avanza
<1>8. ASSUME NEW w \in Aplicadores, PutFalla(w) PROVE ConfigInv'
  BY <1>8, NuloValido DEF PutFalla, Devuelve
<1>9. ASSUME NEW w \in Aplicadores, Notify(w) PROVE ConfigInv'
  BY <1>9, NuloValido DEF Notify, Devuelve
<1>10. CASE UNCHANGED varsConfig
  BY <1>10 DEF varsConfig
<1> QED
  BY <1>1, <1>2, <1>3, <1>4, <1>5, <1>6, <1>7, <1>8, <1>9, <1>10 DEF NextConfig

(***************************************************************************)
(* With no Apply between its Put and its notification, what the Edge runs  *)
(* with is what a restart would load (service.go:40-56).                   *)
(***************************************************************************)
THEOREM DiscoSigueAMemoria == SpecConfig => []DiscoYMemoria
<1>1. InitConfig => ConfigInv
  BY ConfigInicial
<1>2. ConfigInv /\ [NextConfig]_varsConfig => ConfigInv'
  BY ConfigSeConserva
<1>3. ConfigInv => DiscoYMemoria
  BY DEF ConfigInv, Diferencia, DiscoYMemoria
<1> QED
  BY <1>1, <1>2, <1>3, PTL DEF SpecConfig

-----------------------------------------------------------------------------
(***************************************************************************)
(* CicloEscucha: any number of cycles and of abandoned loads.              *)
(***************************************************************************)

\* A cycle to come has no load.
SinEmpezar == \A k \in Ciclos : k > ciclo => carga[k] = "no"

\* What Unlink has joined does not run.
Unida == baja \in {"olvida", "hecha"} => hilo \in {"quieto", "fin"} /\ ~despachando

Dominios == DOMAIN dek = Ciclos /\ DOMAIN carga = Ciclos /\ ciclo \in Nat

EscuchaInv == Dominios /\ DEKBorrada /\ SinEmpezar /\ Unida

LEMMA CicloQueEmpieza ==
  ASSUME ciclo \in Nat, DOMAIN carga = Ciclos, SinEmpezar, RunListenOnce
  PROVE  /\ SinEmpezar' /\ ciclo' \in Nat /\ DOMAIN carga' = Ciclos
         /\ \A k \in Ciclos : k = ciclo' \/ carga'[k] = carga[k]
         /\ \A k \in Ciclos : k = ciclo' => carga[k] = "no"
<1>1. ciclo' = ciclo + 1
  BY DEF RunListenOnce
<1>2. carga' = [carga EXCEPT ![ciclo'] = "en curso"]
  BY <1>1 DEF RunListenOnce
<1>3. \A k \in Ciclos : k = ciclo' => carga[k] = "no"
  BY <1>1 DEF SinEmpezar, Ciclos
<1>4. \A k \in Ciclos : k = ciclo' \/ carga'[k] = carga[k]
  BY <1>2
<1>5. \A k \in Ciclos : k > ciclo' => k > ciclo /\ k # ciclo'
  BY <1>1 DEF Ciclos
<1>6. SinEmpezar'
  BY <1>4, <1>5 DEF SinEmpezar
<1>7. ciclo' \in Nat
  BY <1>1
<1>8. DOMAIN carga' = Ciclos
  BY <1>2
<1> QED
  BY <1>3, <1>4, <1>6, <1>7, <1>8

LEMMA EscuchaInicial == InitEscucha => EscuchaInv
  BY CiclosAssumption
  DEF InitEscucha, EscuchaInv, Dominios, DEKBorrada, SinEmpezar, Unida

LEMMA EscuchaSeConserva == EscuchaInv /\ [NextEscucha]_varsEscucha => EscuchaInv'
<1> SUFFICES ASSUME EscuchaInv, [NextEscucha]_varsEscucha PROVE EscuchaInv'
  OBVIOUS
<1> USE CiclosAssumption
    DEF EscuchaInv, Dominios, DEKBorrada, SinEmpezar, Unida, Ciclos, Fallos, hiloVars
<1>1. CASE StartListener
  BY <1>1 DEF StartListener
<1>2. CASE RunListenOnce
  BY <1>2, CicloQueEmpieza DEF RunListenOnce
<1>3. CASE TomaDEK
  BY <1>3 DEF TomaDEK
<1>4. CASE Abandona
  BY <1>4 DEF Abandona
<1>5. CASE Serve
  BY <1>5 DEF Serve
<1>6. CASE ServeFalla \/ ServeTermina
  BY <1>6 DEF ServeFalla, ServeTermina, SaleDeRun
<1>7. CASE Degrada \/ FinDeEspera \/ SignalDone
  BY <1>7 DEF Degrada, FinDeEspera, SignalDone
<1>8. ASSUME NEW k \in Ciclos, LoadVuelve(k) PROVE EscuchaInv'
  BY <1>8 DEF LoadVuelve
<1>9. ASSUME NEW k \in Ciclos, OnLate(k) PROVE EscuchaInv'
  BY <1>9 DEF OnLate
<1>10. ASSUME NEW k \in AvisosWA, LlamaWA(k) PROVE EscuchaInv'
  BY <1>10 DEF LlamaWA
<1>11. ASSUME NEW k \in AvisosWA, HandleEvent(k) PROVE EscuchaInv'
  BY <1>11 DEF HandleEvent, AvisosWA
<1>12. CASE CabezaDeSesionAbre \/ DespachadorSale
  BY <1>12 DEF CabezaDeSesionAbre, DespachadorSale
<1>13. CASE StopLiveCancela \/ UneYOlvida \/ RemoveSalud
  BY <1>13 DEF StopLiveCancela, UneYOlvida, RemoveSalud
<1>14. CASE UNCHANGED varsEscucha
  BY <1>14 DEF varsEscucha
<1> QED
  BY <1>1, <1>2, <1>3, <1>4, <1>5, <1>6, <1>7, <1>8, <1>9, <1>10, <1>11, <1>12, <1>13, <1>14
  DEF NextEscucha, HiloSigue

(***************************************************************************)
(* The DEK is in clear only while its socket lives or a load is on its way *)
(* to be picked up, however many loads were abandoned (app/listen.go:21).  *)
(***************************************************************************)
THEOREM DEKSoloViva == SpecEscucha => []DEKBorrada
<1>1. InitEscucha => EscuchaInv
  BY EscuchaInicial
<1>2. EscuchaInv /\ [NextEscucha]_varsEscucha => EscuchaInv'
  BY EscuchaSeConserva
<1>3. EscuchaInv => DEKBorrada
  BY DEF EscuchaInv
<1> QED
  BY <1>1, <1>2, <1>3, PTL DEF SpecEscucha

(***************************************************************************)
(* Neither health nor key of an unlinked session comes back, but for what  *)
(* the join cannot reach (unlink.go:178-195).                              *)
(***************************************************************************)
THEOREM OlvidoDefinitivo == SpecEscucha => NadaTrasUnir
<1> DEFINE SoloDeFuera ==
      /\ baja \in {"olvida", "hecha"} /\ ~sobre /\ sobre' => "Message" \in llamadas \ llamadas'
      /\ baja = "hecha" /\ salud = SinEntrada /\ salud' # SinEntrada =>
           llamadas' # llamadas \/ \E k \in Ciclos : carga[k] = "tarde" /\ carga'[k] = "hecha"
<1>1. InitEscucha => EscuchaInv
  BY EscuchaInicial
<1>2. EscuchaInv /\ [NextEscucha]_varsEscucha => EscuchaInv'
  BY EscuchaSeConserva
<1>3. EscuchaInv /\ [NextEscucha]_varsEscucha => [SoloDeFuera]_varsEscucha
  <2> SUFFICES ASSUME EscuchaInv, NextEscucha PROVE SoloDeFuera
    BY DEF SoloDeFuera
  <2> USE DEF EscuchaInv, Dominios, Unida, hiloVars
  <2>1. ASSUME NEW k \in AvisosWA, HandleEvent(k) PROVE SoloDeFuera
    BY <2>1 DEF HandleEvent, ConEntrada
  <2>2. ASSUME NEW k \in Ciclos, OnLate(k) PROVE SoloDeFuera
    BY <2>2 DEF OnLate
  <2>3. ASSUME NEW k \in Ciclos, LoadVuelve(k) PROVE SoloDeFuera
    BY <2>3 DEF LoadVuelve
  <2>4. CASE StartListener \/ HiloSigue
    BY <2>4 DEF StartListener, HiloSigue, RunListenOnce, TomaDEK, Abandona, Serve, ServeFalla,
                ServeTermina, SaleDeRun, Degrada, FinDeEspera, SignalDone, Fallos
  <2>5. ASSUME NEW k \in AvisosWA, LlamaWA(k) PROVE SoloDeFuera
    BY <2>5 DEF LlamaWA
  <2>6. CASE CabezaDeSesionAbre \/ DespachadorSale \/ StopLiveCancela \/ UneYOlvida \/ RemoveSalud
    BY <2>6 DEF CabezaDeSesionAbre, DespachadorSale, StopLiveCancela, UneYOlvida, RemoveSalud
  <2> QED
    BY <2>1, <2>2, <2>3, <2>4, <2>5, <2>6 DEF NextEscucha
<1> QED
  BY <1>1, <1>2, <1>3, PTL DEF SpecEscucha, NadaTrasUnir


(***************************************************************************)
(* Migracion: whatever fails and wherever the process dies, a session of   *)
(* the old layout stays whole in one place, for any number of sessions and *)
(* of starts.  Every move of data is covered by a place that still holds   *)
(* the whole session, and the purge, the only step that destroys one, is   *)
(* reached only with the rows, the key and the registry written.           *)
(***************************************************************************)

\* The trees, and the step of restoreOneSession in progress.
DominiosMig ==
  /\ viejo \in [Heredadas -> Arbol] /\ archivo \in [Heredadas -> Arbol]
  /\ filas \in [Heredadas -> Arbol] /\ llave \in [Heredadas -> BOOLEAN]
  /\ dispositivo \in [Heredadas -> {"no", "active", "loggedout"}]
  /\ faltan \subseteq Heredadas /\ suyas \subseteq Heredadas
  /\ paso \in {Ninguna} \cup [en : Pasos, id : Heredadas]

\* A session no move has tried is whole under sessions/, with no archive and no rows.
SinMover(s) == viejo[s] = "entero" /\ archivo[s] = "no" /\ filas[s] = "no"

\* Before the archive directory exists nothing has moved; during the pass, what is left of it has not.
SoloUnaPasada ==
  /\ \A s \in suyas : ~archivada \/ (etapa = "archiva" /\ s \in faltan) => SinMover(s)
  /\ etapa = "archiva" /\ faltan # {} => archivada
  /\ etapa \in {"apagado", "plano"} => faltan = {}

\* Rows are copied whole from a whole archive, and never overwritten by a partial one.
CopiaEntera ==
  \A s \in suyas : archivo[s] = "entero" => filas[s] \in {"no", "entero"}

\* The restoration in progress has done everything before its step.
PasosHechos ==
  paso # Ninguna =>
    /\ etapa = "restaura"
    /\ paso.en \in {"custodia", "registra", "verifica", "purga"} => filas[paso.id] # "no"
    /\ paso.en \in {"registra", "verifica", "purga"} => llave[paso.id]
    /\ paso.en \in {"verifica", "purga"} => dispositivo[paso.id] # "no"

\* A session is restored only from an archive.
HayArchivo == etapa = "restaura" => \A s \in faltan : archivo[s] # "no"
PasoEnCurso == paso # Ninguna => paso.id \in faltan

MigracionInv ==
  /\ DominiosMig /\ SoloUnaPasada /\ CopiaEntera /\ PasosHechos /\ HayArchivo /\ PasoEnCurso
  /\ NadaSePierde

LEMMA MigracionInicial == InitMig => MigracionInv
  BY DEF InitMig, MigracionInv, DominiosMig, SoloUnaPasada, SinMover, CopiaEntera, PasosHechos,
         HayArchivo, PasoEnCurso, NadaSePierde, Arbol, Ninguna, Pasos

LEMMA MigracionSeConserva == MigracionInv /\ [NextMig]_varsMig => MigracionInv'
<1> SUFFICES ASSUME MigracionInv, [NextMig]_varsMig PROVE MigracionInv'
  OBVIOUS
<1> USE DEF MigracionInv, DominiosMig, SoloUnaPasada, SinMover, CopiaEntera, PasosHechos, HayArchivo,
            PasoEnCurso, NadaSePierde, Arbol, Ninguna, Pasos, discoMig, baseMig, EntraEn
<1>1. CASE Inicia \/ MuereMig \/ ArchiveLegacySingleSession
  BY <1>1 DEF Inicia, MuereMig, ArchiveLegacySingleSession
<1>2. CASE ArchiveLegacyPerSessionLayout
  BY <1>2 DEF ArchiveLegacyPerSessionLayout, Hay
<1>3. CASE RestoreArchivedActiveSessions
  BY <1>3 DEF RestoreArchivedActiveSessions, Restaura, Hay
<1>4. ASSUME NEW f \in {"db", "dek"}, ArchiveFile(f) PROVE MigracionInv'
  BY <1>4 DEF ArchiveFile
<1>5. ASSUME NEW s \in Heredadas, MoveDir(s) PROVE MigracionInv'
  BY <1>5 DEF MoveDir, Mueve
<1>6. ASSUME NEW s \in Heredadas, MoveDirFalla(s) PROVE MigracionInv'
  BY <1>6 DEF MoveDirFalla
<1>7. ASSUME NEW s \in Heredadas, RestoreOneSession(s) \/ ReadPairedDevice(s) PROVE MigracionInv'
  BY <1>7 DEF RestoreOneSession, ReadPairedDevice, En1, SigueEn
<1>8. ASSUME NEW s \in Heredadas, RegisterLoggedOut(s) PROVE MigracionInv'
  BY <1>8 DEF RegisterLoggedOut, En1, AcabaRestauracion, Restaura
<1>9. ASSUME NEW s \in Heredadas, CopyEncryptedRows(s) PROVE MigracionInv'
  BY <1>9 DEF CopyEncryptedRows, En1, SigueEn
<1>10. ASSUME NEW s \in Heredadas, CustodiaDEK(s) PROVE MigracionInv'
  BY <1>10 DEF CustodiaDEK, En1, SigueEn
<1>11. ASSUME NEW s \in Heredadas, UpsertActiva(s) PROVE MigracionInv'
  BY <1>11 DEF UpsertActiva, En1, SigueEn
<1>12. ASSUME NEW s \in Heredadas, VerifyMigrated(s) PROVE MigracionInv'
  BY <1>12 DEF VerifyMigrated, En1, SigueEn
<1>13. ASSUME NEW s \in Heredadas, SeConserva(s) PROVE MigracionInv'
  BY <1>13 DEF SeConserva, En1, AcabaRestauracion, Restaura
<1>14. ASSUME NEW s \in Heredadas, Purga(s) PROVE MigracionInv'
  BY <1>14 DEF Purga, En1, AcabaRestauracion, Restaura
<1>15. ASSUME NEW s \in Heredadas, DesvinculaMig(s) PROVE MigracionInv'
  BY <1>15 DEF DesvinculaMig, procesoMig
<1>16. CASE UNCHANGED varsMig
  BY <1>16 DEF varsMig, procesoMig
<1> QED
  BY <1>1, <1>2, <1>3, <1>4, <1>5, <1>6, <1>7, <1>8, <1>9, <1>10, <1>11, <1>12, <1>13, <1>14, <1>15,
     <1>16 DEF NextMig

\* Until the user unlinks it, every session of the old layout is whole in one
\* place: its directory, its archive, or the database with its DEK and its row,
\* whatever step fails and wherever the process dies.
THEOREM NingunaSesionSePierde == SpecMig => []NadaSePierde
<1>1. MigracionInv => NadaSePierde
  BY DEF MigracionInv
<1> QED
  BY <1>1, MigracionInicial, MigracionSeConserva, PTL DEF SpecMig

(***************************************************************************)
(* ParteCajero: how long the report of a dead cajero is believed, for any  *)
(* number of installations, processes and settings of the clock.           *)
(***************************************************************************)

\* How many more instants a report of stamp ts can be believed, if the clock is not set back.
Vida(ts) ==
  IF ahora > ts + Rancio THEN 0
  ELSE IF ts <= ahora + Rancio THEN ts + Rancio + 1 - ahora ELSE 2 * Rancio + 1

Credito == (Rancio + 1) + atrasos * (2 * Rancio + 1)

DomParte ==
  /\ ahora \in Nat /\ atrasos \in Nat /\ tanda.ts \in Nat /\ heredado \in [Instalaciones -> Nat]
  /\ parte \in [Instalaciones -> [ts : Nat, autor : Nat]] /\ proceso.n \in Nat

\* The stamp of a round in progress is in the future only if the clock has been set back.
TandaDelReloj == tanda.ts > ahora => atrasos > 0

ParteInv ==
  /\ DomParte /\ TandaDelReloj
  /\ \A q \in Instalaciones : heredado[q] + (IF parte[q].ts = 0 THEN 0 ELSE Vida(parte[q].ts)) <= Credito

LEMMA CreditoCrece ==
  ASSUME NEW a \in Nat, NEW r \in Nat
  PROVE  /\ (a + 1) * (2 * r + 1) = a * (2 * r + 1) + (2 * r + 1)
         /\ a * (2 * r + 1) \in Nat /\ (a > 0 => a * (2 * r + 1) >= 2 * r + 1)
<1>1. (a + 1) * (2 * r + 1) = a * (2 * r + 1) + (2 * r + 1) /\ a * (2 * r + 1) \in Nat
  OBVIOUS
<1>2. ASSUME a > 0 PROVE a * (2 * r + 1) >= 2 * r + 1
  <2>1. PICK b \in Nat : a = b + 1
    BY <1>2
  <2>2. (b + 1) * (2 * r + 1) = b * (2 * r + 1) + (2 * r + 1) /\ b * (2 * r + 1) \in Nat
    OBVIOUS
  <2> QED
    BY <2>1, <2>2
<1> QED
  BY <1>1, <1>2

LEMMA VidaAcotada ==
  ASSUME NEW ts \in Nat, ahora \in Nat
  PROVE  /\ Vida(ts) \in 0 .. 2 * Rancio + 1 /\ (ts <= ahora => Vida(ts) <= Rancio + 1)
  BY ParteAssumption DEF Vida

LEMMA ParteInicial == InitParte => ParteInv
<1> SUFFICES ASSUME InitParte PROVE ParteInv
  OBVIOUS
<1> QED
  BY ParteAssumption DEF InitParte, ParteInv, DomParte, TandaDelReloj, SinTanda, Credito

LEMMA PartePaso == ParteInv /\ [NextParte]_varsParte => ParteInv'
<1> SUFFICES ASSUME ParteInv, [NextParte]_varsParte PROVE ParteInv'
  OBVIOUS
<1> USE ParteAssumption
<1>1. CASE RunCajero \/ PublicarParte \/ MuereProceso
  <2>1. proceso'.n \in Nat
    BY <1>1 DEF ParteInv, DomParte, RunCajero, PublicarParte, MuereProceso
  <2>2. tanda'.ts \in {0, ahora}
    BY <1>1 DEF RunCajero, PublicarParte, MuereProceso, SinTanda
  <2>3. UNCHANGED <<ahora, atrasos, parte, heredado>>
    BY <1>1 DEF RunCajero, PublicarParte, MuereProceso
  <2>4. DomParte' /\ TandaDelReloj'
    BY <2>1, <2>2, <2>3 DEF ParteInv, DomParte, TandaDelReloj
  <2> QED
    BY <2>3, <2>4 DEF ParteInv, Vida, Credito
<1>2. ASSUME NEW q \in Instalaciones, Escribe(q) PROVE ParteInv'
  <2>1. UNCHANGED <<ahora, atrasos, proceso>> /\ tanda'.ts = tanda.ts
    BY <1>2 DEF Escribe
  <2>2. TandaDelReloj'
    BY <2>1 DEF ParteInv, TandaDelReloj
  <2>3. CASE UNCHANGED <<parte, heredado>>
    BY <2>1, <2>2, <2>3 DEF ParteInv, DomParte, Vida, Credito
  <2>4. CASE /\ parte' = [parte EXCEPT ![q] = [ts |-> tanda.ts, autor |-> proceso.n]]
             /\ heredado' = [heredado EXCEPT ![q] = 0]
    <3>1. DomParte'
      BY <2>1, <2>4 DEF ParteInv, DomParte
    <3>2. heredado'[q] = 0 /\ parte'[q].ts = tanda.ts
      BY <2>4 DEF ParteInv, DomParte
    <3>3. Vida(tanda.ts) <= Credito
      BY SMTT(30), CreditoCrece, VidaAcotada DEF ParteInv, DomParte, TandaDelReloj, Credito
    <3>4. \A r \in Instalaciones : r # q => heredado'[r] = heredado[r] /\ parte'[r] = parte[r]
      BY <2>4 DEF ParteInv, DomParte
    <3>5. Vida(tanda.ts) \in Nat /\ Credito \in Nat
      BY CreditoCrece, VidaAcotada DEF ParteInv, DomParte, Credito
    <3>6. ASSUME NEW r \in Instalaciones
          PROVE  heredado'[r] + (IF parte'[r].ts = 0 THEN 0 ELSE Vida(parte'[r].ts)) <= Credito
      BY <3>2, <3>3, <3>4, <3>5 DEF ParteInv
    <3> QED
      BY <2>1, <2>2, <3>1, <3>6 DEF ParteInv, Vida, Credito
  <2> QED
    BY <1>2, <2>3, <2>4 DEF Escribe
<1>3. CASE Tic
  <2>1. ahora' = ahora + 1 /\ UNCHANGED <<atrasos, proceso, tanda, parte>>
    BY <1>3 DEF Tic
  <2>2. \A q \in Instalaciones :
          heredado'[q] \in {heredado[q], IF HayParte(q) THEN heredado[q] + 1 ELSE heredado[q]}
    BY <1>3 DEF Tic
  <2>3. DomParte' /\ TandaDelReloj'
    BY <1>3 DEF ParteInv, DomParte, TandaDelReloj, Tic
  <2>4. ASSUME NEW q \in Instalaciones
        PROVE  (heredado[q] + (IF parte[q].ts = 0 THEN 0 ELSE Vida(parte[q].ts)) <= Credito)'
    BY <2>1, <2>2, CreditoCrece DEF ParteInv, DomParte, HayParte, Fresco, Vida, Credito
  <2> QED
    BY <2>3, <2>4 DEF ParteInv
<1>4. CASE Atrasa
  <2>1. DomParte' /\ TandaDelReloj'
    BY <1>4 DEF ParteInv, DomParte, TandaDelReloj, Atrasa
  <2>2. UNCHANGED <<parte, heredado>> /\ atrasos' = atrasos + 1 /\ ahora' \in Nat
    BY <1>4 DEF ParteInv, DomParte, Atrasa
  <2>3. Credito' = Credito + 2 * Rancio + 1 /\ Credito \in Nat
    BY <2>2, CreditoCrece DEF ParteInv, DomParte, Credito
  <2>4. ASSUME NEW q \in Instalaciones
        PROVE  (heredado[q] + (IF parte[q].ts = 0 THEN 0 ELSE Vida(parte[q].ts)) <= Credito)'
    <3>1. heredado[q] \in Nat /\ heredado[q] <= Credito /\ parte[q].ts \in Nat
      BY VidaAcotada, <2>3 DEF ParteInv, DomParte
    <3>2. Vida(parte[q].ts)' \in 0 .. 2 * Rancio + 1
      BY <3>1, <2>2 DEF Vida
    <3> QED
      BY <2>2, <2>3, <3>1, <3>2
  <2> QED
    BY <2>1, <2>4 DEF ParteInv
<1>5. CASE UNCHANGED varsParte
  BY <1>5 DEF varsParte, ParteInv, DomParte, TandaDelReloj, Vida, Credito
<1> QED
  BY <1>1, <1>2, <1>3, <1>4, <1>5 DEF NextParte

\* A report without a living author is believed for one ParteRancio, and for two more each
\* time the clock is set back (health/collector.go, parteDelWorker).
THEOREM ParteCaduca == SpecParte => []SaludCaduca
<1>1. ParteInv => SaludCaduca
  <2> SUFFICES ASSUME ParteInv, NEW q \in Instalaciones PROVE heredado[q] <= Credito
    BY DEF SaludCaduca, Credito
  <2>1. heredado[q] \in Nat /\ parte[q].ts \in Nat /\ ahora \in Nat /\ Credito \in Nat
    BY CreditoCrece, ParteAssumption DEF ParteInv, DomParte, Credito
  <2> QED
    BY <2>1, VidaAcotada DEF ParteInv
<1> QED
  BY <1>1, ParteInicial, PartePaso, PTL DEF SpecParte

(***************************************************************************)
(* PuertaEntrada: the window of the door, for any messages, any margin and *)
(* any number of sockets.                                                  *)
(***************************************************************************)

Cartas == [donde : {"telefono", "servidor", "mano", "retenido", "acusado"}, clase : Clases, ts : Nat,
           rastro : {"nada", "fila", "ventana", "puerta"}]

DomPuerta ==
  /\ reloj \in Nat /\ reloj > 0 /\ desfase \in 0 .. Margen
  /\ socket.sello \in Nat /\ socket.desde \in Nat /\ mensaje \in [Mensajes -> Cartas]

\* The stamp of a connection is its hour at the server, but for the lead of the local clock;
\* no message is in hand without one.
SelloDeReloj ==
  /\ socket.desde <= reloj
  /\ socket.sello # SinConexion => socket.desde <= socket.sello /\ socket.sello <= socket.desde + Margen
  /\ socket.arriba => socket.sello # SinConexion
  /\ \A m \in Mensajes : mensaje[m].donde = "mano" => socket.sello # SinConexion

\* What was dropped for its age, and came again, is older than the next connection too.
VentanaDeAntes ==
  \A m \in Mensajes : mensaje[m].rastro = "ventana" =>
    mensaje[m].ts < reloj /\ (socket.sello # SinConexion => mensaje[m].ts < socket.desde)

PuertaInv == DomPuerta /\ SelloDeReloj /\ VentanaDeAntes

LEMMA UmbralJusto ==
  ASSUME PuertaInv, NEW m \in Mensajes, mensaje[m].donde = "mano"
  PROVE  /\ mensaje[m].ts + Margen < Umbral => mensaje[m].ts < socket.desde
         /\ mensaje[m].ts + Margen >= Umbral => mensaje[m].ts + Margen >= socket.desde
         /\ mensaje[m].ts + Margen < Umbral <=> ~(mensaje[m].ts + Margen >= Umbral)
<1>1. mensaje[m].ts \in Nat
  BY DEF PuertaInv, DomPuerta, Cartas
<1> QED
  BY <1>1, PuertaAssumption DEF PuertaInv, DomPuerta, SelloDeReloj, Umbral, SinConexion

\* What a step of the library or of the listener does to one message.
LEMMA PonHace ==
  ASSUME mensaje \in [Mensajes -> Cartas], NEW m \in Mensajes,
         NEW donde \in {"telefono", "servidor", "mano", "retenido", "acusado"},
         NEW rastro \in {"nada", "fila", "ventana", "puerta"}, Pon(m, donde, rastro)
  PROVE  /\ mensaje' \in [Mensajes -> Cartas]
         /\ mensaje'[m] = Carta(donde, mensaje[m].clase, mensaje[m].ts, rastro)
         /\ mensaje'[m].ts = mensaje[m].ts /\ mensaje'[m].donde = donde /\ mensaje'[m].rastro = rastro
         /\ \A k \in Mensajes : k # m => mensaje'[k] = mensaje[k]
<1>1. mensaje[m] \in Cartas
  OBVIOUS
<1>2. Carta(donde, mensaje[m].clase, mensaje[m].ts, rastro) \in Cartas
  BY <1>1 DEF Carta, Cartas
<1>3. mensaje' = [mensaje EXCEPT ![m] = Carta(donde, mensaje[m].clase, mensaje[m].ts, rastro)]
  BY DEF Pon
<1> QED
  BY <1>2, <1>3 DEF Carta

LEMMA JuicioHace ==
  ASSUME PuertaInv, NEW m \in Mensajes, mensaje[m].donde = "mano", OnMessage(m)
  PROVE  /\ PuertaInv' /\ UNCHANGED socket
         /\ mensaje'[m].rastro = "ventana" => mensaje[m].ts < socket.desde
         /\ mensaje'[m].rastro = "fila" /\ mensaje[m].clase # "sin hora" =>
              mensaje[m].ts + Margen >= socket.desde
         /\ \A k \in Mensajes : k # m => mensaje'[k] = mensaje[k]
<1>1. PICK donde \in {"acusado", "retenido"}, rastro \in {"nada", "fila", "ventana", "puerta"} :
        /\ Pon(m, donde, rastro)
        /\ rastro = "ventana" => FueraDeVentana(m) \/ mensaje[m].rastro = "ventana"
        /\ rastro = "fila" => ~FueraDeVentana(m)
  <2>1. mensaje[m].rastro \in {"nada", "fila", "ventana", "puerta"}
    BY DEF PuertaInv, DomPuerta, Cartas
  <2> QED
    BY <2>1 DEF OnMessage, DescartaPuerta, DescartaVentana, DescartaGrupo, Encola, NoEncola, Acusa
<1>2. UNCHANGED <<reloj, desfase, socket, pasiva>>
  BY DEF OnMessage, DescartaPuerta, DescartaVentana, DescartaGrupo, Encola, NoEncola, Acusa
<1>3. /\ mensaje' \in [Mensajes -> Cartas] /\ mensaje'[m].ts = mensaje[m].ts
      /\ mensaje'[m].donde = donde /\ mensaje'[m].rastro = rastro
      /\ \A k \in Mensajes : k # m => mensaje'[k] = mensaje[k]
  BY <1>1, PonHace DEF PuertaInv, DomPuerta
<1>4. /\ rastro = "ventana" => mensaje[m].ts < socket.desde
      /\ rastro = "fila" /\ mensaje[m].clase # "sin hora" => mensaje[m].ts + Margen >= socket.desde
  <2>1. mensaje[m].rastro = "ventana" => mensaje[m].ts < socket.desde
    BY DEF PuertaInv, VentanaDeAntes, SelloDeReloj
  <2> QED
    BY <1>1, <2>1, UmbralJusto DEF FueraDeVentana
<1>5. DomPuerta'
  BY <1>2, <1>3 DEF PuertaInv, DomPuerta
<1>6. SelloDeReloj'
  BY <1>2, <1>3 DEF PuertaInv, SelloDeReloj
<1>7. VentanaDeAntes'
  <2>1. mensaje[m].ts \in Nat /\ socket.desde \in Nat /\ reloj \in Nat /\ socket.desde <= reloj
    BY DEF PuertaInv, DomPuerta, Cartas, SelloDeReloj
  <2>2. mensaje'[m].rastro = "ventana" => mensaje'[m].ts < reloj /\ mensaje'[m].ts < socket.desde
    BY <1>3, <1>4, <2>1
  <2>3. \A k \in Mensajes : k # m => mensaje'[k] = mensaje[k]
    BY <1>3
  <2> QED
    BY <1>2, <2>2, <2>3 DEF PuertaInv, VentanaDeAntes
<1> QED
  BY <1>2, <1>3, <1>4, <1>5, <1>6, <1>7 DEF PuertaInv

LEMMA PuertaInicial == InitPuerta => PuertaInv
<1> SUFFICES ASSUME InitPuerta PROVE PuertaInv
  OBVIOUS
<1>1. PorEscribir \in Cartas /\ PorEscribir.donde = "telefono" /\ PorEscribir.rastro = "nada"
  BY DEF PorEscribir, Carta, Cartas, Clases
<1>2. socket.sello = 0 /\ socket.desde = 0 /\ ~socket.arriba
  BY DEF InitPuerta, Caido, SinConexion
<1>3. reloj = 1 /\ desfase \in 0 .. Margen /\ Margen \in Nat
  BY PuertaAssumption DEF InitPuerta
<1>4. mensaje \in [Mensajes -> Cartas] /\ \A m \in Mensajes : mensaje[m] = PorEscribir
  BY <1>1 DEF InitPuerta
<1> QED
  BY <1>1, <1>2, <1>3, <1>4 DEF PuertaInv, DomPuerta, SelloDeReloj, VentanaDeAntes, SinConexion

\* Away from the listener, a message only moves, and one that is written is new.
LEMMA TrasladoVale ==
  ASSUME PuertaInv, mensaje' \in [Mensajes -> Cartas],
         \A m \in Mensajes : mensaje'[m].rastro = "ventana" =>
           mensaje[m].rastro = "ventana" /\ mensaje'[m].ts = mensaje[m].ts,
         UNCHANGED <<reloj, desfase, socket>>,
         \A m \in Mensajes : mensaje'[m].donde = "mano" => mensaje[m].donde = "mano" \/ socket.arriba
  PROVE  PuertaInv'
  BY DEF PuertaInv, DomPuerta, SelloDeReloj, VentanaDeAntes

LEMMA PuertaPaso == PuertaInv /\ [NextPuerta]_varsPuerta => PuertaInv'
<1> SUFFICES ASSUME PuertaInv, [NextPuerta]_varsPuerta PROVE PuertaInv'
  OBVIOUS
<1> USE PuertaAssumption
<1>1. CASE SubeElSocket
  <2>1. \A m \in Mensajes : mensaje'[m].ts = mensaje[m].ts /\ mensaje'[m].rastro = mensaje[m].rastro
    BY <1>1 DEF SubeElSocket, PuertaInv, DomPuerta, Cartas
  <2>2. mensaje' \in [Mensajes -> Cartas]
    BY <1>1 DEF SubeElSocket, PuertaInv, DomPuerta, Cartas
  <2>3. /\ socket'.sello = reloj + desfase /\ socket'.desde = reloj /\ UNCHANGED <<reloj, desfase>>
    BY <1>1 DEF SubeElSocket
  <2>4. reloj + desfase \in Nat /\ reloj + desfase # 0 /\ desfase <= Margen /\ desfase >= 0
    BY DEF PuertaInv, DomPuerta
  <2>5. VentanaDeAntes'
    BY <2>1, <2>3 DEF PuertaInv, VentanaDeAntes
  <2> QED
    BY <2>2, <2>3, <2>4, <2>5 DEF PuertaInv, DomPuerta, SelloDeReloj, SinConexion
<1>2. CASE CaeElSocket
  <2>1. /\ socket'.sello = socket.sello /\ socket'.desde = socket.desde /\ ~socket'.arriba
        /\ UNCHANGED <<reloj, desfase, mensaje>>
    BY <1>2 DEF CaeElSocket
  <2> QED
    BY <2>1 DEF PuertaInv, DomPuerta, SelloDeReloj, VentanaDeAntes
<1>3. CASE CicloNuevo
  <2>1. \A m \in Mensajes : /\ mensaje'[m].ts = mensaje[m].ts /\ mensaje'[m].rastro = mensaje[m].rastro
                            /\ mensaje'[m].donde # "mano"
    BY <1>3 DEF CicloNuevo, PuertaInv, DomPuerta, Cartas
  <2>2. mensaje' \in [Mensajes -> Cartas]
    BY <1>3 DEF CicloNuevo, PuertaInv, DomPuerta, Cartas
  <2>3. /\ socket'.sello = 0 /\ socket'.desde = 0 /\ ~socket'.arriba /\ UNCHANGED <<reloj, desfase>>
    BY <1>3 DEF CicloNuevo, Caido, SinConexion
  <2> QED
    BY <2>1, <2>2, <2>3 DEF PuertaInv, DomPuerta, SelloDeReloj, VentanaDeAntes, SinConexion
<1>4. ASSUME NEW m \in Mensajes, Llama(m) PROVE PuertaInv'
  <2>1. mensaje[m].rastro \in {"nada", "fila", "ventana", "puerta"}
    BY DEF PuertaInv, DomPuerta, Cartas
  <2>2. /\ mensaje' \in [Mensajes -> Cartas] /\ mensaje'[m].ts = mensaje[m].ts
        /\ mensaje'[m].rastro = mensaje[m].rastro
        /\ \A k \in Mensajes : k # m => mensaje'[k] = mensaje[k]
    BY <1>4, <2>1, PonHace DEF Llama, PuertaInv, DomPuerta
  <2> QED
    BY <1>4, <2>2, TrasladoVale DEF Llama
<1>5. ASSUME NEW m \in Mensajes, OnMessage(m) PROVE PuertaInv'
  BY <1>5, JuicioHace
     DEF OnMessage, DescartaPuerta, DescartaVentana, DescartaGrupo, Encola, NoEncola, Acusa
<1>6. ASSUME NEW m \in Mensajes, NEW clase \in Clases, Redacta(m, clase) PROVE PuertaInv'
  <2> DEFINE nueva == Carta("servidor", clase, IF clase = "sin hora" THEN 0 ELSE reloj, "nada")
  <2>1. nueva \in Cartas /\ nueva.donde = "servidor" /\ nueva.rastro = "nada"
    BY DEF Carta, Cartas, PuertaInv, DomPuerta
  <2>2. mensaje' = [mensaje EXCEPT ![m] = nueva]
    BY <1>6 DEF Redacta
  <2> HIDE DEF nueva
  <2>3. /\ mensaje' \in [Mensajes -> Cartas] /\ mensaje'[m] = nueva
        /\ \A k \in Mensajes : k # m => mensaje'[k] = mensaje[k]
    BY <2>1, <2>2 DEF PuertaInv, DomPuerta
  <2>4. UNCHANGED <<reloj, desfase, socket>>
    BY <1>6 DEF Redacta
  <2> QED
    BY <2>1, <2>3, <2>4, TrasladoVale
<1>7. CASE Pasa
  BY <1>7 DEF Pasa, PuertaInv, DomPuerta, SelloDeReloj, VentanaDeAntes, Cartas
<1>8. CASE Corrige
  BY <1>8 DEF Corrige, PuertaInv, DomPuerta, SelloDeReloj, VentanaDeAntes
<1>9. CASE CambiaPerfil \/ UNCHANGED varsPuerta
  BY <1>9 DEF CambiaPerfil, varsPuerta, PuertaInv, DomPuerta, SelloDeReloj, VentanaDeAntes
<1> QED
  BY <1>1, <1>2, <1>3, <1>4, <1>5, <1>6, <1>7, <1>8, <1>9 DEF NextPuerta

\* Nothing written after the socket came up is dropped for its age, and nothing older than
\* the margin before that gets a row (inbound_window.go:5-16).
THEOREM VentanaSiempreJusta == SpecPuerta => VentanaJusta
<1> DEFINE Justa ==
      \A m \in Mensajes :
        /\ Juzga(m, "ventana") => mensaje[m].ts < socket.desde
        /\ Juzga(m, "fila") => mensaje[m].ts + Margen >= socket.desde
<1>1. PuertaInv /\ [NextPuerta]_varsPuerta => [Justa]_varsPuerta
  <2> SUFFICES ASSUME PuertaInv, NextPuerta, NEW m \in Mensajes,
                      mensaje[m].donde = "mano", mensaje'[m].donde # "mano", socket' = socket,
                      mensaje[m].clase # "sin hora"
               PROVE  /\ mensaje'[m].rastro = "ventana" => mensaje[m].ts < socket.desde
                      /\ mensaje'[m].rastro = "fila" => mensaje[m].ts + Margen >= socket.desde
    BY DEF Juzga
  <2>1. CASE OnMessage(m)
    BY <2>1, JuicioHace
  <2>2. CASE SubeElSocket
    BY <2>2 DEF SubeElSocket, PuertaInv, DomPuerta, Cartas
  <2>3. CASE CaeElSocket
    BY <2>3 DEF CaeElSocket
  <2>4. CASE CicloNuevo
    <3>1. socket.sello # SinConexion /\ socket = Caido(socket.n)
      BY <2>4 DEF CicloNuevo
    <3>2. Caido(socket.n).sello = SinConexion
      BY DEF Caido
    <3> QED
      BY <3>1, <3>2
  <2>5. ASSUME NEW k \in Mensajes, Llama(k) PROVE mensaje'[m].donde = "mano"
    <3>1. mensaje[k].rastro \in {"nada", "fila", "ventana", "puerta"}
      BY DEF PuertaInv, DomPuerta, Cartas
    <3> QED
      BY <2>5, <3>1, PonHace DEF Llama, PuertaInv, DomPuerta
  <2>6. ASSUME NEW k \in Mensajes, k # m, OnMessage(k) PROVE mensaje'[m] = mensaje[m]
    BY <2>6, JuicioHace
       DEF OnMessage, DescartaPuerta, DescartaVentana, DescartaGrupo, Encola, NoEncola, Acusa
  <2>7. ASSUME NEW k \in Mensajes, NEW clase \in Clases, Redacta(k, clase)
        PROVE  mensaje'[m] = mensaje[m]
    BY <2>7 DEF Redacta, PuertaInv, DomPuerta
  <2>8. CASE Pasa \/ Corrige \/ CambiaPerfil
    BY <2>8 DEF Pasa, Corrige, CambiaPerfil
  <2> QED
    BY <2>1, <2>2, <2>3, <2>4, <2>5, <2>6, <2>7, <2>8 DEF NextPuerta
<1> QED
  BY <1>1, PuertaInicial, PuertaPaso, PTL DEF SpecPuerta, VentanaJusta

(***************************************************************************)
(* AuthManager: no refresh spends a token twice, for any number of tokens  *)
(* and restarts.                                                           *)
(***************************************************************************)

\* The refresh token of the custody, or of a request, that the cloud takes or has a reason
\* to refuse.
Justos == vigentes \cup revocados \cup perdidas \cup {Roto}

Guardable == 0 .. emitidos \cup {Roto}
EnPuerta(h) == apc[h] = "responde" /\ respuesta[h] \in Emision
Adoptan == Refrescan \cup {"login"}

DomAuth ==
  /\ apc \in [Pedidores -> {"libre", "espera", "pide", "responde", "cierra"}]
  /\ enviado \in [Pedidores -> Guardable] /\ custodia \in Guardable
  /\ respuesta \in [Pedidores -> 0 .. emitidos \cup {Rechazo, Hecho, SoloAcceso}]
  /\ respuesta["logout"] \in {0, Hecho}
  /\ emitidos \in 0 .. MaxTokens

\* One refresh at a time is at the cloud, and nobody has its answer before it comes.
UnRefresco ==
  \A h \in Refrescan : /\ apc[h] \in {"pide", "responde", "cierra"} => refreshMu = h
                       /\ apc[h] \in {"libre", "espera", "pide"} => respuesta[h] = 0
                       /\ apc[h] = "pide" => enviado[h] \in Justos

\* The custody has a good token, or the one whose successor is in the answer of a refresh.
CustodiaJusta ==
  custodia \in Justos \cup {0} \/ \E h \in Refrescan : EnPuerta(h) /\ custodia = enviado[h]

\* The token of an answer not yet kept is good, and nobody else has it.
TokenPropio ==
  \A h \in Adoptan : EnPuerta(h) =>
    /\ respuesta[h] \in Justos /\ respuesta[h] # custodia
    /\ \A k \in Refrescan : apc[k] = "pide" => enviado[k] # respuesta[h]
    /\ \A k \in Adoptan \ {h} : EnPuerta(k) => respuesta[k] # respuesta[h]

AuthInv == DomAuth /\ UnRefresco /\ CustodiaJusta /\ TokenPropio

LEMMA AuthInicial == InitAuth => AuthInv
  BY TokensAssumption
     DEF InitAuth, AuthInv, DomAuth, UnRefresco, CustodiaJusta, TokenPropio, Justos, Guardable, EnPuerta,
         Adoptan, Refrescan, Pedidores, Emision, Rechazo, Hecho, SoloAcceso, Roto

LEMMA AuthPaso == AuthInv /\ [NextAuth]_varsAuth => AuthInv'
<1> SUFFICES ASSUME AuthInv, [NextAuth]_varsAuth PROVE AuthInv'
  OBVIOUS
<1> USE TokensAssumption
        DEF AuthInv, DomAuth, UnRefresco, CustodiaJusta, TokenPropio, Justos, Guardable, EnPuerta,
            Adoptan, Refrescan, Pedidores, Emision, Rechazo, Hecho, SoloAcceso, Roto, nubeAuth, sinOir, En, Vuelve, Suelta, Libre
<1>1. ASSUME NEW h \in Pedidores, PideRefresh(h) PROVE AuthInv'
  BY <1>1 DEF PideRefresh
<1>2. ASSUME NEW h \in Pedidores, Refresh(h) PROVE AuthInv'
  BY <1>2 DEF Refresh
<1>3. ASSUME NEW h \in Pedidores, NubeResponde(h) PROVE AuthInv'
  <2>1. CASE h \in Refrescan /\ NubeRefresca(h)
    BY <1>3, <2>1 DEF NubeResponde, NubeRefresca, EmiteToken, Entrega
  <2>2. CASE h = "login" /\ NubeAbre(h)
    BY <1>3, <2>2 DEF NubeResponde, NubeAbre, EmiteToken, Entrega
  <2>3. CASE h = "logout" /\ NubeRevoca(h)
    BY <1>3, <2>3 DEF NubeResponde, NubeRevoca, Revoca, Entrega
  <2> QED
    BY <1>3, <2>1, <2>2, <2>3 DEF NubeResponde
<1>4. ASSUME NEW h \in Pedidores, DoAuthFalla(h) PROVE AuthInv'
  BY <1>4 DEF DoAuthFalla, SePierde
<1>5. ASSUME NEW h \in Pedidores, Store(h) PROVE AuthInv'
  <2>1. /\ h \in Adoptan /\ EnPuerta(h) /\ apc' = [apc EXCEPT ![h] = "cierra"] /\ custodia' = respuesta[h]
        /\ UNCHANGED <<refreshMu, enviado, respuesta, emitidos, vigentes, revocados, perdidas>>
    BY <1>5 DEF Store
  <2>2. custodia' \in Guardable' /\ custodia' \in Justos'
    BY <2>1
  <2>3. DomAuth' /\ UnRefresco' /\ CustodiaJusta'
    BY <2>1, <2>2
  <2>4. TokenPropio'
    BY <2>1
  <2> QED
    BY <2>3, <2>4
<1>6. ASSUME NEW h \in Pedidores, StoreFalla(h) PROVE AuthInv'
  <2>1. /\ h \in Adoptan /\ EnPuerta(h) /\ apc' = [apc EXCEPT ![h] = "libre"]
        /\ respuesta' = [respuesta EXCEPT ![h] = 0] /\ enviado' = [enviado EXCEPT ![h] = 0]
        /\ custodia' \in {custodia, Roto, respuesta[h]} /\ UNCHANGED <<emitidos, vigentes, revocados>>
    BY <1>6 DEF StoreFalla
  <2>2. /\ perdidas \subseteq perdidas' /\ \A k \in Refrescan \ {h} : refreshMu = k => refreshMu' = k
        /\ custodia' # respuesta[h] /\ h \in Refrescan => enviado[h] \in perdidas'
    BY <1>6, <2>1 DEF StoreFalla, SePierde
  <2>3. Justos \subseteq Justos'
    BY <2>1, <2>2
  <2>4. \A k \in Pedidores \ {h} : apc'[k] = apc[k] /\ respuesta'[k] = respuesta[k] /\ enviado'[k] = enviado[k]
    BY <2>1
  <2>5. apc'[h] = "libre" /\ respuesta'[h] = 0
    BY <2>1
  <2>6. DomAuth'
    BY <2>1
  <2>7. UnRefresco'
    BY <2>2, <2>3, <2>4, <2>5
  <2>8. CustodiaJusta'
    <3>1. CASE custodia' = custodia /\ custodia # respuesta[h]
      BY <2>2, <2>3, <2>4, <3>1
    <3> QED
      BY <2>1, <2>3, <3>1
  <2>9. TokenPropio'
    BY <2>1, <2>3, <2>4, <2>5
  <2> QED
    BY <2>6, <2>7, <2>8, <2>9
<1>7. ASSUME NEW h \in Pedidores, AdoptTokens(h) PROVE AuthInv'
  BY <1>7 DEF AdoptTokens
<1>8. CASE Login
  BY <1>8 DEF Login
<1>9. CASE Logout
  BY <1>9 DEF Logout
<1>10. CASE Clear
  BY <1>10 DEF Clear
<1>11. CASE ClearSession
  BY <1>11 DEF ClearSession
<1>12. CASE Reinicia
  <2> DEFINE llegan == {h \in Pedidores : EnPuerta(h)}
  <2>1. /\ apc' = [h \in Pedidores |-> "libre"] /\ enviado' = [h \in Pedidores |-> 0]
        /\ respuesta' = [h \in Pedidores |-> 0] /\ UNCHANGED <<emitidos, vigentes, revocados>>
        /\ custodia' \in {custodia, Roto}
        /\ perdidas' = perdidas \cup {enviado[h] : h \in llegan \cap Refrescan}
    BY <1>12 DEF Reinicia
  <2>2. custodia' \in Justos' \cup {0}
    <3>1. custodia \in Justos \cup {0} \/ \E h \in llegan \cap Refrescan : custodia = enviado[h]
      OBVIOUS
    <3> QED
      BY <2>1, <3>1
  <2> QED
    BY <2>1, <2>2
<1>13. CASE NubeTardia
  <2>1. PICK peticion \in huerfanas :
          /\ \/ peticion[2] \in vigentes /\ EmiteToken({peticion[2]}) /\ perdidas' = perdidas \cup {peticion[2]}
             \/ Revoca(peticion[2]) /\ UNCHANGED perdidas
          /\ UNCHANGED <<refreshMu, custodia, apc, enviado, respuesta>>
    BY <1>13 DEF NubeTardia, hilosAuth
  <2>2. Justos \subseteq Justos' /\ emitidos' \in emitidos .. MaxTokens
    BY <2>1 DEF EmiteToken, Revoca
  <2>3. DomAuth' /\ UnRefresco' /\ CustodiaJusta'
    BY <2>1, <2>2
  <2>4. TokenPropio'
    BY <2>1, <2>2
  <2> QED
    BY <2>3, <2>4
<1>14. CASE UNCHANGED varsAuth
  <2>1. UNCHANGED <<refreshMu, custodia, acceso>> /\ UNCHANGED <<perdidas, emitidos, vigentes, revocados>>
        /\ UNCHANGED <<apc, enviado, respuesta>>
    BY <1>14 DEF varsAuth, hilosAuth
  <2> QED
    BY <2>1
<1> QED
  BY <1>1, <1>2, <1>3, <1>4, <1>5, <1>6, <1>7, <1>8, <1>9, <1>10, <1>11, <1>12, <1>13, <1>14 DEF NextAuth

\* A refresh is refused only for a token that a logout revoked, one whose successor was lost
\* on its way to the disk, or a broken file (auth/manager.go:58, 147-149).
THEOREM NadieGastaDos == SpecAuth => RotacionSinPerdedor
<1>1. AuthInv /\ [NextAuth]_varsAuth =>
        [\A h \in Refrescan : (apc[h] = "pide" /\ respuesta'[h] = Rechazo)
           => enviado[h] \in revocados \cup perdidas \cup {Roto}]_varsAuth
  <2> SUFFICES ASSUME AuthInv, NextAuth, NEW h \in Refrescan, apc[h] = "pide",
                      respuesta'[h] = Rechazo
               PROVE  enviado[h] \in revocados \cup perdidas \cup {Roto}
    OBVIOUS
  <2> USE TokensAssumption
  <2>1. h \in Pedidores /\ respuesta[h] # Rechazo /\ enviado[h] \in Justos
    BY DEF AuthInv, UnRefresco, Pedidores, Rechazo
  <2>2. ASSUME NEW k \in Pedidores, NubeResponde(k) PROVE enviado[h] \notin vigentes
    <3>1. CASE k = h
      BY <2>1, <2>2, <3>1
         DEF AuthInv, DomAuth, NubeResponde, NubeRefresca, EmiteToken, Entrega, Rechazo, SoloAcceso, Refrescan
    <3>2. CASE k # h
      BY <2>1, <2>2, <3>2 DEF AuthInv, DomAuth, NubeResponde, NubeRefresca, NubeAbre, NubeRevoca,
                              EmiteToken, Entrega
    <3> QED
      BY <3>1, <3>2
  <2>3. ASSUME UNCHANGED respuesta PROVE FALSE
    BY <2>1, <2>3
  <2>4. ASSUME NEW k \in Pedidores, Vuelve(k) PROVE FALSE
    BY <2>1, <2>4 DEF Vuelve, AuthInv, DomAuth, Rechazo
  <2>5. ASSUME Reinicia PROVE FALSE
    BY <2>1, <2>5 DEF Reinicia, Rechazo
  <2>6. ASSUME NEW k \in Pedidores,
               PideRefresh(k) \/ Refresh(k) \/ DoAuthFalla(k) \/ Store(k) \/ StoreFalla(k) \/ AdoptTokens(k)
        PROVE  FALSE
    BY <2>3, <2>4, <2>6 DEF PideRefresh, Refresh, DoAuthFalla, Store, StoreFalla, AdoptTokens
  <2>7. ASSUME Login \/ Logout \/ Clear \/ ClearSession \/ NubeTardia PROVE FALSE
    BY <2>3, <2>4, <2>7 DEF Login, Logout, Clear, ClearSession, NubeTardia, hilosAuth, Pedidores
  <2> QED
    BY <2>1, <2>2, <2>5, <2>6, <2>7 DEF NextAuth, Justos
<1> QED
  BY <1>1, AuthInicial, AuthPaso, PTL DEF SpecAuth, RotacionSinPerdedor

(***************************************************************************)
(* ColaCajero: a batch is closed whole and by its last claim, for any rows *)
(* and conversations, any workers and any jumps of the clock.              *)
(***************************************************************************)

Estados == {"por llegar", "nuevo", "tomado", "clasificado", "despachado"}
Turnos == [estado : Estados, token : Nat, sello : Nat]

\* A row that is claimed carries the token of the claim that took it last.
ClaimInv ==
  /\ renglon \in [Renglones -> Turnos] /\ dueno \in [Renglones -> Nat] /\ tokens \in Nat /\ hora \in Nat
  /\ DOMAIN lote = Cajeros /\ \A c \in Cajeros : lote[c].filas \subseteq Renglones
  /\ \A r \in Renglones : renglon[r].estado = "tomado" => renglon[r].token = dueno[r]

LEMMA SinTomarEs ==
  \A e \in Estados : SinTomar(e) \in Turnos /\ SinTomar(e).estado = e
  BY DEF SinTomar, Turnos

LEMMA TomadoEs ==
  ASSUME hora \in Nat, NEW t \in Nat
  PROVE  Tomado(t) \in Turnos /\ Tomado(t).estado = "tomado" /\ Tomado(t).token = t
  BY DEF Tomado, Turnos, Estados

LEMMA ClaimInicial == InitCajero => ClaimInv
<1> SUFFICES ASSUME InitCajero PROVE ClaimInv
  OBVIOUS
<1>1. SinTomar("por llegar") \in Turnos /\ SinTomar("por llegar").estado # "tomado"
  BY SinTomarEs DEF Estados
<1>2. SinLote.filas = {}
  BY DEF SinLote
<1> QED
  BY <1>1, <1>2 DEF InitCajero, ClaimInv

\* A step that writes the same record in some of the rows, none of them claimed by it.
LEMMA TablaVale ==
  ASSUME ClaimInv, NEW S, NEW e \in Estados \ {"tomado"}, UNCHANGED <<dueno, tokens>>, hora' \in Nat,
         renglon' = [r \in Renglones |-> IF r \in S THEN SinTomar(e) ELSE renglon[r]],
         DOMAIN lote' = Cajeros, \A c \in Cajeros : lote'[c].filas \subseteq Renglones
  PROVE  ClaimInv'
<1>1. SinTomar(e) \in Turnos /\ SinTomar(e).estado # "tomado"
  BY SinTomarEs
<1> QED
  BY <1>1 DEF ClaimInv

LEMMA ClaimPaso == ClaimInv /\ [NextCajero]_varsCajero => ClaimInv'
<1> SUFFICES ASSUME ClaimInv, [NextCajero]_varsCajero PROVE ClaimInv'
  OBVIOUS
<1>1. ASSUME NEW r \in Renglones, Anota(r) PROVE ClaimInv'
  <2>1. renglon' = [renglon EXCEPT ![r] = SinTomar("nuevo")] /\ UNCHANGED <<lote, tokens, hora, dueno>>
    BY <1>1 DEF Anota
  <2>2. SinTomar("nuevo") \in Turnos /\ SinTomar("nuevo").estado # "tomado"
    BY SinTomarEs DEF Estados
  <2> QED
    BY <2>1, <2>2 DEF ClaimInv
<1>2. ASSUME NEW r \in Renglones, Despacha(r) PROVE ClaimInv'
  BY <1>2 DEF Despacha, ClaimInv, Turnos, Estados
<1>3. ASSUME NEW c \in Cajeros, Reclamar(c) PROVE ClaimInv'
  <2>1. Elegidas \subseteq Renglones
    BY DEF Elegidas, EnEstado
  <2> DEFINE E == Elegidas
  <2>2. /\ renglon' = [r \in Renglones |-> IF r \in E THEN Tomado(tokens + 1) ELSE renglon[r]]
        /\ dueno' = [r \in Renglones |-> IF r \in E THEN tokens + 1 ELSE dueno[r]]
        /\ tokens' = tokens + 1 /\ hora' = hora
    BY <1>3 DEF Reclamar
  <2>3. lote' \in {lote, [lote EXCEPT ![c] = [token |-> tokens + 1, sello |-> hora, filas |-> E]]}
    BY <1>3 DEF Reclamar
  <2> HIDE DEF E
  <2>4. DOMAIN lote' = Cajeros /\ \A d \in Cajeros : lote'[d].filas \subseteq Renglones
    BY <2>1, <2>3 DEF ClaimInv, E
  <2>5. /\ Tomado(tokens + 1) \in Turnos /\ Tomado(tokens + 1).token = tokens + 1
        /\ tokens + 1 \in Nat
    BY TomadoEs DEF ClaimInv
  <2> QED
    BY <2>2, <2>4, <2>5 DEF ClaimInv
<1>4. ASSUME NEW c \in Cajeros, MarcarClasificado(c) \/ MuereCajero(c) PROVE ClaimInv'
  <2>1. UNCHANGED <<tokens, hora, dueno>> /\ lote' = [lote EXCEPT ![c] = SinLote]
    BY <1>4 DEF MarcarClasificado, MuereCajero
  <2>2. DOMAIN lote' = Cajeros /\ \A d \in Cajeros : lote'[d].filas \subseteq Renglones
    BY <2>1 DEF ClaimInv, SinLote
  <2>3. CASE renglon' = [r \in Renglones |-> IF r \in Suyas(c) THEN SinTomar("clasificado") ELSE renglon[r]]
    BY <2>1, <2>2, <2>3, TablaVale DEF ClaimInv, Estados
  <2>4. CASE renglon' = renglon
    BY <2>1, <2>2, <2>4 DEF ClaimInv
  <2> QED
    BY <1>4, <2>3, <2>4 DEF MarcarClasificado, MuereCajero
<1>5. CASE BarrerLeasesVencidos
  <2>1. UNCHANGED <<lote, tokens, hora, dueno>>
        /\ renglon' = [r \in Renglones |-> IF r \in Vencidas THEN SinTomar("nuevo") ELSE renglon[r]]
    BY <1>5 DEF BarrerLeasesVencidos
  <2> QED
    BY <2>1, TablaVale DEF ClaimInv, Estados
<1>6. CASE Corre \/ Retrocede
  BY <1>6 DEF Corre, Retrocede, ClaimInv
<1>7. CASE UNCHANGED varsCajero
  BY <1>7 DEF varsCajero, ClaimInv
<1> QED
  BY <1>1, <1>2, <1>3, <1>4, <1>5, <1>6, <1>7 DEF NextCajero

\* A worker that outlived its lease never closes the work of the one that relieved it, nor half
\* of a batch that the dispatcher has bitten (claim.go:421).
THEOREM SoloElDuennoCierra == SpecCajero => CierreEntero
<1> DEFINE Cerradas == {r \in EnEstado("tomado") : renglon'[r].estado = "clasificado"}
           Entero == Cerradas # {} =>
             \E c \in Cajeros : /\ lote[c].filas = Cerradas /\ lote'[c] = SinLote
                                /\ \A r \in Cerradas : dueno[r] = lote[c].token
<1>1. ClaimInv /\ [NextCajero]_varsCajero => [Entero]_varsCajero
  <2> SUFFICES ASSUME ClaimInv, NextCajero, NEW r \in Cerradas PROVE Entero
    OBVIOUS
  <2> USE DEF EnEstado
  <2>1. r \in Renglones /\ renglon[r].estado = "tomado" /\ renglon'[r].estado = "clasificado"
    OBVIOUS
  <2>2. ASSUME NEW c \in Cajeros, MarcarClasificado(c) PROVE Entero
    <3>1. /\ Suyas(c) = lote[c].filas /\ lote' = [lote EXCEPT ![c] = SinLote]
          /\ renglon' = [q \in Renglones |-> IF q \in Suyas(c) THEN SinTomar("clasificado") ELSE renglon[q]]
      BY <2>1, <2>2 DEF MarcarClasificado
    <3>2. Suyas(c) \subseteq Renglones /\ \A q \in Suyas(c) :
            renglon[q].estado = "tomado" /\ renglon[q].token = lote[c].token
      BY DEF Suyas, ClaimInv
    <3>3. Cerradas = Suyas(c)
      BY <3>1, <3>2 DEF SinTomar
    <3>4. lote'[c] = SinLote /\ \A q \in Suyas(c) : dueno[q] = lote[c].token
      BY <3>1, <3>2 DEF ClaimInv
    <3> QED
      BY <3>1, <3>3, <3>4
  <2>3. ASSUME NEW q \in Renglones, Anota(q) \/ Despacha(q) PROVE FALSE
    BY <2>1, <2>3 DEF Anota, Despacha, SinTomar, ClaimInv, Turnos
  <2>4. ASSUME NEW c \in Cajeros, Reclamar(c) PROVE FALSE
    BY <2>1, <2>4 DEF Reclamar, Tomado
  <2>5. CASE BarrerLeasesVencidos
    BY <2>1, <2>5 DEF BarrerLeasesVencidos, SinTomar
  <2>6. ASSUME UNCHANGED renglon PROVE FALSE
    BY <2>1, <2>6
  <2> QED
    BY <2>2, <2>3, <2>4, <2>5, <2>6 DEF NextCajero, MuereCajero, Corre, Retrocede
<1> QED
  BY <1>1, ClaimInicial, ClaimPaso, PTL DEF SpecCajero, CierreEntero

(***************************************************************************)
(* Correlador: the two maps and the queue agree, and the order that goes   *)
(* up with a receipt sent one of its messages, for any orders, messages,   *)
(* receipts, cap and TTL.                                                  *)
(***************************************************************************)

LEMMA PuestosDistintos ==
  ASSUME NEW n \in Nat, NEW P \in SUBSET (1 .. n)
  PROVE  /\ IsFiniteSet(P) /\ Cardinality(P) \in Nat
         /\ \A i \in P : Puesto(P, i) \in 1 .. Cardinality(P)
         /\ \A i, j \in P : i < j => Puesto(P, i) < Puesto(P, j)
<1>1. IsFiniteSet(1 .. n)
  BY FS_Interval
<1>2. IsFiniteSet(P) /\ Cardinality(P) \in Nat
  BY <1>1, FS_Subset, FS_CardinalityType
<1>3. ASSUME NEW i \in P PROVE Puesto(P, i) \in 1 .. Cardinality(P)
  <2> DEFINE Q == {j \in P : j <= i}
  <2>1. Q \in SUBSET P /\ i \in Q
    OBVIOUS
  <2> HIDE DEF Q
  <2>2. IsFiniteSet(Q) /\ Cardinality(Q) <= Cardinality(P)
    BY <1>2, <2>1, FS_Subset
  <2>3. Cardinality(Q) \in Nat /\ Cardinality(Q) # 0
    BY <2>1, <2>2, FS_EmptySet, FS_CardinalityType
  <2> QED
    BY <1>2, <2>2, <2>3 DEF Puesto, Q
<1>4. ASSUME NEW i \in P, NEW j \in P, i < j PROVE Puesto(P, i) < Puesto(P, j)
  <2> DEFINE Q == {k \in P : k <= i}
             R == {k \in P : k <= j}
  <2>0. i \in Nat /\ j \in Nat /\ P \subseteq Nat
    OBVIOUS
  <2>1. (\A k \in P : k <= i => k <= j) /\ j <= j /\ ~(j <= i)
    BY <1>4, <2>0
  <2>1a. Q \in SUBSET R /\ R \in SUBSET P /\ j \in R /\ j \notin Q
    BY Zenon, <2>1
  <2> HIDE DEF Q, R
  <2>2. IsFiniteSet(R)
    BY <1>2, <2>1a, FS_Subset
  <2>3. IsFiniteSet(Q) /\ Cardinality(Q) <= Cardinality(R) /\ Cardinality(R) # Cardinality(Q)
    BY <2>1a, <2>2, FS_Subset
  <2>4. Cardinality(Q) \in Nat /\ Cardinality(R) \in Nat
    BY <2>2, <2>3, FS_CardinalityType
  <2> QED
    BY <2>3, <2>4 DEF Puesto, Q, R
<1> QED
  BY <1>2, <1>3, <1>4

LEMMA TodosLosPuestos ==
  ASSUME NEW n \in Nat, NEW P \in SUBSET (1 .. n), NEW k \in 1 .. Cardinality(P)
  PROVE  \E i \in P : Puesto(P, i) = k
<1> DEFINE f == [i \in P |-> Puesto(P, i)]
           T == 1 .. Cardinality(P)
<1>1. /\ IsFiniteSet(P) /\ Cardinality(P) \in Nat
      /\ \A i \in P : Puesto(P, i) \in 1 .. Cardinality(P)
      /\ \A i, j \in P : i < j => Puesto(P, i) < Puesto(P, j)
  BY PuestosDistintos
<1>2. f \in [P -> T] /\ \A i, j \in P : f[i] = f[j] => i = j
  BY <1>1
<1>3. IsFiniteSet(T) /\ Cardinality(T) = Cardinality(P)
  BY <1>1, FS_Interval
<1> HIDE DEF f, T
<1>4. f \in Injection(P, T)
  BY <1>2, Fun_IsInj
<1>5. f \in Surjection(P, T)
  BY <1>3, <1>4, FS_Injection
<1>6. \A t \in T : \E i \in P : f[i] = t
  BY <1>5, Fun_SurjectionProperties
<1> QED
  BY <1>6 DEF f, T

\* The queue that stays has the orders of the places that stay, each as often as it was.
LEMMA CompactaEs ==
  ASSUME NEW C, NEW s \in Seq(C), NEW P \in SUBSET (DOMAIN s),
         \A i, j \in P : s[i] = s[j] => i = j
  PROVE  /\ Compacta(s, P) \in Seq({s[i] : i \in P})
         /\ \A i \in P : \E k \in DOMAIN Compacta(s, P) : Compacta(s, P)[k] = s[i]
         /\ \A k, l \in DOMAIN Compacta(s, P) : Compacta(s, P)[k] = Compacta(s, P)[l] => k = l
<1> DEFINE n == Cardinality(P)
           Sitio(k) == CHOOSE i \in P : Puesto(P, i) = k
<1>1. Len(s) \in Nat /\ DOMAIN s = 1 .. Len(s)
  BY LenProperties
<1>2. /\ n \in Nat /\ \A i \in P : Puesto(P, i) \in 1 .. n
      /\ \A i, j \in P : i < j => Puesto(P, i) < Puesto(P, j)
  BY <1>1, PuestosDistintos
<1>3. \A k \in 1 .. n : \E i \in P : Puesto(P, i) = k
  BY <1>1, TodosLosPuestos
<1>4. \A k \in 1 .. n : Sitio(k) \in P /\ Puesto(P, Sitio(k)) = k
  BY <1>3
<1>5. \A i \in P : Sitio(Puesto(P, i)) = i
  <2> TAKE i \in P
  <2>1. Puesto(P, i) \in 1 .. n
    BY <1>2
  <2>2. Sitio(Puesto(P, i)) \in P /\ Puesto(P, Sitio(Puesto(P, i))) = Puesto(P, i)
    BY <1>4, <2>1
  <2>3. \A a, b \in P : Puesto(P, a) = Puesto(P, b) => a = b
    BY <1>1, <1>2
  <2> QED
    BY <2>2, <2>3
<1>6. Compacta(s, P) = [k \in 1 .. n |-> s[Sitio(k)]]
  BY DEF Compacta
<1> HIDE DEF n, Sitio
<1>7. Compacta(s, P) \in [1 .. n -> {s[i] : i \in P}]
  BY <1>4, <1>6
<1>8. Compacta(s, P) \in Seq({s[i] : i \in P}) /\ DOMAIN Compacta(s, P) = 1 .. n
  BY <1>2, <1>7, IsASeq
<1>9. \A i \in P : Compacta(s, P)[Puesto(P, i)] = s[i]
  BY <1>2, <1>5, <1>6
<1>10. ASSUME NEW k \in 1 .. n, NEW l \in 1 .. n, Compacta(s, P)[k] = Compacta(s, P)[l] PROVE k = l
  BY <1>4, <1>6, <1>10
<1> QED
  BY <1>2, <1>8, <1>9, <1>10

\* The two maps of a correlator say the same: an order and its message.
Casan(cmd, msg) ==
  /\ \A c \in DOMAIN cmd : cmd[c].msg \in DOMAIN msg /\ msg[cmd[c].msg] = c
  /\ \A m \in DOMAIN msg : msg[m] \in DOMAIN cmd /\ cmd[msg[m]].msg = m

\* The queue holds every order once.
EnCola(cola, mandatos) ==
  /\ cola \in Seq(mandatos)
  /\ \A c \in mandatos : \E i \in DOMAIN cola : cola[i] = c
  /\ \A i, j \in DOMAIN cola : cola[i] = cola[j] => i = j

\* A correlator has of each message the order it was sent for.
Coherente(x, envios) ==
  /\ DOMAIN x.byCmd \subseteq Mandatos /\ IsFiniteSet(DOMAIN x.byCmd)
  /\ Casan(x.byCmd, x.byMsg)
  /\ EnCola(x.order, DOMAIN x.byCmd)
  /\ \A m \in DOMAIN x.byMsg : m \in DOMAIN envios /\ x.byMsg[m] = envios[m]

LEMMA OlvidaVale ==
  ASSUME NEW x, NEW envios, Coherente(x, envios), NEW S \in SUBSET (DOMAIN x.byCmd)
  PROVE  Coherente(Olvida(x, S), envios) /\ DOMAIN Olvida(x, S).byCmd = DOMAIN x.byCmd \ S
<1> DEFINE D == DOMAIN x.byCmd
           P == {i \in DOMAIN x.order : x.order[i] \notin S}
           y == Olvida(x, S)
<1>1. /\ y.byCmd = [c \in D \ S |-> x.byCmd[c]]
      /\ y.byMsg = [m \in DOMAIN x.byMsg \ {x.byCmd[c].msg : c \in S} |-> x.byMsg[m]]
      /\ y.order = Compacta(x.order, P)
  BY Zenon DEF Olvida, Sin, Restrict
<1>2. DOMAIN y.byCmd = D \ S /\ DOMAIN y.byMsg = DOMAIN x.byMsg \ {x.byCmd[c].msg : c \in S}
  BY <1>1
<1>3. DOMAIN y.byCmd \subseteq Mandatos /\ IsFiniteSet(DOMAIN y.byCmd)
  BY <1>2, FS_Subset DEF Coherente
<1>4. Casan(y.byCmd, y.byMsg)
  <2>1. \A c \in D \ S : x.byCmd[c].msg \notin {x.byCmd[d].msg : d \in S}
    BY DEF Coherente, Casan
  <2> QED
    BY SMTT(30), <1>1, <1>2, <2>1 DEF Coherente, Casan
<1>5. EnCola(y.order, DOMAIN y.byCmd)
  <2>1. /\ x.order \in Seq(D) /\ P \in SUBSET (DOMAIN x.order)
        /\ \A i, j \in P : x.order[i] = x.order[j] => i = j
    BY DEF Coherente, EnCola
  <2>2. x.order \in [1 .. Len(x.order) -> D] /\ DOMAIN x.order = 1 .. Len(x.order)
    BY <2>1, LenProperties
  <2>3. {x.order[i] : i \in P} = D \ S
    BY SMTT(30), <2>2 DEF Coherente, EnCola
  <2>4. \A c \in D \ S : \E i \in P : x.order[i] = c
    BY DEF Coherente, EnCola
  <2> HIDE DEF P, D, y
  <2>5. /\ Compacta(x.order, P) \in Seq({x.order[i] : i \in P})
        /\ \A i \in P : \E k \in DOMAIN Compacta(x.order, P) : Compacta(x.order, P)[k] = x.order[i]
        /\ \A k, l \in DOMAIN Compacta(x.order, P) :
             Compacta(x.order, P)[k] = Compacta(x.order, P)[l] => k = l
    BY <2>1, CompactaEs
  <2> QED
    BY SMTT(30), <1>1, <1>2, <2>3, <2>4, <2>5 DEF EnCola
<1>6. \A m \in DOMAIN y.byMsg : m \in DOMAIN envios /\ y.byMsg[m] = envios[m]
  BY <1>1, <1>2 DEF Coherente
<1> QED
  BY <1>2, <1>3, <1>4, <1>5, <1>6 DEF Coherente

\* pruneExpiredLocked leaves the correlator coherent, and no larger.
LEMMA PodaVale ==
  ASSUME NEW x, NEW envios, Coherente(x, envios)
  PROVE  Coherente(Poda(x), envios) /\ Cardinality(DOMAIN Poda(x).byCmd) <= Cardinality(DOMAIN x.byCmd)
<1> DEFINE S == {c \in DOMAIN x.byCmd : x.byCmd[c].at + TTLCorr <= horaCorr}
<1>1. S \in SUBSET (DOMAIN x.byCmd) /\ Poda(x) = Olvida(x, S)
  BY DEF Poda
<1> HIDE DEF S
<1>2. Coherente(Poda(x), envios) /\ DOMAIN Poda(x).byCmd = DOMAIN x.byCmd \ S
  BY <1>1, OlvidaVale
<1> QED
  BY <1>2, FS_Subset DEF Coherente

LEMMA RegistraVale ==
  ASSUME NEW x, NEW envios, Coherente(x, envios), NEW m \in DOMAIN envios, envios[m] \in Mandatos
  PROVE  /\ Coherente(RegistraEnvio(x, envios[m], m), envios)
         /\ Cardinality(DOMAIN RegistraEnvio(x, envios[m], m).byCmd) <= Cardinality(DOMAIN x.byCmd) + 1
<1> DEFINE c == envios[m]
           D == DOMAIN x.byCmd
           Viejo == IF c \in D THEN {x.byCmd[c].msg} ELSE {}
           y == RegistraEnvio(x, c, m)
<1>1. /\ y.byCmd = [d \in D \cup {c} |-> IF d = c THEN [msg |-> m, at |-> horaCorr] ELSE x.byCmd[d]]
      /\ y.order = IF c \in D THEN x.order ELSE Append(x.order, c)
  BY Zenon DEF RegistraEnvio, Con
<1>2. y.byMsg = Con(Sin(x.byMsg, Viejo), m, c)
  BY Zenon DEF RegistraEnvio
<1>3. DOMAIN Sin(x.byMsg, Viejo) = DOMAIN x.byMsg \ Viejo /\ Sin(x.byMsg, Viejo) = [k \in DOMAIN x.byMsg \ Viejo |-> x.byMsg[k]]
  BY Zenon DEF Sin, Restrict
<1>4. DOMAIN y.byCmd = D \cup {c} /\ DOMAIN y.byMsg = (DOMAIN x.byMsg \ Viejo) \cup {m}
  BY <1>1, <1>2, <1>3 DEF Con
<1>5. y.byMsg[m] = c /\ \A k \in DOMAIN x.byMsg \ Viejo : k # m => y.byMsg[k] = x.byMsg[k]
  BY <1>2, <1>3 DEF Con
<1>6. /\ y.byCmd[c].msg = m
      /\ \A d \in D : d # c => y.byCmd[d].msg = x.byCmd[d].msg
  BY <1>1
<1> HIDE DEF y
<1>7. m \in DOMAIN x.byMsg => x.byMsg[m] = c
  BY DEF Coherente
<1>8. /\ DOMAIN y.byCmd \subseteq Mandatos /\ IsFiniteSet(DOMAIN y.byCmd)
      /\ Cardinality(DOMAIN y.byCmd) <= Cardinality(D) + 1
  <2>1. IsFiniteSet(D) /\ Cardinality(D) \in Nat /\ D \subseteq Mandatos
    BY FS_CardinalityType DEF Coherente
  <2> HIDE DEF D, c
  <2>2. IsFiniteSet(D \cup {c}) /\ Cardinality(D \cup {c}) \in {Cardinality(D), Cardinality(D) + 1}
    BY <2>1, FS_AddElement
  <2>3. Cardinality(D \cup {c}) <= Cardinality(D) + 1
    BY <2>1, <2>2
  <2> QED
    BY <1>4, <2>1, <2>2, <2>3 DEF c
<1>9. Casan(y.byCmd, y.byMsg)
  <2>1. ASSUME NEW d \in D, d # c
        PROVE  y.byCmd[d].msg \in DOMAIN y.byMsg /\ y.byMsg[y.byCmd[d].msg] = d
    <3>1. x.byCmd[d].msg \in DOMAIN x.byMsg /\ x.byMsg[x.byCmd[d].msg] = d
      BY DEF Coherente, Casan
    <3>2. x.byCmd[d].msg # m
      BY <1>7, <2>1, <3>1
    <3>3. x.byCmd[d].msg \notin Viejo
      BY <2>1, <3>1 DEF Coherente, Casan
    <3> QED
      BY <1>4, <1>5, <1>6, <2>1, <3>1, <3>2, <3>3
  <2>2. ASSUME NEW k \in DOMAIN x.byMsg \ Viejo, k # m
        PROVE  y.byMsg[k] \in DOMAIN y.byCmd /\ y.byCmd[y.byMsg[k]].msg = k
    <3>1. x.byMsg[k] \in D /\ x.byCmd[x.byMsg[k]].msg = k
      BY DEF Coherente, Casan
    <3>2. x.byMsg[k] # c
      BY <3>1
    <3> QED
      BY <1>4, <1>5, <1>6, <2>2, <3>1, <3>2
  <2> QED
    BY <1>4, <1>5, <1>6, <2>1, <2>2 DEF Casan
<1>10. EnCola(y.order, DOMAIN y.byCmd)
  <2>1. CASE c \in D
    <3>1. y.order = x.order /\ DOMAIN y.byCmd = D
      BY <1>1, <1>4, <2>1 DEF y
    <3> QED
      BY <3>1 DEF Coherente
  <2>2. CASE c \notin D
    <3>1. y.order = Append(x.order, c) /\ DOMAIN y.byCmd = D \cup {c}
      BY <1>1, <1>4, <2>2 DEF y
    <3>2. x.order \in Seq(D) /\ Len(x.order) \in Nat /\ DOMAIN x.order = 1 .. Len(x.order)
      BY LenProperties DEF Coherente, EnCola
    <3>3. x.order \in Seq(D \cup {c})
      BY <3>2, SeqMonotonic
    <3>4. /\ Append(x.order, c) \in Seq(D \cup {c})
          /\ Len(Append(x.order, c)) = Len(x.order) + 1
          /\ \A i \in 1 .. Len(x.order) : Append(x.order, c)[i] = x.order[i]
          /\ Append(x.order, c)[Len(x.order) + 1] = c
      BY <3>3, AppendProperties
    <3>5. DOMAIN Append(x.order, c) = 1 .. (Len(x.order) + 1)
      BY <3>4, LenProperties
    <3>6. \A i \in 1 .. Len(x.order) : x.order[i] \in D
      BY <3>2, ElementOfSeq
    <3>7. \A d \in D : \E i \in 1 .. Len(x.order) : x.order[i] = d
      BY <3>2 DEF Coherente, EnCola
    <3>8. \A i, j \in 1 .. Len(x.order) : x.order[i] = x.order[j] => i = j
      BY <3>2 DEF Coherente, EnCola
    <3>9. \A i \in 1 .. (Len(x.order) + 1) : i = Len(x.order) + 1 \/ i \in 1 .. Len(x.order)
      BY <3>2
    <3>10. \A d \in D \cup {c} : \E i \in 1 .. (Len(x.order) + 1) : Append(x.order, c)[i] = d
      <4> TAKE d \in D \cup {c}
      <4>1. CASE d = c
        BY <3>2, <3>4, <4>1
      <4>2. CASE d \in D
        <5>1. PICK i \in 1 .. Len(x.order) : x.order[i] = d
          BY <3>7, <4>2
        <5> QED
          BY <3>2, <3>4, <5>1
      <4> QED
        BY <4>1, <4>2
    <3>11. \A i, j \in 1 .. (Len(x.order) + 1) : Append(x.order, c)[i] = Append(x.order, c)[j] => i = j
      BY <2>2, <3>4, <3>6, <3>8, <3>9
    <3> QED
      BY <3>1, <3>4, <3>5, <3>10, <3>11 DEF EnCola
  <2> QED
    BY <2>1, <2>2
<1>11. \A k \in DOMAIN y.byMsg : k \in DOMAIN envios /\ y.byMsg[k] = envios[k]
  BY <1>4, <1>5 DEF Coherente
<1> QED
  BY <1>8, <1>9, <1>10, <1>11 DEF Coherente, y

\* evictOverflowLocked brings a correlator that is one over the cap back to it.
LEMMA EvictaVale ==
  ASSUME NEW x, NEW envios, Coherente(x, envios), CorrAssumption, Cardinality(DOMAIN x.byCmd) <= TopeCorr + 1
  PROVE  Coherente(Evicta(x), envios) /\ Cardinality(DOMAIN Evicta(x).byCmd) <= TopeCorr
<1> DEFINE D == DOMAIN x.byCmd
<1>1. IsFiniteSet(D) /\ Cardinality(D) \in Nat /\ TopeCorr \in Nat
  BY FS_CardinalityType DEF Coherente, CorrAssumption
<1>2. CASE Cardinality(D) <= TopeCorr
  BY <1>2 DEF Evicta
<1>3. CASE ~(Cardinality(D) <= TopeCorr)
  <2>1. Evicta(x) = Olvida(x, {Head(x.order)})
    BY <1>3 DEF Evicta
  <2>2. D # {}
    BY <1>1, <1>3, FS_EmptySet
  <2>3. x.order \in Seq(D) /\ x.order # <<>>
    BY <2>2 DEF Coherente, EnCola
  <2>4. Head(x.order) \in D
    BY <2>3, HeadTailProperties
  <2>5. Coherente(Evicta(x), envios) /\ DOMAIN Evicta(x).byCmd = D \ {Head(x.order)}
    BY <2>1, <2>4, OlvidaVale
  <2>6. Cardinality(D \ {Head(x.order)}) = Cardinality(D) - 1
    BY <1>1, <2>4, FS_RemoveElement
  <2> QED
    BY <1>1, <2>5, <2>6
<1> QED
  BY <1>2, <1>3

\* The order of a receipt, if it has one, is that of one of its messages.
AcuseJusto(envios, s) ==
  s.mandato # SinMandato => \E m \in s.ids \ {Ajeno} : m \in DOMAIN envios /\ envios[m] = s.mandato

LEMMA MinimoDe ==
  ASSUME NEW S \in SUBSET Nat, S # {}
  PROVE  \E i \in S : \A j \in S : i <= j
<1> DEFINE R == {p \in Nat \X Nat : p[1] < p[2]}
<1>1. IsWellFoundedOn(R, Nat)
  BY NatLessThanWellFounded, Zenon DEF OpToRel
<1> HIDE DEF R
<1>2. PICK i \in S : \A j \in S : ~(<<j, i>> \in R)
  BY <1>1, WFMin
<1>3. ASSUME NEW j \in S PROVE i <= j
  <2>1. <<j, i>> \in Nat \X Nat /\ <<j, i>>[1] = j /\ <<j, i>>[2] = i /\ i \in Nat /\ j \in Nat
    OBVIOUS
  <2>2. ~(j < i)
    BY <1>2, <2>1 DEF R
  <2> QED
    BY <2>1, <2>2
<1> QED
  BY <1>3

\* Lookup gives a receipt nothing, or the order of one of its messages.
LEMMA LookupVale ==
  ASSUME NEW x, NEW envios, Coherente(x, envios), Ajeno \notin DOMAIN envios,
         NEW n \in Nat, NEW ids, DOMAIN ids = 1 .. n
  PROVE  AcuseJusto(envios, [ids |-> {ids[i] : i \in DOMAIN ids}, mandato |-> Lookup(x, ids)])
<1> DEFINE conocidos == {i \in DOMAIN ids : ids[i] \in DOMAIN x.byMsg}
           primero == CHOOSE i \in conocidos : \A j \in conocidos : i <= j
<1>1. CASE conocidos = {}
  BY <1>1 DEF Lookup, AcuseJusto
<1>2. CASE conocidos # {}
  <2>1. conocidos \in SUBSET Nat
    OBVIOUS
  <2>2. \E i \in conocidos : \A j \in conocidos : i <= j
    BY <1>2, <2>1, MinimoDe
  <2>3. primero \in conocidos
    BY <2>2
  <2>4. Lookup(x, ids) = x.byMsg[ids[primero]]
    BY <1>2 DEF Lookup
  <2>5. ids[primero] \in DOMAIN envios /\ envios[ids[primero]] = x.byMsg[ids[primero]]
    BY <2>3 DEF Coherente
  <2>6. ids[primero] \in {ids[i] : i \in DOMAIN ids} \ {Ajeno}
    BY <2>3, <2>5
  <2> QED
    BY <2>4, <2>5, <2>6 DEF AcuseJusto
<1> QED
  BY <1>1, <1>2

\* The invariant of the sends, the receipts and the correlator of the cycle.
CorrInv ==
  /\ enviados \in Seq(Mandatos) /\ enCamino \subseteq DOMAIN enviados
  /\ Coherente(corr, enviados) /\ Cardinality(DOMAIN corr.byCmd) <= TopeCorr
  /\ AcuseJusto(enviados, subido)

LEMMA VacioVale == ASSUME NEW envios PROVE Coherente(Vacio, envios) /\ Cardinality(DOMAIN Vacio.byCmd) = 0
<1>1. DOMAIN Vacio.byCmd = {} /\ DOMAIN Vacio.byMsg = {} /\ DOMAIN Vacio.order = {} /\ Vacio.order = <<>>
  BY DEF Vacio
<1> QED
  BY <1>1, FS_EmptySet, EmptySeq DEF Coherente, Casan, EnCola

LEMMA CorrInicial == InitCorr => CorrInv
<1>1. InitCorr => <<>> \in Seq(Mandatos) /\ TopeCorr \in Nat
  BY CorrAssumption DEF CorrAssumption
<1> QED
  BY <1>1, VacioVale, CorrAssumption DEF InitCorr, CorrInv, CorrAssumption, AcuseJusto, SinAcuse

LEMMA CorrSeConserva == CorrInv /\ [NextCorr]_varsCorr => CorrInv'
<1> SUFFICES ASSUME CorrInv, [NextCorr]_varsCorr PROVE CorrInv'
  OBVIOUS
<1>0. Cardinality(DOMAIN corr.byCmd) \in Nat /\ TopeCorr \in Nat
  BY FS_CardinalityType, CorrAssumption DEF CorrInv, Coherente, CorrAssumption
<1>1. ASSUME NEW c \in Mandatos, SendMessage(c) PROVE CorrInv'
  <2>1. /\ enviados' \in Seq(Mandatos) /\ Len(enviados) \in Nat
        /\ DOMAIN enviados = 1 .. Len(enviados) /\ DOMAIN enviados' = 1 .. (Len(enviados) + 1)
        /\ \A i \in 1 .. Len(enviados) : enviados'[i] = enviados[i]
    BY <1>1, AppendProperties, LenProperties DEF SendMessage, CorrInv
  <2>2. DOMAIN enviados \subseteq DOMAIN enviados' /\ Len(enviados) + 1 \in DOMAIN enviados'
    BY <2>1
  <2>3. \A i \in DOMAIN enviados : i \in DOMAIN enviados' /\ enviados'[i] = enviados[i]
    BY <2>1, <2>2
  <2>4. Coherente(corr, enviados')
    BY <2>3 DEF CorrInv, Coherente
  <2>5. enCamino' \subseteq DOMAIN enviados'
    BY <1>1, <2>2 DEF SendMessage, CorrInv
  <2>6. AcuseJusto(enviados', subido)
    BY <2>3 DEF CorrInv, AcuseJusto
  <2> QED
    BY <1>1, <2>1, <2>4, <2>5, <2>6 DEF SendMessage, CorrInv
<1>2. ASSUME NEW m \in 1 .. MaxEnvios, Remember(m) PROVE CorrInv'
  <2>1. m \in DOMAIN enviados /\ enviados[m] \in Mandatos
    BY <1>2, LenProperties DEF Remember, CorrInv
  <2> DEFINE p == Poda(corr)
             r == RegistraEnvio(p, enviados[m], m)
  <2>2. Coherente(p, enviados) /\ Cardinality(DOMAIN p.byCmd) <= TopeCorr
    <3>1. Coherente(p, enviados) /\ Cardinality(DOMAIN p.byCmd) <= Cardinality(DOMAIN corr.byCmd)
      BY PodaVale DEF CorrInv
    <3>2. Cardinality(DOMAIN p.byCmd) \in Nat
      BY <3>1, FS_CardinalityType DEF Coherente
    <3> QED
      BY <1>0, <3>1, <3>2 DEF CorrInv
  <2> HIDE DEF p
  <2>3. Coherente(r, enviados) /\ Cardinality(DOMAIN r.byCmd) <= Cardinality(DOMAIN p.byCmd) + 1
    BY <2>1, <2>2, RegistraVale
  <2>4. Cardinality(DOMAIN p.byCmd) \in Nat /\ Cardinality(DOMAIN r.byCmd) \in Nat
    BY <2>2, <2>3, FS_CardinalityType DEF Coherente
  <2> HIDE DEF r
  <2>5. Cardinality(DOMAIN r.byCmd) <= TopeCorr + 1
    BY <1>0, <2>2, <2>3, <2>4
  <2>6. Coherente(Evicta(r), enviados) /\ Cardinality(DOMAIN Evicta(r).byCmd) <= TopeCorr
    BY <2>3, <2>5, EvictaVale, CorrAssumption
  <2> QED
    BY <1>2, <2>6 DEF Remember, CorrInv, p, r
<1>3. ASSUME NEW n \in 1 .. MaxIds, NEW ids \in [1 .. n -> DOMAIN enviados \cup {Ajeno}], Acuse(ids)
      PROVE  CorrInv'
  <2>1. Coherente(corr', enviados) /\ Cardinality(DOMAIN (corr').byCmd) <= Cardinality(DOMAIN corr.byCmd)
    BY <1>3, PodaVale DEF Acuse, CorrInv
  <2>2. Cardinality(DOMAIN (corr').byCmd) \in Nat
    BY <2>1, FS_CardinalityType DEF Coherente
  <2>3. Cardinality(DOMAIN (corr').byCmd) <= TopeCorr
    BY <1>0, <2>1, <2>2 DEF CorrInv
  <2>4. Ajeno \notin DOMAIN enviados /\ n \in Nat /\ DOMAIN ids = 1 .. n
    BY LenProperties, CorrAssumption DEF CorrInv, CorrAssumption, Ajeno
  <2>5. AcuseJusto(enviados, subido')
    BY <1>3, <2>1, <2>4, LookupVale DEF Acuse
  <2> QED
    BY <1>3, <2>1, <2>3, <2>5 DEF Acuse, CorrInv
<1>4. CASE CicloDeEscucha
  BY <1>0, <1>4, VacioVale DEF CicloDeEscucha, CorrInv
<1>5. CASE PasaHora \/ UNCHANGED varsCorr
  <2>1. UNCHANGED <<corr, enviados, enCamino, subido>>
    BY <1>5 DEF PasaHora, varsCorr
  <2> QED
    BY <2>1 DEF CorrInv
<1> QED
  BY <1>1, <1>2, <1>3, <1>4, <1>5 DEF NextCorr

LEMMA CorrCoherente == CorrInv => CorrelacionCoherente
<1> SUFFICES ASSUME CorrInv PROVE CorrelacionCoherente
  OBVIOUS
<1> DEFINE D == DOMAIN corr.byCmd
           q == corr.order
<1>1. /\ q \in [1 .. Len(q) -> D] /\ DOMAIN q = 1 .. Len(q) /\ Len(q) \in Nat
      /\ \A i, j \in 1 .. Len(q) : q[i] = q[j] => i = j
      /\ \A c \in D : \E i \in 1 .. Len(q) : q[i] = c
      /\ IsFiniteSet(D)
  BY LenProperties DEF CorrInv, Coherente, EnCola
<1>2. {q[i] : i \in DOMAIN q} = D
  BY <1>1
<1>3. Len(q) = Cardinality(D)
  <2>1. IsFiniteSet(1 .. Len(q)) /\ Cardinality(1 .. Len(q)) = Len(q)
    BY <1>1, FS_Interval
  <2> HIDE DEF D, q
  <2>2. q \in Injection(1 .. Len(q), D)
    BY <1>1, Fun_IsInj
  <2>3. q \in Surjection(1 .. Len(q), D)
    BY <1>1, Fun_IsSurj
  <2> QED
    BY <1>1, <2>1, <2>2, <2>3, FS_Surjection
<1>4. subido.mandato # SinMandato => \E m \in subido.ids \ {Ajeno} : enviados[m] = subido.mandato
  BY DEF CorrInv, AcuseJusto
<1> QED
  BY <1>2, <1>3, <1>4 DEF CorrelacionCoherente, CorrInv, Coherente, Casan

\* The maps and the queue of the correlator agree under repetitions, expiry and eviction, and a
\* receipt goes up with the order of one of its messages, or with none (correlation.go:54-133).
THEOREM AcuseConUnoDeLosSuyos == SpecCorr => []CorrelacionCoherente
  BY CorrInicial, CorrSeConserva, CorrCoherente, PTL DEF SpecCorr
=============================================================================
