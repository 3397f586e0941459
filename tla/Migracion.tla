------------------------------ MODULE Migracion ------------------------------
(***************************************************************************)
(* The start-up migration of the sessions of the directory-per-session     *)
(* layout to the single database.  Phase 1 archives every                  *)
(* sessions/<id>/; phase 2 restores each archived session (its encrypted   *)
(* rows, its DEK, its row in devices) and purges the archive only after    *)
(* verifying.  The process may die between any two steps, any step may     *)
(* fail, and a move across volumes is a copy that may stop half way.       *)
(*                                                                         *)
(* The mark of phase 1 is the archive directory itself, made before the    *)
(* moves: a move that fails is never tried again, and its session stays    *)
(* under sessions/.  The flat layout older still (ArchiveLegacySingle-     *)
(* Session) is archived the same way but marked afterwards.                *)
(***************************************************************************)
EXTENDS Naturals, FiniteSets

CONSTANTS
  Heredadas,    \* sessions of the old layout
  MaxInicios    \* bound on the starts of the agent

ASSUME IniciosAssumption == MaxInicios \in Nat

VARIABLES
  viejo,        \* per session: its directory under sessions/
  archivo,      \* per session: its directory under _archived-pre-022/sessions/
  archivada,    \* _archived-pre-022/ exists
  planos,       \* files of the flat layout not archived yet
  raizSesiones, \* sessions/ exists
  filas,        \* per session: its msg_enc_* rows in the single database
  llave,        \* per session: keys/<id>.key is in custody
  dispositivo,  \* per session: its row in devices
  caduca,       \* per session: its DEK does not open its store
  etapa,         \* what the process is doing
  faltan,       \* sessions of the directory listing it has not reached
  paso,         \* where restoreOneSession is, and with which session
  suyas,        \* ghost: sessions of the installation the user has not unlinked
  inicios

discoMig   == <<viejo, archivo, archivada, planos, raizSesiones>>
baseMig    == <<filas, llave, dispositivo>>
procesoMig == <<etapa, faltan, paso>>
varsMig    == <<discoMig, baseMig, procesoMig, caduca, suyas, inicios>>

Arbol == {"no", "parcial", "entero"}
Ninguna == [en |-> "nada", id |-> "nadie"]
Pasos == {"lee", "copia", "custodia", "registra", "verifica", "purga"}

TipoMig ==
  /\ viejo \in [Heredadas -> Arbol] /\ archivo \in [Heredadas -> Arbol]
  /\ archivada \in BOOLEAN /\ planos \subseteq {"db", "dek"} /\ raizSesiones \in BOOLEAN
  /\ filas \in [Heredadas -> Arbol] /\ llave \in [Heredadas -> BOOLEAN]
  /\ dispositivo \in [Heredadas -> {"no", "active", "loggedout"}]
  /\ caduca \in [Heredadas -> BOOLEAN]
  /\ etapa \in {"apagado", "plano", "archiva", "abre", "restaura", "sirve"}
  /\ faltan \subseteq Heredadas /\ suyas \subseteq Heredadas
  /\ paso \in {Ninguna} \cup [en : Pasos, id : Heredadas]
  /\ inicios \in 0 .. MaxInicios

\* An installation has the flat layout (no sessions yet) or the per-session one.
InitMig ==
  /\ suyas \in {{}, Heredadas}
  /\ viejo = [s \in Heredadas |-> IF s \in suyas THEN "entero" ELSE "no"]
  /\ planos = IF suyas = {} THEN {"db", "dek"} ELSE {}
  /\ raizSesiones = (planos = {})
  /\ archivo = [s \in Heredadas |-> "no"] /\ archivada = FALSE
  /\ filas = [s \in Heredadas |-> "no"] /\ llave = [s \in Heredadas |-> FALSE]
  /\ dispositivo = [s \in Heredadas |-> "no"]
  /\ caduca \in [Heredadas -> BOOLEAN]
  /\ etapa = "apagado" /\ faltan = {} /\ paso = Ninguna
  /\ inicios = 0

EntraEn(f) == etapa' = f /\ UNCHANGED <<paso, caduca, suyas, inicios>>

Inicia ==
  /\ etapa = "apagado" /\ inicios < MaxInicios /\ inicios' = inicios + 1
  /\ etapa' = "plano"
  /\ UNCHANGED <<discoMig, baseMig, faltan, paso, caduca, suyas>>

MuereMig ==
  /\ etapa # "apagado" /\ etapa' = "apagado" /\ faltan' = {} /\ paso' = Ninguna
  /\ UNCHANGED <<discoMig, baseMig, caduca, suyas, inicios>>

----------------------------------------------------------------------------
(* Phase 0: the flat store and its DEK.  Not fatal: the start goes on.     *)

ArchiveFile(f) ==
  /\ etapa = "plano" /\ ~raizSesiones /\ f \in planos
  /\ planos' = planos \ {f} /\ EntraEn("plano")
  /\ UNCHANGED <<viejo, archivo, archivada, raizSesiones, baseMig, faltan>>

\* A whole pass creates sessions/, its mark; a failed one leaves it for the next start.
ArchiveLegacySingleSession ==
  /\ etapa = "plano" /\ EntraEn("archiva")
  /\ \/ planos = {} /\ raizSesiones' = TRUE
     \/ ~raizSesiones /\ UNCHANGED raizSesiones
  /\ UNCHANGED <<viejo, archivo, archivada, planos, baseMig, faltan>>

----------------------------------------------------------------------------
(* Phase 1.                                                                *)

Hay(a) == {s \in Heredadas : a[s] # "no"}

\* The archive directory is made first, moves or no moves.  When it cannot be made
\* whole, or sessions/ cannot be listed, nothing moves and the start goes on.
ArchiveLegacyPerSessionLayout ==
  /\ etapa = "archiva" /\ faltan = {}
  /\ \/ /\ archivada' = TRUE
        /\ IF archivada \/ Hay(viejo) = {}
           THEN EntraEn("abre") /\ UNCHANGED faltan
           ELSE EntraEn("archiva") /\ faltan' = Hay(viejo)
     \/ ~archivada /\ archivada' \in BOOLEAN /\ EntraEn("abre") /\ UNCHANGED faltan
  /\ UNCHANGED <<viejo, archivo, planos, raizSesiones, baseMig>>

\* The end of the listing, or the first failed move, ends the pass.
Mueve(s) == faltan' = faltan \ {s} /\ EntraEn(IF faltan' = {} THEN "abre" ELSE "archiva")

MoveDir(s) ==
  /\ etapa = "archiva" /\ s \in faltan /\ Mueve(s)
  /\ archivo' = [archivo EXCEPT ![s] = viejo[s]]
  /\ viejo' = [viejo EXCEPT ![s] = "no"]
  /\ UNCHANGED <<archivada, planos, raizSesiones, baseMig>>

\* The rename, the copy across volumes, or the removal of a copied source fails.
MoveDirFalla(s) ==
  /\ etapa = "archiva" /\ s \in faltan /\ faltan' = {} /\ EntraEn("abre")
  /\ \/ UNCHANGED <<viejo, archivo>>
     \/ archivo' = [archivo EXCEPT ![s] = "parcial"] /\ UNCHANGED viejo
     \/ /\ archivo' = [archivo EXCEPT ![s] = viejo[s]]
        /\ viejo' \in {viejo, [viejo EXCEPT ![s] = "parcial"]}
  /\ UNCHANGED <<archivada, planos, raizSesiones, baseMig>>

----------------------------------------------------------------------------
(* Phase 2: RestoreArchivedActiveSessions, once the database is open.      *)

Restaura(l) == etapa' = IF l = {} THEN "sirve" ELSE "restaura"

RestoreArchivedActiveSessions ==
  /\ etapa = "abre" /\ faltan' = Hay(archivo) /\ Restaura(faltan')
  /\ UNCHANGED <<discoMig, baseMig, paso, caduca, suyas, inicios>>

En1(s, donde) == paso = [en |-> donde, id |-> s] /\ etapa = "restaura"

SigueEn(s, donde) ==
  paso' = [en |-> donde, id |-> s] /\ UNCHANGED <<etapa, faltan, caduca, suyas, inicios>>

\* outcomeSkipped, outcomeFallback or outcomeRestored: on to the next session.
AcabaRestauracion(s) ==
  /\ paso' = Ninguna /\ faltan' = faltan \ {s} /\ Restaura(faltan')
  /\ UNCHANGED <<caduca, suyas, inicios>>

RestoreOneSession(s) ==
  /\ etapa = "restaura" /\ paso = Ninguna /\ s \in faltan /\ SigueEn(s, "lee")
  /\ UNCHANGED <<discoMig, baseMig>>

\* A copy cut short may lack the DEK or the store, or only the tail of the store.
ReadPairedDevice(s) ==
  /\ En1(s, "lee") /\ ~caduca[s] /\ SigueEn(s, "copia")
  /\ UNCHANGED <<discoMig, baseMig>>

RegisterLoggedOut(s) ==
  /\ En1(s, "lee") /\ caduca[s] /\ AcabaRestauracion(s)
  /\ dispositivo' \in {dispositivo, [dispositivo EXCEPT ![s] = "loggedout"]}
  /\ UNCHANGED <<discoMig, filas, llave>>

\* INSERT OR IGNORE in one transaction: rows already there stay as they are.
CopyEncryptedRows(s) ==
  /\ En1(s, "copia") /\ SigueEn(s, "custodia")
  /\ filas' = IF filas[s] = "no" THEN [filas EXCEPT ![s] = archivo[s]] ELSE filas
  /\ UNCHANGED <<discoMig, llave, dispositivo>>

CustodiaDEK(s) ==
  /\ En1(s, "custodia") /\ SigueEn(s, "registra")
  /\ llave' = [llave EXCEPT ![s] = TRUE]
  /\ UNCHANGED <<discoMig, filas, dispositivo>>

UpsertActiva(s) ==
  /\ En1(s, "registra") /\ SigueEn(s, "verifica")
  /\ dispositivo' = [dispositivo EXCEPT ![s] = "active"]
  /\ UNCHANGED <<discoMig, filas, llave>>

VerifyMigrated(s) ==
  /\ En1(s, "verifica") /\ dispositivo[s] # "no" /\ filas[s] # "no" /\ SigueEn(s, "purga")
  /\ UNCHANGED <<discoMig, baseMig>>

\* Any step before the purge may fail: the archive is kept.
SeConserva(s) ==
  /\ \E p \in Pasos \ {"purga"} : En1(s, p)
  /\ AcabaRestauracion(s)
  /\ UNCHANGED <<discoMig, baseMig>>

\* Mutant: the archive is purged before the session is registered and verified.
PurgaAntes(s) ==
  /\ En1(s, "registra") /\ AcabaRestauracion(s)
  /\ archivo' \in {[archivo EXCEPT ![s] = a] : a \in {"no", "parcial", archivo[s]}}
  /\ UNCHANGED <<viejo, archivada, planos, raizSesiones, baseMig>>

\* The failure of RemoveAll, half way or at once, is only logged.
Purga(s) ==
  /\ En1(s, "purga") /\ AcabaRestauracion(s)
  /\ archivo' \in {[archivo EXCEPT ![s] = a] : a \in {"no", "parcial", archivo[s]}}
  /\ UNCHANGED <<viejo, archivada, planos, raizSesiones, baseMig>>

----------------------------------------------------------------------------
\* Manager.Unlink of a restored session, by the user, while the daemon serves.
DesvinculaMig(s) ==
  /\ etapa = "sirve" /\ dispositivo[s] # "no"
  /\ dispositivo' = [dispositivo EXCEPT ![s] = "no"]
  /\ filas' = [filas EXCEPT ![s] = "no"] /\ llave' = [llave EXCEPT ![s] = FALSE]
  /\ suyas' = suyas \ {s}
  /\ UNCHANGED <<discoMig, procesoMig, caduca, inicios>>

NextMig ==
  \/ Inicia \/ MuereMig \/ ArchiveLegacySingleSession \/ ArchiveLegacyPerSessionLayout
  \/ RestoreArchivedActiveSessions
  \/ \E f \in {"db", "dek"} : ArchiveFile(f)
  \/ \E s \in Heredadas :
       \/ MoveDir(s) \/ MoveDirFalla(s) \/ RestoreOneSession(s) \/ ReadPairedDevice(s)
       \/ RegisterLoggedOut(s) \/ CopyEncryptedRows(s) \/ CustodiaDEK(s) \/ UpsertActiva(s)
       \/ VerifyMigrated(s) \/ SeConserva(s) \/ Purga(s) \/ DesvinculaMig(s)

SpecMig == InitMig /\ [][NextMig]_varsMig

----------------------------------------------------------------------------
\* Until the user unlinks it, every session of the old layout is whole in one
\* place: its directory, its archive, or the database with its DEK and its
\* row, whatever fails and wherever the process dies
\* (restore_active_sessions.go:29-38, edgemigrate.go:237-239).
NadaSePierde ==
  \A s \in suyas :
    \/ "entero" \in {viejo[s], archivo[s]}
    \/ filas[s] = "entero" /\ llave[s] /\ dispositivo[s] # "no"
=============================================================================
