----------------------------- MODULE SessionMgr -----------------------------
(***************************************************************************)
(* The session manager of the daemon: the registry of live sessions, the   *)
(* pairing of a phone, the roles of the devices of a number, the reaction  *)
(* to a logged-out device, the surgical deletion of a session, the orderly *)
(* stop and the restoration after a restart.  Its rows live in the session *)
(* store, the key (DEK) and the encrypted material beside it.              *)
(*                                                                         *)
(* A session takes its number when its pairing starts, and pairings do not *)
(* overlap (control/server/pair.go), so ids are in the order of PairedAt.  *)
(* What a listener does from one connection to the next is CicloEscucha's  *)
(* matter: here it runs or has ended.  The hook of a logged-out device     *)
(* reads its metadata and writes its row in one step.                      *)
(***************************************************************************)
EXTENDS Naturals, FiniteSets, FiniteSetsExt

CONSTANTS
  MaxSes,     \* bound on the sessions ever created
  Previas,    \* how many of them an earlier process left active
  Numeros,    \* the phone numbers
  Cupo,       \* multiDevicePerAccount: live devices allowed per number
  Peticiones, \* the concurrent calls of Unlink
  MaxCierres, \* bound on the sessions that WhatsApp closes, per process
  MaxBajas,   \* bound on the calls of Unlink
  MaxPercances, \* bound on the statements that fail and the deaths of the process, together
  SinNum      \* the number of a session that has none yet

ASSUME CotasAssumption ==
  /\ MaxSes \in Nat \ {0} /\ Previas \in 0 .. MaxSes /\ Cupo \in 1 .. 4 /\ MaxPercances \in Nat
  /\ MaxBajas \in Nat /\ MaxCierres \in Nat
  /\ IsFiniteSet(Numeros) /\ SinNum \notin Numeros

Ses == 1 .. MaxSes

VARIABLES
  fila,        \* devices: per session its row
  cuentas,     \* accounts: a number, or the session of a provisional account
  dek,         \* sessions with a key in custody
  material,    \* sessions with encrypted material in the store
  viva,        \* Manager.live
  meta,        \* liveSession.meta
  mux,         \* sessions registered with CloudLink
  escucha,     \* the listener goroutine of each session
  despacho,    \* the dispatcher goroutine of each session
  orden,       \* liveSession.cancel: nil, armed, or called
  par,         \* the pairing in progress
  borra,       \* per call of Unlink: where it is
  gancho,      \* per session: where the hook of events.LoggedOut is
  relevo,      \* the standby that hook has chosen (0 = none)
  parada,      \* Stop, the sessions of its snapshot still to cancel, and (history) if it
               \* was called with no pairing about
  porRestaurar,\* rows Restore has yet to start
  creadas, fallos, caidas, bajas,
  cruzadas,    \* history: sessions deleted while their pairing or their hook ran
  solapada,    \* history: a pairing or an Unlink overlapped a promotion of its number
  limpias      \* history: live sessions that an Unlink deleted without an error

disco == <<fila, cuentas, dek, material>>
hilos == <<escucha, despacho, orden>>
historia == <<cruzadas, limpias, solapada>>
vars == <<disco, viva, meta, mux, hilos, par, borra, gancho, relevo, parada, porRestaurar,
          creadas, fallos, caidas, bajas, historia>>

Nada == [estado |-> "nada", num |-> SinNum, rol |-> "primary"]
EnPairing == [estado |-> "pairing", num |-> SinNum, rol |-> "primary"]

\* A pairing with nothing known of the phone, and the record of an Unlink.
ParDe(donde, s) == [paso |-> donde, s |-> s, num |-> SinNum, rol |-> "primary", jid |-> FALSE]
BajaDe(donde, s, jid, mal, eraViva) ==
  [paso |-> donde, s |-> s, jid |-> jid, mal |-> mal, eraViva |-> eraViva]
SinPar == ParDe("libre", 0)
Reposo == BajaDe("libre", 0, FALSE, FALSE, FALSE)

Filas == [estado : {"nada", "pairing", "active", "loggedout"}, num : Numeros \cup {SinNum},
          rol : {"primary", "standby"}]

\* The account of a row: that of its number, provisional while it has none.
CuentaDe(f, s) == IF f.num = SinNum THEN s ELSE f.num

\* A row or an entry knows its JID when it knows its number.
ConJid(f) == f.num # SinNum

Corre(s) == escucha[s] = "corre" \/ despacho[s] = "corre"

\* Mutant: nobody waits for the dispatcher.
UnidaLaEscucha(s) == escucha[s] # "corre"

\* waitDone and waitDespachadores have returned.
Unida(s) == escucha[s] # "corre" /\ despacho[s] # "corre"

Tipos ==
  /\ fila \in [Ses -> Filas] /\ meta \in [Ses -> Filas]
  /\ cuentas \subseteq Ses \cup Numeros
  /\ dek \subseteq Ses /\ material \subseteq Ses /\ viva \subseteq Ses /\ mux \subseteq Ses
  /\ escucha \in [Ses -> {"no", "corre", "fin"}]
  /\ despacho \in [Ses -> {"no", "corre", "fin"}]
  /\ orden \in [Ses -> {"nil", "vivo", "cancelado"}]
  /\ par \in [paso : {"libre", "qr", "guardado", "registrada", "fuera", "persistida",
                      "restos", "fila"},
              s : 0 .. creadas, num : Numeros \cup {SinNum}, rol : {"primary", "standby"},
              jid : BOOLEAN]
  /\ borra \in [Peticiones ->
       [paso : {"libre", "para", "une", "existe", "restos", "fila"},
        s : 0 .. creadas, jid : BOOLEAN, mal : BOOLEAN, eraViva : BOOLEAN]]
  /\ gancho \in [Ses -> {"no", "nube", "baja", "elige", "asciende", "hecho"}]
  /\ relevo \in [Ses -> 0 .. MaxSes]
  /\ parada \in [paso : {"no", "avisa", "fin"}, quedan : SUBSET Ses, sola : BOOLEAN]
  /\ porRestaurar \subseteq Ses
  /\ creadas \in 0 .. MaxSes /\ fallos \in Nat /\ caidas \in Nat /\ bajas \in Nat
  /\ cruzadas \subseteq Ses /\ limpias \subseteq Ses /\ solapada \in BOOLEAN

\* Every row has its account, every account a row: the store leaves no orphan.
SinHuerfanas == cuentas = {CuentaDe(fila[s], s) : s \in {t \in Ses : fila[t] # Nada}}

TypeOK == Tipos

\* The sessions of an earlier process belong to one number; the first of them is its primary.
Init ==
  /\ \E n \in Numeros :
       /\ fila = [s \in Ses |-> IF s > Previas THEN Nada
                              ELSE [estado |-> "active", num |-> n,
                                    rol |-> IF s = 1 THEN "primary" ELSE "standby"]]
       /\ cuentas = (IF Previas = 0 THEN {} ELSE {n})
  /\ dek = 1 .. Previas /\ material = 1 .. Previas
  /\ viva = {} /\ meta = [s \in Ses |-> Nada] /\ mux = {}
  /\ escucha = [s \in Ses |-> "no"] /\ despacho = [s \in Ses |-> "no"]
  /\ orden = [s \in Ses |-> "nil"]
  /\ par = SinPar /\ borra = [p \in Peticiones |-> Reposo]
  /\ gancho = [s \in Ses |-> "no"] /\ relevo = [s \in Ses |-> 0]
  /\ parada = [paso |-> "no", quedan |-> {}, sola |-> FALSE] /\ porRestaurar = 1 .. Previas
  /\ creadas = Previas /\ fallos = 0 /\ caidas = 0 /\ bajas = 0 /\ cruzadas = {} /\ limpias = {}
  /\ solapada = FALSE

-----------------------------------------------------------------------------
(* The stores *)

\* A statement fails, within the bound, or takes its effect.
Falla == fallos + caidas < MaxPercances /\ fallos' = fallos + 1
Logra == UNCHANGED fallos

PurgaCuenta(c, filas) ==
  IF \E s \in Ses : filas[s] # Nada /\ CuentaDe(filas[s], s) = c THEN {} ELSE {c}

\* Store.Upsert: the row and its account, and the account it leaves if nobody is in it.
Upsert(s, f) ==
  /\ fila' = [fila EXCEPT ![s] = f]
  /\ cuentas' = (cuentas \cup {CuentaDe(f, s)})
                \ (IF fila[s] = Nada THEN {} ELSE PurgaCuenta(CuentaDe(fila[s], s), fila'))

\* DeleteDeviceCascade: the row, and its account when that leaves it empty.
QuitaFila(s) ==
  /\ fila' = [fila EXCEPT ![s] = Nada]
  /\ cuentas' = cuentas \ (IF fila[s] = Nada THEN {} ELSE PurgaCuenta(CuentaDe(fila[s], s), fila'))

\* The key and the material are deleted each on its own: one may fail and not the other.
BorraRestos(s, conJid, falla) ==
  /\ fallos + caidas + Cardinality(falla) <= MaxPercances /\ fallos' = fallos + Cardinality(falla)
  /\ dek' = (IF "dek" \in falla THEN dek ELSE dek \ {s})
  /\ material' = (IF "material" \in falla \/ ~conJid THEN material ELSE material \ {s})
  /\ UNCHANGED <<fila, cuentas>>

BorraFila(s) ==
  \/ Logra /\ QuitaFila(s) /\ UNCHANGED <<dek, material>>
  \/ Falla /\ UNCHANGED disco

-----------------------------------------------------------------------------
(* Pair *)

PairEmpieza ==
  /\ par.paso = "libre" /\ creadas < MaxSes /\ parada.paso = "no" /\ porRestaurar = {}
  /\ creadas' = creadas + 1
  /\ \/ /\ Logra /\ Upsert(creadas + 1, EnPairing)
        /\ par' = ParDe("qr", creadas + 1)
     \/ /\ Falla /\ UNCHANGED <<fila, cuentas>>
        /\ par' = ParDe("restos", creadas + 1)
  /\ UNCHANGED <<dek, material, viva, meta, mux, hilos, borra, gancho, relevo, parada,
                 porRestaurar, caidas, bajas, historia>>

\* The pairing goes on; what was registered or written of it has to be undone.
ParEn(donde) == par' = [par EXCEPT !.paso = donde]
ParSobra     == par' = [par EXCEPT !.paso = "restos", !.jid = TRUE]

\* app.Pair.Run ends without a JID: timeout, error, or the custody that does not store the key.
PairFalla ==
  /\ par.paso \in {"qr", "guardado"}
  /\ ParEn("restos")
  /\ UNCHANGED <<disco, viva, meta, mux, hilos, borra, gancho, relevo, parada, porRestaurar,
                 creadas, fallos, caidas, bajas, historia>>

\* The phone scans: the library saves the device, encrypted with the new key.
PairGuarda ==
  /\ par.paso = "qr"
  /\ ParEn("guardado") /\ material' = material \cup {par.s}
  /\ UNCHANGED <<fila, cuentas, dek, viva, meta, mux, hilos, borra, gancho, relevo, parada,
                 porRestaurar, creadas, fallos, caidas, bajas, historia>>

\* The live devices of a number that count: a logged-out one does not.
Operativos(n) == {s \in viva : meta[s].num = n /\ meta[s].estado # "loggedout"}
\* Mutant: one device too many.
SinSitioHolgado(n) == Cardinality(Operativos(n)) > Cupo

SinSitio(n) == Cardinality(Operativos(n)) >= Cupo

RolNuevo(n) == IF \E s \in Operativos(n) : meta[s].rol = "primary" THEN "standby" ELSE "primary"

\* History: the primary of the number has fallen and its successor is not in place yet.
EnRelevo(n) == \E s \in Ses : meta[s].num = n /\ gancho[s] \in {"baja", "elige", "asciende"}

ParRegistrada(n, rol) == par' = [par EXCEPT !.paso = "registrada", !.num = n, !.rol = rol]

\* The key is sealed, and then, under the lock of the manager: is there room for one more, its
\* role, and the live entry.
PairRegistra(n) ==
  /\ par.paso = "guardado" /\ dek' = dek \cup {par.s}
  /\ IF SinSitio(n)
     THEN ParSobra /\ UNCHANGED <<viva, meta>>
     ELSE /\ ParRegistrada(n, RolNuevo(n))
          /\ viva' = viva \cup {par.s}
          /\ meta' = [meta EXCEPT ![par.s] = [estado |-> "active", num |-> n, rol |-> RolNuevo(n)]]
  /\ solapada' = (solapada \/ EnRelevo(n))
  /\ UNCHANGED <<fila, cuentas, material, mux, hilos, borra, gancho, relevo, parada, porRestaurar,
                 creadas, fallos, caidas, bajas, cruzadas, limpias>>

\* The row is written from the values chosen at registration.
PairPersiste ==
  /\ par.paso = "registrada"
  /\ \/ /\ Logra /\ ParEn("persistida")
        /\ Upsert(par.s, [estado |-> "active", num |-> par.num, rol |-> par.rol])
     \/ /\ Falla /\ ParEn("fuera") /\ UNCHANGED <<fila, cuentas>>
  /\ UNCHANGED <<dek, material, viva, meta, mux, hilos, borra, gancho, relevo, parada,
                 porRestaurar, creadas, caidas, bajas, historia>>

\* The row was not written: the live entry goes before the rest.
PairSeRetira ==
  /\ par.paso = "fuera"
  /\ ParSobra /\ viva' = viva \ {par.s}
  /\ UNCHANGED <<disco, meta, mux, hilos, borra, gancho, relevo, parada, porRestaurar, creadas,
                 fallos, caidas, bajas, historia>>

\* startListener: CloudLink knows the session, which gets its cancel and its two goroutines.
Arma(s) ==
  /\ mux' = mux \cup {s}
  /\ escucha' = [escucha EXCEPT ![s] = "corre"] /\ despacho' = [despacho EXCEPT ![s] = "corre"]
  /\ orden' = [orden EXCEPT ![s] = "vivo"]

PairArma ==
  /\ par.paso = "persistida"
  /\ Arma(par.s) /\ par' = SinPar
  /\ UNCHANGED <<disco, viva, meta, borra, gancho, relevo, parada, porRestaurar, creadas,
                 fallos, caidas, bajas, historia>>

\* cleanupPairing: the material only if it was given the JID; a failure does not stop it.
PairLimpia ==
  /\ par.paso = "restos" /\ ParEn("fila")
  /\ \E falla \in SUBSET {"dek", "material"} : BorraRestos(par.s, par.jid, falla)
  /\ UNCHANGED <<viva, meta, mux, hilos, borra, gancho, relevo, parada, porRestaurar, creadas,
                 caidas, bajas, historia>>

PairLimpiaFila ==
  /\ par.paso = "fila" /\ par' = SinPar /\ BorraFila(par.s)
  /\ UNCHANGED <<viva, meta, mux, hilos, borra, gancho, relevo, parada, porRestaurar, creadas,
                 caidas, bajas, historia>>

-----------------------------------------------------------------------------
(* Unlink *)

PairEnVuelo(s) == par.s = s /\ par.paso \in {"registrada", "fuera", "persistida"}
GanchoEnVuelo(s) == gancho[s] \in {"nube", "baja", "elige", "asciende"}
Quita(p) == borra[p].s

\* stopLive takes the session out of the registry; one that was not live leaves CloudLink now.
UnlinkSaca(p, s) ==
  /\ borra[p] = Reposo /\ bajas < MaxBajas /\ bajas' = bajas + 1
  /\ s \in 1 .. creadas /\ parada.paso = "no" /\ porRestaurar = {}
  /\ IF s \in viva
     THEN /\ viva' = viva \ {s} /\ UNCHANGED mux
          /\ borra' = [borra EXCEPT ![p] = BajaDe("para", s, ConJid(meta[s]), FALSE, TRUE)]
     ELSE /\ mux' = mux \ {s} /\ UNCHANGED viva
          /\ borra' = [borra EXCEPT ![p] = BajaDe("existe", s, FALSE, FALSE, FALSE)]
  /\ cruzadas' = (IF par.s = s THEN cruzadas \cup {s} ELSE cruzadas)
  /\ UNCHANGED <<disco, meta, hilos, par, gancho, relevo, parada, porRestaurar, creadas,
                 fallos, caidas, limpias, solapada>>

\* Mutant: a session that WhatsApp closed is taken for stopped.
CancelaSanas(s) ==
  orden' = (IF orden[s] = "vivo" /\ meta[s].estado # "loggedout"
           THEN [orden EXCEPT ![s] = "cancelado"] ELSE orden)

\* stop() does nothing to a session that has no cancel yet.
Cancela(s) == orden' = (IF orden[s] = "vivo" THEN [orden EXCEPT ![s] = "cancelado"] ELSE orden)

UnlinkPara(p) ==
  /\ borra[p].paso = "para"
  /\ Cancela(Quita(p)) /\ borra' = [borra EXCEPT ![p].paso = "une"]
  /\ UNCHANGED <<disco, viva, meta, mux, escucha, despacho, par, gancho, relevo, parada,
                 porRestaurar, creadas, fallos, caidas, bajas, historia>>

\* waitDone and waitDespachadores, then Unregister: nobody waits for the hook.
UnlinkUne(p) ==
  /\ borra[p].paso = "une" /\ Unida(Quita(p))
  /\ borra' = [borra EXCEPT ![p].paso = "restos"] /\ mux' = mux \ {Quita(p)}
  /\ cruzadas' = (IF GanchoEnVuelo(Quita(p)) THEN cruzadas \cup {Quita(p)} ELSE cruzadas)
  /\ UNCHANGED <<disco, viva, meta, hilos, par, gancho, relevo, parada, porRestaurar,
                 creadas, fallos, caidas, bajas, limpias, solapada>>

\* A session that was not live has to have a row, which tells its JID.
UnlinkExiste(p) ==
  /\ borra[p].paso = "existe"
  /\ \/ /\ Logra /\ fila[Quita(p)] # Nada
        /\ borra' = [borra EXCEPT ![p] = BajaDe("restos", @.s, ConJid(fila[@.s]), FALSE, FALSE)]
     \/ /\ Logra /\ fila[Quita(p)] = Nada /\ borra' = [borra EXCEPT ![p] = Reposo]
     \/ /\ Falla /\ borra' = [borra EXCEPT ![p] = Reposo]
  /\ UNCHANGED <<disco, viva, meta, mux, hilos, par, gancho, relevo, parada, porRestaurar, creadas,
                 caidas, bajas, historia>>

\* Each of the three deletions is tried though another failed; an error of any is returned.
UnlinkBorra(p) ==
  /\ borra[p].paso = "restos"
  /\ \E falla \in SUBSET {"dek", "material"} :
       /\ BorraRestos(Quita(p), borra[p].jid, falla)
       /\ borra' = [borra EXCEPT ![p] = BajaDe("fila", @.s, @.jid, falla # {}, @.eraViva)]
  /\ UNCHANGED <<viva, meta, mux, hilos, par, gancho, relevo, parada, porRestaurar, creadas,
                 caidas, bajas, historia>>

UnlinkBorraFila(p) ==
  /\ borra[p].paso = "fila" /\ BorraFila(Quita(p))
  /\ borra' = [borra EXCEPT ![p] = Reposo]
  /\ limpias' = (IF /\ borra[p].eraViva /\ ~borra[p].mal /\ fallos' = fallos
                    /\ Quita(p) \notin cruzadas
                 THEN limpias \cup {Quita(p)} ELSE limpias)
  /\ UNCHANGED <<viva, meta, mux, hilos, par, gancho, relevo, parada, porRestaurar, creadas,
                 caidas, bajas, cruzadas, solapada>>

-----------------------------------------------------------------------------
(* The goroutines of a session *)

EscuchaTermina(s) ==
  /\ escucha[s] = "corre" /\ orden[s] = "cancelado"
  /\ escucha' = [escucha EXCEPT ![s] = "fin"]
  /\ UNCHANGED <<disco, viva, meta, mux, despacho, orden, par, borra, gancho, relevo, parada,
                 porRestaurar, creadas, fallos, caidas, bajas, historia>>

DespachoTermina(s) ==
  /\ despacho[s] = "corre" /\ orden[s] = "cancelado"
  /\ despacho' = [despacho EXCEPT ![s] = "fin"]
  /\ UNCHANGED <<disco, viva, meta, mux, escucha, orden, par, borra, gancho, relevo, parada,
                 porRestaurar, creadas, fallos, caidas, bajas, historia>>

-----------------------------------------------------------------------------
(* onLoggedOut: it runs in a goroutine of the library, and nobody joins it *)

CambiaGancho(s, de, a) == gancho[s] = de /\ gancho' = [gancho EXCEPT ![s] = a]

\* WhatsApp closes the session: the cloud hears of the zombie first.
LoggedOutNube(s) ==
  /\ escucha[s] = "corre" /\ CambiaGancho(s, "no", "nube")
  /\ Cardinality({t \in Ses : gancho[t] # "no"}) < MaxCierres
  /\ UNCHANGED <<disco, viva, meta, mux, hilos, par, borra, relevo, parada, porRestaurar, creadas,
                 fallos, caidas, bajas, historia>>

\* The row becomes loggedout, and only then the entry in memory.
LoggedOutBaja(s) ==
  /\ CambiaGancho(s, "nube", "baja")
  /\ \/ /\ Logra /\ Upsert(s, [estado |-> "loggedout", num |-> meta[s].num, rol |-> meta[s].rol])
        /\ meta' = [meta EXCEPT ![s].estado = "loggedout"]
     \/ /\ Falla /\ UNCHANGED <<fila, cuentas, meta>>
  /\ UNCHANGED <<dek, material, viva, mux, hilos, par, borra, relevo, parada, porRestaurar, creadas,
                 caidas, bajas, historia>>

Candidatos(s) == {t \in Operativos(meta[s].num) \ {s} : meta[t].rol = "standby"}

\* Out of CloudLink.  Only the fall of a primary promotes: it chooses the standby paired last.
LoggedOutElige(s) ==
  /\ mux' = mux \ {s}
  /\ IF meta[s].rol = "standby" \/ Candidatos(s) = {}
     THEN CambiaGancho(s, "baja", "hecho") /\ UNCHANGED relevo
     ELSE /\ CambiaGancho(s, "baja", "elige")
          /\ \E t \in Candidatos(s) : /\ \A u \in Candidatos(s) : u <= t
                                     /\ relevo' = [relevo EXCEPT ![s] = t]
  /\ solapada' = (solapada \/ (gancho'[s] = "elige" /\ (s \notin viva \/ PairEnVuelo(relevo'[s]))))
  /\ UNCHANGED <<disco, viva, meta, hilos, par, borra, parada, porRestaurar, creadas, fallos,
                 caidas, bajas, cruzadas, limpias>>

\* SetRole updates a row if there is one; a failure is not retried.
LoggedOutAsciende(s) ==
  /\ \/ /\ Logra /\ CambiaGancho(s, "elige", "asciende")
        /\ fila' = (IF fila[relevo[s]] = Nada THEN fila
                    ELSE [fila EXCEPT ![relevo[s]].rol = "primary"])
     \/ /\ Falla /\ CambiaGancho(s, "elige", "hecho") /\ UNCHANGED fila
  /\ UNCHANGED <<cuentas, dek, material, viva, meta, mux, hilos, par, borra, relevo, parada,
                 porRestaurar, creadas, caidas, bajas, historia>>

LoggedOutMemoria(s) ==
  /\ CambiaGancho(s, "asciende", "hecho")
  /\ meta' = [meta EXCEPT ![relevo[s]].rol = "primary"]
  /\ UNCHANGED <<disco, viva, mux, hilos, par, borra, relevo, parada, porRestaurar, creadas, fallos,
                 caidas, bajas, historia>>

-----------------------------------------------------------------------------
(* Stop, the end of the process, and Restore *)

StopToma ==
  /\ parada.paso = "no" /\ porRestaurar = {}
  /\ parada' = [paso |-> "avisa", quedan |-> viva,
                sola |-> par.paso = "libre" /\ cruzadas = {}]
  /\ UNCHANGED <<disco, viva, meta, mux, hilos, par, borra, gancho, relevo, porRestaurar, creadas,
                 fallos, caidas, bajas, historia>>

StopCancela(s) ==
  /\ s \in parada.quedan
  /\ Cancela(s) /\ parada' = [parada EXCEPT !.quedan = parada.quedan \ {s}]
  /\ UNCHANGED <<disco, viva, meta, mux, escucha, despacho, par, borra, gancho, relevo,
                 porRestaurar, creadas, fallos, caidas, bajas, historia>>

StopTermina ==
  /\ parada.paso = "avisa" /\ parada.quedan = {} /\ \A s \in Ses : Unida(s)
  /\ parada' = [parada EXCEPT !.paso = "fin"]
  /\ UNCHANGED <<disco, viva, meta, mux, hilos, par, borra, gancho, relevo, porRestaurar, creadas,
                 fallos, caidas, bajas, historia>>

\* Mutant: every row is restored.
ListTodas == {s \in Ses : fila[s] # Nada}

\* The rows that Restore asks for.
ListActive == {s \in Ses : fila[s].estado = "active"}

\* The process dies, at any time, and starts again: only the disk is left, and
\* Restore starts the rows in 'active' before the control plane takes requests.
Rearranca ==
  /\ fallos + caidas < MaxPercances /\ caidas' = caidas + 1
  /\ viva' = {} /\ mux' = {} /\ meta' = [s \in Ses |-> Nada]
  /\ escucha' = [s \in Ses |-> "no"] /\ despacho' = [s \in Ses |-> "no"]
  /\ orden' = [s \in Ses |-> "nil"]
  /\ par' = SinPar /\ borra' = [p \in Peticiones |-> Reposo]
  /\ gancho' = [s \in Ses |-> "no"] /\ relevo' = [s \in Ses |-> 0]
  /\ parada' = [paso |-> "no", quedan |-> {}, sola |-> FALSE]
  /\ porRestaurar' = ListActive
  /\ cruzadas' = {}
  /\ UNCHANGED <<disco, creadas, fallos, bajas, limpias, solapada>>

RestoreUna(s) ==
  /\ s \in porRestaurar /\ porRestaurar' = porRestaurar \ {s}
  /\ viva' = viva \cup {s} /\ meta' = [meta EXCEPT ![s] = fila[s]]
  /\ Arma(s)
  /\ UNCHANGED <<disco, par, borra, gancho, relevo, parada, creadas, fallos, caidas, bajas, historia>>

Next ==
  \/ PairEmpieza \/ PairFalla \/ PairGuarda
  \/ \E n \in Numeros : PairRegistra(n)
  \/ PairPersiste \/ PairSeRetira \/ PairArma \/ PairLimpia \/ PairLimpiaFila
  \/ \E p \in Peticiones :
       \/ \E s \in Ses : UnlinkSaca(p, s)
       \/ UnlinkPara(p) \/ UnlinkUne(p) \/ UnlinkExiste(p) \/ UnlinkBorra(p)
       \/ UnlinkBorraFila(p)
  \/ \E s \in Ses :
       \/ EscuchaTermina(s) \/ DespachoTermina(s)
       \/ LoggedOutNube(s) \/ LoggedOutBaja(s) \/ LoggedOutElige(s)
       \/ LoggedOutAsciende(s) \/ LoggedOutMemoria(s)
       \/ StopCancela(s) \/ RestoreUna(s)
  \/ StopToma \/ StopTermina \/ Rearranca

Spec == Init /\ [][Next]_vars

\* A goroutine that was cancelled ends, and the two that stop sessions go on with it.
Justicia ==
  /\ \A s \in Ses : WF_vars(EscuchaTermina(s)) /\ WF_vars(DespachoTermina(s)) /\ WF_vars(StopCancela(s))
  /\ \A p \in Peticiones : WF_vars(UnlinkPara(p))
  /\ WF_vars(StopTermina)

SpecJusta == Spec /\ Justicia

-----------------------------------------------------------------------------
(* Properties *)

\* "Cero huerfanos": what Unlink deleted without an error, from a live session, is gone for
\* good: no row, key, material, entry or goroutine of it is ever seen again, whatever the
\* pairings, the restarts and the hooks of others do.  The history leaves out the two
\* crossings that break it: the pairing of the session itself, not finished when Unlink took
\* it, and its hook, which Unlink does not join.  And no account outlives its last row.
BorradoCompleto ==
  /\ SinHuerfanas
  /\ \A s \in limpias :
       fila[s] = Nada /\ s \notin dek \cup material \cup viva \cup mux /\ ~Corre(s)

\* A session whose row says loggedout is never active again, and no start of the process
\* listens for it: "no re-emparejar automaticamente".
ZombieNoVuelve ==
  [][\A s \in Ses : fila[s].estado = "loggedout" =>
       /\ fila'[s].estado # "active"
       /\ escucha[s] = "no" => escucha'[s] = "no"]_vars

\* While no store fails, no restart brings back rows of an unfinished deletion and no pairing
\* or Unlink overlaps a promotion, a number has at most Cupo devices that count (or the larger
\* number that a start with another Cupo left), at most one of them primary, and the role of
\* one of them in memory is the one in the row unless somebody is changing it.
RolesDelNumero ==
  (fallos = 0 /\ caidas = 0 /\ ~solapada) =>
    /\ \A n \in Numeros :
         /\ Cardinality(Operativos(n)) <= Max({Cupo, Previas})
         /\ Cardinality({s \in Operativos(n) : meta[s].rol = "primary"}) <= 1
    /\ \A s \in viva \ cruzadas :
         (meta[s].estado # "loggedout" /\ ~PairEnVuelo(s) /\ \A t \in Ses : ~(gancho[t] = "asciende" /\ relevo[t] = s))
           => fila[s].rol = meta[s].rol

\* Stop ends, though sessions are closed and deleted meanwhile, if it was called with no pairing
\* in progress and no session had been deleted in the middle of its own.
StopTerminaSinPair ==
  (parada.paso = "avisa" /\ parada.sola) ~> (parada.paso # "avisa")

=============================================================================
