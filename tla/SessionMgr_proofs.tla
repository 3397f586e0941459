-------------------------- MODULE SessionMgr_proofs --------------------------
(***************************************************************************)
(* Theorems about the session manager: the deletion that leaves no orphan, *)
(* the logged-out device that does not come back, the roles of the devices *)
(* of a number.  They hold for any number of sessions, phone numbers and   *)
(* concurrent deletions, and for every crossing of pairings, deletions,    *)
(* hooks and restarts.                                                     *)
(***************************************************************************)
EXTENDS SessionMgr, FiniteSetTheorems, TLAPS

PasosPar  == {"libre", "qr", "guardado", "registrada", "fuera", "persistida", "restos", "fila"}
PasosBaja == {"libre", "para", "une", "existe", "restos", "fila"}
Roles     == {"primary", "standby"}
Hilos     == {"no", "corre", "fin"}
Ganchos   == {"no", "nube", "baja", "elige", "asciende", "hecho"}
Pares == [paso : PasosPar, s : Nat, num : Numeros \cup {SinNum}, rol : Roles, jid : BOOLEAN]
Bajas == [paso : PasosBaja, s : Nat, jid : BOOLEAN, mal : BOOLEAN, eraViva : BOOLEAN]

\* The domains that the arguments below use.
DomFilas == fila \in [Ses -> Filas] /\ meta \in [Ses -> Filas]

DomCreadas ==
  /\ creadas \in 0 .. MaxSes /\ viva \subseteq 1 .. creadas /\ limpias \subseteq 1 .. creadas
  /\ porRestaurar \subseteq 1 .. creadas /\ caidas \in Nat
  /\ \A s \in Ses : fila[s].estado = "active" => s <= creadas

DomPar == par \in Pares /\ par.s <= creadas /\ (par.paso = "libre" <=> par.s = 0)

DomBorra ==
  /\ borra \in [Peticiones -> Bajas]
  /\ \A p \in Peticiones : borra[p].s <= creadas /\ (borra[p].paso = "libre" <=> borra[p].s = 0)

DomHilos ==
  /\ escucha \in [Ses -> Hilos] /\ despacho \in [Ses -> Hilos]
  /\ gancho \in [Ses -> Ganchos] /\ relevo \in [Ses -> Nat]
  /\ \A s \in Ses : gancho[s] \in {"elige", "asciende"} => relevo[s] \in Ses

DominiosSes ==
  DomFilas /\ DomCreadas /\ DomPar /\ DomBorra /\ DomHilos /\ fallos \in Nat

-----------------------------------------------------------------------------
(***************************************************************************)
(* What the steps do to the records of a pairing and of a deletion, field  *)
(* by field.                                                               *)
(***************************************************************************)

\* A pairing, or a deletion, in progress is about a session.
LEMMA ParActiva ==
  ASSUME DomCreadas, DomPar, par.paso # "libre"
  PROVE  par.s \in 1 .. creadas /\ par.s \in Ses
  BY CotasAssumption DEF DomCreadas, DomPar, Pares, Ses

LEMMA BajaActiva ==
  ASSUME DomCreadas, DomBorra, NEW p \in Peticiones, borra[p].paso # "libre"
  PROVE  borra[p].s \in 1 .. creadas /\ borra[p].s \in Ses
  BY CotasAssumption DEF DomCreadas, DomBorra, Bajas, Ses

LEMMA ParEnHace ==
  ASSUME par \in Pares, NEW donde \in PasosPar, ParEn(donde)
  PROVE  /\ par' \in Pares /\ par'.paso = donde /\ par'.s = par.s /\ par'.num = par.num
         /\ par'.rol = par.rol
  BY DEF ParEn, Pares

LEMMA ParSobraHace ==
  ASSUME par \in Pares, ParSobra
  PROVE  /\ par' \in Pares /\ par'.paso = "restos" /\ par'.s = par.s /\ par'.num = par.num
         /\ par'.rol = par.rol
  BY DEF ParSobra, Pares, PasosPar

LEMMA ParRegistradaHace ==
  ASSUME par \in Pares, NEW n \in Numeros, NEW rol \in Roles, ParRegistrada(n, rol)
  PROVE  /\ par' \in Pares /\ par'.paso = "registrada" /\ par'.s = par.s /\ par'.num = n
         /\ par'.rol = rol
  BY DEF ParRegistrada, Pares, PasosPar

LEMMA ParDeEs ==
  ASSUME NEW donde \in PasosPar, NEW s \in Nat
  PROVE  /\ ParDe(donde, s) \in Pares /\ ParDe(donde, s).paso = donde /\ ParDe(donde, s).s = s
  BY DEF ParDe, Pares, Roles

LEMMA UnlinkSacaHace ==
  ASSUME DomBorra, NEW p \in Peticiones, NEW s \in Ses, UnlinkSaca(p, s)
  PROVE  /\ borra' \in [Peticiones -> Bajas] /\ \A q \in Peticiones : q # p => borra'[q] = borra[q]
         /\ borra'[p].s = s /\ ~borra'[p].mal
         /\ IF s \in viva THEN borra'[p].paso = "para" /\ borra'[p].eraViva
                               /\ (borra'[p].jid <=> ConJid(meta[s]))
                          ELSE borra'[p].paso = "existe" /\ ~borra'[p].eraViva
<1>1. s \in Nat
  BY CotasAssumption DEF Ses
<1>2. /\ BajaDe("para", s, ConJid(meta[s]), FALSE, TRUE) \in Bajas
      /\ BajaDe("existe", s, FALSE, FALSE, FALSE) \in Bajas
  BY <1>1, Zenon DEF BajaDe, Bajas, PasosBaja, ConJid
<1>3. borra' \in [Peticiones -> Bajas] /\ \A q \in Peticiones : q # p => borra'[q] = borra[q]
  BY <1>2 DEF UnlinkSaca, DomBorra
<1>4. CASE s \in viva
  <2>1. borra'[p] = BajaDe("para", s, ConJid(meta[s]), FALSE, TRUE)
    BY <1>4 DEF UnlinkSaca, DomBorra
  <2>2. borra'[p].jid = ConJid(meta[s])
    BY <2>1 DEF BajaDe
  <2>3. borra'[p].s = s /\ borra'[p].mal = FALSE /\ borra'[p].paso = "para" /\ borra'[p].eraViva = TRUE
    BY <2>1 DEF BajaDe
  <2> QED
    BY <1>3, <1>4, <2>2, <2>3
<1>5. CASE s \notin viva
  <2>1. borra'[p] = BajaDe("existe", s, FALSE, FALSE, FALSE)
    BY <1>5 DEF UnlinkSaca, DomBorra
  <2> QED
    BY <1>3, <1>5, <2>1 DEF BajaDe
<1> QED
  BY <1>4, <1>5

LEMMA UnlinkParaHace ==
  ASSUME DomBorra, NEW p \in Peticiones, UnlinkPara(p)
  PROVE  /\ borra' \in [Peticiones -> Bajas] /\ \A q \in Peticiones : q # p => borra'[q] = borra[q]
         /\ borra'[p].s = borra[p].s /\ borra'[p].jid = borra[p].jid
         /\ borra'[p].mal = borra[p].mal /\ borra'[p].eraViva = borra[p].eraViva
         /\ borra[p].paso = "para" /\ borra'[p].paso = "une"
<1>1. borra' = [borra EXCEPT ![p].paso = "une"] /\ borra[p].paso = "para"
  BY DEF UnlinkPara
<1> QED
  BY <1>1 DEF DomBorra, Bajas, PasosBaja

LEMMA UnlinkUneHace ==
  ASSUME DomBorra, NEW p \in Peticiones, UnlinkUne(p)
  PROVE  /\ borra' \in [Peticiones -> Bajas] /\ \A q \in Peticiones : q # p => borra'[q] = borra[q]
         /\ borra'[p].s = borra[p].s /\ borra'[p].jid = borra[p].jid
         /\ borra'[p].mal = borra[p].mal /\ borra'[p].eraViva = borra[p].eraViva
         /\ borra[p].paso = "une" /\ borra'[p].paso = "restos"
<1>1. borra' = [borra EXCEPT ![p].paso = "restos"] /\ borra[p].paso = "une"
  BY DEF UnlinkUne
<1> QED
  BY <1>1 DEF DomBorra, Bajas, PasosBaja

LEMMA ReposoEs == /\ Reposo \in Bajas /\ Reposo.paso = "libre" /\ Reposo.s = 0 /\ ~Reposo.eraViva
                  /\ Reposo.jid = FALSE
  BY DEF Reposo, BajaDe, Bajas, PasosBaja

LEMMA UnlinkExisteHace ==
  ASSUME DomBorra, NEW p \in Peticiones, UnlinkExiste(p)
  PROVE  /\ borra' \in [Peticiones -> Bajas] /\ \A q \in Peticiones : q # p => borra'[q] = borra[q]
         /\ ~borra'[p].eraViva
         /\ \/ borra'[p].paso = "restos" /\ borra'[p].s = borra[p].s
            \/ borra'[p] = Reposo
<1>1. BajaDe("restos", borra[p].s, ConJid(fila[borra[p].s]), FALSE, FALSE) \in Bajas
  BY Zenon DEF BajaDe, Bajas, PasosBaja, DomBorra, ConJid
<1>2. \/ borra' = [borra EXCEPT ![p] =
                     BajaDe("restos", borra[p].s, ConJid(fila[borra[p].s]), FALSE, FALSE)]
      \/ borra' = [borra EXCEPT ![p] = Reposo]
  BY DEF UnlinkExiste, Quita
<1>3. borra' \in [Peticiones -> Bajas] /\ \A q \in Peticiones : q # p => borra'[q] = borra[q]
  BY <1>1, <1>2, ReposoEs DEF DomBorra
<1>4. \/ borra'[p] = BajaDe("restos", borra[p].s, ConJid(fila[borra[p].s]), FALSE, FALSE)
      \/ borra'[p] = Reposo
  BY <1>2 DEF DomBorra
<1> QED
  BY <1>3, <1>4, ReposoEs DEF BajaDe

LEMMA UnlinkBorraHace ==
  ASSUME DomBorra, NEW p \in Peticiones, NEW falla,
         borra' = [borra EXCEPT ![p] = BajaDe("fila", @.s, @.jid, falla # {}, @.eraViva)]
  PROVE  /\ borra' \in [Peticiones -> Bajas] /\ \A q \in Peticiones : q # p => borra'[q] = borra[q]
         /\ borra'[p].s = borra[p].s /\ borra'[p].paso = "fila" /\ borra'[p].jid = borra[p].jid
         /\ borra'[p].eraViva = borra[p].eraViva /\ (borra'[p].mal <=> falla # {})
<1>1. BajaDe("fila", borra[p].s, borra[p].jid, falla # {}, borra[p].eraViva) \in Bajas
  <2>1. /\ borra[p].s \in Nat /\ borra[p].jid \in BOOLEAN /\ borra[p].eraViva \in BOOLEAN
    BY DEF DomBorra, Bajas
  <2> QED
    BY <2>1, Zenon DEF BajaDe, Bajas, PasosBaja
<1>2. borra' \in [Peticiones -> Bajas] /\ \A q \in Peticiones : q # p => borra'[q] = borra[q]
  BY <1>1 DEF DomBorra
<1>3. borra'[p] = BajaDe("fila", borra[p].s, borra[p].jid, falla # {}, borra[p].eraViva)
  BY DEF DomBorra
<1> QED
  BY <1>2, <1>3 DEF BajaDe

(***************************************************************************)
(* What they do to the rows and to the entries in memory.                  *)
(***************************************************************************)

LEMMA EnPairingEs == EnPairing \in Filas /\ EnPairing.estado = "pairing" /\ EnPairing # Nada
  BY DEF EnPairing, Filas, Nada

LEMMA NadaEs == Nada \in Filas /\ Nada.estado = "nada"
  BY DEF Filas, Nada

LEMMA FallosEs ==
  ASSUME NEW falla \in SUBSET {"dek", "material"}
  PROVE  Cardinality(falla) \in Nat
<1>1. IsFiniteSet({"dek", "material"})
  <2>1. IsFiniteSet({"dek"}) /\ IsFiniteSet({"dek"} \cup {"material"})
    BY FS_Singleton, FS_AddElement
  <2>2. {"dek"} \cup {"material"} = {"dek", "material"}
    OBVIOUS
  <2> QED
    BY <2>1, <2>2
<1> QED
  BY <1>1, FS_Subset, FS_CardinalityType

LEMMA PairRegistraHace ==
  ASSUME DomPar, DomFilas, NEW n \in Numeros, PairRegistra(n), par.s \in Ses
  PROVE  /\ par' \in Pares /\ par'.s = par.s
         /\ IF SinSitio(n)
            THEN par'.paso = "restos" /\ meta' = meta /\ viva' = viva
            ELSE /\ par'.paso = "registrada" /\ par'.num = n /\ par'.rol = RolNuevo(n)
                 /\ viva' = viva \cup {par.s}
                 /\ meta' \in [Ses -> Filas] /\ \A s \in Ses : s # par.s => meta'[s] = meta[s]
                 /\ meta'[par.s].estado = "active" /\ meta'[par.s].num = n
                 /\ meta'[par.s].rol = RolNuevo(n)
<1>1. RolNuevo(n) \in Roles
  BY DEF RolNuevo, Roles
<1>2. CASE SinSitio(n)
  BY <1>2, ParSobraHace DEF PairRegistra, DomPar, DomFilas
<1>3. CASE ~SinSitio(n)
  <2>1. [estado |-> "active", num |-> n, rol |-> RolNuevo(n)] \in Filas
    BY <1>1 DEF Filas, Roles
  <2>2. meta' = [meta EXCEPT ![par.s] = [estado |-> "active", num |-> n, rol |-> RolNuevo(n)]]
    BY <1>3 DEF PairRegistra
  <2>3. /\ meta' \in [Ses -> Filas] /\ \A s \in Ses : s # par.s => meta'[s] = meta[s]
        /\ meta'[par.s] = [estado |-> "active", num |-> n, rol |-> RolNuevo(n)]
    BY <2>1, <2>2 DEF DomPar, DomFilas
  <2> QED
    BY <1>1, <1>3, <2>3, ParRegistradaHace DEF PairRegistra, DomPar, DomFilas
<1> QED
  BY <1>2, <1>3

LEMMA PairPersisteHace ==
  ASSUME DomPar, DomFilas, PairPersiste, par.s \in Ses
  PROVE  /\ par' \in Pares /\ par'.s = par.s /\ par'.num = par.num /\ par'.rol = par.rol
         /\ fila' \in [Ses -> Filas] /\ \A s \in Ses : s # par.s => fila'[s] = fila[s]
         /\ \/ /\ fallos' = fallos /\ par'.paso = "persistida"
               /\ fila'[par.s].estado = "active" /\ fila'[par.s].num = par.num
               /\ fila'[par.s].rol = par.rol
            \/ fallos' = fallos + 1 /\ par'.paso = "fuera" /\ fila' = fila
<1>1. [estado |-> "active", num |-> par.num, rol |-> par.rol] \in Filas
  BY DEF Filas, DomPar, DomFilas, Pares, Roles
<1>2. CASE /\ Logra /\ ParEn("persistida")
           /\ Upsert(par.s, [estado |-> "active", num |-> par.num, rol |-> par.rol])
  <2>1. /\ fila' \in [Ses -> Filas] /\ \A s \in Ses : s # par.s => fila'[s] = fila[s]
        /\ fila'[par.s] = [estado |-> "active", num |-> par.num, rol |-> par.rol]
    BY <1>1, <1>2 DEF Upsert, DomPar, DomFilas
  <2> QED
    BY <1>2, <2>1, ParEnHace DEF DomPar, DomFilas, PasosPar, Logra
<1>3. CASE Falla /\ ParEn("fuera") /\ UNCHANGED <<fila, cuentas>>
  BY <1>3, ParEnHace DEF DomPar, DomFilas, PasosPar, Falla
<1> QED
  BY <1>2, <1>3 DEF PairPersiste

LEMMA LoggedOutBajaHace ==
  ASSUME DomFilas, NEW s \in Ses, LoggedOutBaja(s)
  PROVE  /\ fila' \in [Ses -> Filas] /\ \A t \in Ses : t # s => fila'[t] = fila[t]
         /\ meta' \in [Ses -> Filas] /\ \A t \in Ses : t # s => meta'[t] = meta[t]
         /\ meta'[s].num = meta[s].num /\ meta'[s].rol = meta[s].rol
         /\ \/ /\ fallos' = fallos /\ meta'[s].estado = "loggedout"
               /\ fila'[s].estado = "loggedout" /\ fila'[s].num = meta[s].num
               /\ fila'[s].rol = meta[s].rol
            \/ fallos' = fallos + 1 /\ fila' = fila /\ meta' = meta
<1> DEFINE f == [estado |-> "loggedout", num |-> meta[s].num, rol |-> meta[s].rol]
<1>1. f \in Filas
  BY DEF Filas, DomFilas
<1>2. CASE Logra /\ Upsert(s, f) /\ meta' = [meta EXCEPT ![s].estado = "loggedout"]
  <2>1. /\ fila' \in [Ses -> Filas] /\ \A t \in Ses : t # s => fila'[t] = fila[t]
        /\ fila'[s] = f
    BY <1>1, <1>2 DEF Upsert, DomFilas
  <2>2. /\ meta' \in [Ses -> Filas] /\ \A t \in Ses : t # s => meta'[t] = meta[t]
        /\ meta'[s].num = meta[s].num /\ meta'[s].rol = meta[s].rol /\ meta'[s].estado = "loggedout"
    BY <1>2 DEF DomFilas, Filas
  <2> QED
    BY <1>2, <2>1, <2>2 DEF Logra
<1>3. CASE Falla /\ UNCHANGED <<fila, cuentas, meta>>
  BY <1>3 DEF DomFilas, Falla
<1> QED
  BY <1>2, <1>3 DEF LoggedOutBaja

LEMMA LoggedOutAsciendeHace ==
  ASSUME DomFilas, DomHilos, NEW s \in Ses, LoggedOutAsciende(s)
  PROVE  /\ relevo[s] \in Ses
         /\ fila' \in [Ses -> Filas] /\ \A t \in Ses : t # relevo[s] => fila'[t] = fila[t]
         /\ fila'[relevo[s]].estado = fila[relevo[s]].estado
         /\ fila'[relevo[s]].num = fila[relevo[s]].num
         /\ fila[relevo[s]] = Nada => fila' = fila
         /\ \/ /\ fallos' = fallos /\ gancho' = [gancho EXCEPT ![s] = "asciende"]
               /\ fila[relevo[s]] # Nada => fila'[relevo[s]].rol = "primary"
            \/ fallos' = fallos + 1 /\ gancho' = [gancho EXCEPT ![s] = "hecho"] /\ fila' = fila
<1>1. relevo[s] \in Ses
  BY DEF DomFilas, DomHilos, LoggedOutAsciende, CambiaGancho
<1>2. CASE /\ fallos' = fallos /\ fila[relevo[s]] # Nada
           /\ fila' = [fila EXCEPT ![relevo[s]].rol = "primary"]
           /\ gancho' = [gancho EXCEPT ![s] = "asciende"]
  <2>1. /\ fila' \in [Ses -> Filas] /\ \A t \in Ses : t # relevo[s] => fila'[t] = fila[t]
        /\ fila'[relevo[s]].estado = fila[relevo[s]].estado
        /\ fila'[relevo[s]].num = fila[relevo[s]].num /\ fila'[relevo[s]].rol = "primary"
    <3>1. PICK k \in Ses : k = relevo[s]
      BY <1>1
    <3>2. fila' = [fila EXCEPT ![k].rol = "primary"] /\ fila \in [Ses -> Filas]
      BY <1>2, <3>1 DEF DomFilas, DomHilos
    <3>3. /\ fila' \in [Ses -> Filas] /\ \A t \in Ses : t # k => fila'[t] = fila[t]
         /\ fila'[k].estado = fila[k].estado /\ fila'[k].num = fila[k].num /\ fila'[k].rol = "primary"
      BY <3>2 DEF Filas
    <3> QED
      BY <3>1, <3>3
  <2> QED
    BY <1>1, <1>2, <2>1
<1>3. CASE /\ fallos' = fallos /\ fila[relevo[s]] = Nada /\ fila' = fila
           /\ gancho' = [gancho EXCEPT ![s] = "asciende"]
  BY <1>1, <1>3 DEF DomFilas, DomHilos
<1>4. CASE fallos' = fallos + 1 /\ gancho' = [gancho EXCEPT ![s] = "hecho"] /\ fila' = fila
  BY <1>1, <1>4 DEF DomFilas, DomHilos
<1> QED
  BY <1>2, <1>3, <1>4 DEF LoggedOutAsciende, CambiaGancho, Logra, Falla

LEMMA LoggedOutMemoriaHace ==
  ASSUME DomFilas, DomHilos, NEW s \in Ses, LoggedOutMemoria(s)
  PROVE  /\ relevo[s] \in Ses
         /\ meta' \in [Ses -> Filas] /\ \A t \in Ses : t # relevo[s] => meta'[t] = meta[t]
         /\ meta'[relevo[s]].estado = meta[relevo[s]].estado
         /\ meta'[relevo[s]].num = meta[relevo[s]].num /\ meta'[relevo[s]].rol = "primary"
<1>1. relevo[s] \in Ses
  BY DEF DomFilas, DomHilos, LoggedOutMemoria, CambiaGancho
<1>2. meta' = [meta EXCEPT ![relevo[s]].rol = "primary"]
  BY DEF LoggedOutMemoria
<1>3. PICK k \in Ses : k = relevo[s]
  BY <1>1
<1>4. meta' = [meta EXCEPT ![k].rol = "primary"] /\ meta \in [Ses -> Filas]
  BY <1>2, <1>3 DEF DomFilas, DomHilos
<1>5. /\ meta' \in [Ses -> Filas] /\ \A t \in Ses : t # k => meta'[t] = meta[t]
     /\ meta'[k].estado = meta[k].estado /\ meta'[k].num = meta[k].num /\ meta'[k].rol = "primary"
  BY <1>4 DEF Filas
<1> QED
  BY <1>3, <1>5

-----------------------------------------------------------------------------
(***************************************************************************)
(* The inductive invariant of the deletion.                                *)
(***************************************************************************)

\* A row without a state is an empty row; one that ever had a phone has its number.
FilasInv ==
  \A s \in Ses :
    /\ fila[s].estado = "nada" => fila[s] = Nada
    /\ fila[s].estado \in {"active", "loggedout"} => fila[s].num \in Numeros

\* A session in memory, or with a thread, knows its number.
NumerosInv ==
  \A s \in Ses : s \in viva \/ escucha[s] # "no" \/ gancho[s] # "no" => meta[s].num \in Numeros

\* Of a session not created yet nothing has happened.
NuevasInv ==
  \A s \in Ses : s > creadas => escucha[s] = "no" /\ gancho[s] = "no" /\ fila[s].estado # "loggedout"

\* Restore works alone: nothing else has touched the rows it has yet to start.
RestauraInv ==
  /\ porRestaurar # {} => par.paso = "libre" /\ \A p \in Peticiones : borra[p].paso = "libre"
  /\ \A s \in porRestaurar :
       fila[s].estado = "active" /\ s \notin viva /\ escucha[s] = "no" /\ gancho[s] = "no"

\* The session of a pairing is nobody else's: no listener, no hook, no row that closed.
ParInv ==
  par.s # 0 =>
       /\ escucha[par.s] = "no" /\ gancho[par.s] = "no" /\ fila[par.s].estado # "loggedout"
       /\ par.paso \in {"qr", "guardado", "restos", "fila"} => par.s \notin viva
       /\ par.paso \in {"registrada", "persistida", "fuera"} =>
            par.num \in Numeros /\ meta[par.s].num = par.num

\* An Unlink that crossed neither the pairing of its session nor its hook.
Sola(p) == borra[p].eraViva /\ borra[p].s \notin cruzadas

\* A session being deleted has left the registry, and nobody puts it back.
BajaInv ==
  \A p \in Peticiones :
    /\ borra[p].paso = "existe" => ~borra[p].eraViva
    /\ borra[p].s # 0 /\ borra[p].s \notin cruzadas => borra[p].s \notin viva /\ par.s # borra[p].s
    /\ borra[p].eraViva => borra[p].jid

\* After the join nothing of it runs; before its row goes, its key and its material have gone.
RestosInv ==
  \A p \in Peticiones : Sola(p) =>
    /\ borra[p].paso \in {"restos", "fila"} =>
         Unida(borra[p].s) /\ borra[p].s \notin mux /\ ~GanchoEnVuelo(borra[p].s)
    /\ borra[p].paso = "fila" /\ ~borra[p].mal => borra[p].s \notin dek \cup material

\* What was deleted stays deleted: nothing is left that could bring it back.
LimpiasInv ==
  \A s \in limpias :
    /\ fila[s] = Nada /\ s \notin dek \cup material \cup viva \cup mux
    /\ Unida(s) /\ ~GanchoEnVuelo(s) /\ par.s # s

BaseInv ==
  DominiosSes /\ FilasInv /\ NumerosInv /\ NuevasInv /\ RestauraInv /\ ParInv
BorradoInv == SinHuerfanas /\ BajaInv /\ RestosInv /\ LimpiasInv

-----------------------------------------------------------------------------
(***************************************************************************)
(* The inductive invariant of the roles.                                   *)
(***************************************************************************)

\* Nothing has failed, no restart has cut a deletion short, no promotion was crossed.
Sereno == fallos = 0 /\ caidas = 0 /\ ~solapada

\* The places taken of a number: by live devices, and by rows still to be restored.
Ocupa(n, s) ==
  \/ s \in viva /\ meta[s].num = n /\ meta[s].estado # "loggedout"
  \/ s \in porRestaurar /\ fila[s].num = n
Ocupan(n) == {s \in Ses : Ocupa(n, s)}

\* Who holds, or is handing over, the place of primary of a number.
EsTitular(n, s) ==
  \/ /\ s \in viva /\ meta[s].num = n /\ meta[s].rol = "primary"
     /\ meta[s].estado # "loggedout" \/ gancho[s] = "baja"
  \/ meta[s].num = n /\ gancho[s] \in {"elige", "asciende"}
  \/ s \in porRestaurar /\ fila[s].num = n /\ fila[s].rol = "primary"

UnTitular == \A n \in Numeros : \A s, t \in Ses : EsTitular(n, s) /\ EsTitular(n, t) => s = t

CupoInv == \A n \in Numeros : Cardinality(Ocupan(n)) <= Max({Cupo, Previas})

\* A device is closed exactly when its hook is past its first statement, and its successor is
\* another one of the same number, neither being paired nor still to be restored.
RelevoInv ==
  \A s \in Ses :
    /\ meta[s].estado = "loggedout" <=> gancho[s] \in {"baja", "elige", "asciende", "hecho"}
    /\ gancho[s] \in {"elige", "asciende"} =>
         /\ relevo[s] \in 1 .. creadas /\ relevo[s] # s /\ meta[relevo[s]].num = meta[s].num
         /\ relevo[s] \notin porRestaurar /\ relevo[s] # par.s

\* Who is being promoted on disk and not yet in memory.
Asciende(s) == \E t \in Ses : gancho[t] = "asciende" /\ relevo[t] = s

\* A device whose row is its own: no pairing, no deletion is writing it.
Firme(s) == s \in viva /\ s \notin cruzadas /\ ~PairEnVuelo(s)

RolFiel(s) ==
  meta[s].estado # "loggedout" =>
    IF Asciende(s) THEN fila[s].rol = "primary" ELSE fila[s].rol = meta[s].rol

FielInv == \A s \in Ses : Firme(s) => fila[s] # Nada /\ RolFiel(s)

\* The pairing writes the row it chose, and nobody changes its role meanwhile.
ParFielInv ==
  /\ par.paso \in {"registrada", "persistida"} => meta[par.s].rol = par.rol
  /\ par.paso = "persistida" /\ par.s \notin cruzadas =>
       fila[par.s] # Nada /\ fila[par.s].rol = par.rol

RolesInv == Sereno => UnTitular /\ CupoInv /\ RelevoInv /\ FielInv /\ ParFielInv

-----------------------------------------------------------------------------
(***************************************************************************)
(* Which steps change what.                                                *)
(***************************************************************************)

TocaFilas ==
  \/ PairEmpieza \/ PairPersiste \/ PairLimpiaFila
  \/ (\E p \in Peticiones : UnlinkBorraFila(p))
  \/ (\E s \in Ses : LoggedOutBaja(s) \/ LoggedOutAsciende(s))
TocaRestos ==
  \/ PairGuarda \/ PairLimpia
  \/ (\E n \in Numeros : PairRegistra(n))
  \/ (\E p \in Peticiones : UnlinkBorra(p))
TocaViva ==
  \/ PairSeRetira \/ Rearranca
  \/ (\E n \in Numeros : PairRegistra(n))
  \/ (\E p \in Peticiones, s \in Ses : UnlinkSaca(p, s))
  \/ (\E s \in Ses : LoggedOutBaja(s) \/ LoggedOutMemoria(s) \/ RestoreUna(s))
TocaMux ==
  \/ PairArma \/ Rearranca
  \/ (\E p \in Peticiones : UnlinkUne(p))
  \/ (\E p \in Peticiones, s \in Ses : UnlinkSaca(p, s))
  \/ (\E s \in Ses : LoggedOutElige(s) \/ RestoreUna(s))
TocaHilos ==
  \/ PairArma \/ Rearranca
  \/ (\E s \in Ses : EscuchaTermina(s) \/ DespachoTermina(s) \/ RestoreUna(s))
TocaPar ==
  \/ PairEmpieza \/ PairFalla \/ PairGuarda \/ PairPersiste \/ PairSeRetira \/ PairArma \/ PairLimpia
  \/ PairLimpiaFila \/ Rearranca
  \/ (\E n \in Numeros : PairRegistra(n))
TocaBorra ==
  \/ Rearranca
  \/ (\E p \in Peticiones :
         UnlinkPara(p) \/ UnlinkUne(p) \/ UnlinkExiste(p) \/ UnlinkBorra(p) \/ UnlinkBorraFila(p))
  \/ (\E p \in Peticiones, s \in Ses : UnlinkSaca(p, s))
TocaGanchos ==
  \/ Rearranca
  \/ (\E s \in Ses : LoggedOutNube(s) \/ LoggedOutBaja(s) \/ LoggedOutElige(s) \/ LoggedOutAsciende(s)
                      \/ LoggedOutMemoria(s))
TocaInicio ==
  \/ PairEmpieza \/ Rearranca
  \/ (\E s \in Ses : RestoreUna(s))
TocaHistoria ==
  \/ Rearranca
  \/ (\E p \in Peticiones : UnlinkUne(p) \/ UnlinkBorraFila(p))
  \/ (\E p \in Peticiones, s \in Ses : UnlinkSaca(p, s))
TocaFallos ==
  \/ PairEmpieza \/ PairPersiste \/ PairLimpia \/ PairLimpiaFila
  \/ (\E p \in Peticiones : UnlinkExiste(p) \/ UnlinkBorra(p) \/ UnlinkBorraFila(p))
  \/ (\E s \in Ses : LoggedOutBaja(s) \/ LoggedOutAsciende(s))
TocaSolapada ==
  \/ (\E n \in Numeros : PairRegistra(n))
  \/ (\E s \in Ses : LoggedOutElige(s))

\* Each piece of state changes in a few steps only.
Marco ==
  /\ TocaFilas \/ UNCHANGED <<fila, cuentas>>
  /\ TocaRestos \/ UNCHANGED <<dek, material>>
  /\ TocaViva \/ UNCHANGED <<viva, meta>>
  /\ TocaMux \/ UNCHANGED <<mux>>
  /\ TocaHilos \/ UNCHANGED <<escucha, despacho>>
  /\ TocaPar \/ UNCHANGED <<par>>
  /\ TocaBorra \/ UNCHANGED <<borra>>
  /\ TocaGanchos \/ UNCHANGED <<gancho, relevo>>
  /\ TocaInicio \/ UNCHANGED <<porRestaurar, creadas, caidas>>
  /\ TocaHistoria \/ UNCHANGED <<cruzadas, limpias>>
  /\ TocaFallos \/ UNCHANGED <<fallos>>
  /\ TocaSolapada \/ UNCHANGED <<solapada>>

LEMMA MarcoVale == [Next]_vars => Marco
<1> SUFFICES ASSUME [Next]_vars PROVE Marco
  OBVIOUS
<1> USE DEF Marco, TocaFilas, TocaRestos, TocaViva, TocaMux, TocaHilos, TocaPar, TocaBorra,
            TocaGanchos, TocaInicio, TocaHistoria, TocaFallos, TocaSolapada
<1>1. CASE PairEmpieza
  BY <1>1 DEF PairEmpieza, Upsert, Logra, Falla, hilos, historia
<1>2. CASE PairFalla
  BY <1>2 DEF PairFalla, disco, hilos, historia
<1>3. CASE PairGuarda
  BY <1>3 DEF PairGuarda, hilos, historia
<1>4. ASSUME NEW n \in Numeros, PairRegistra(n) PROVE Marco
  BY <1>4 DEF PairRegistra, hilos
<1>5. CASE PairPersiste
  BY <1>5 DEF PairPersiste, hilos, historia
<1>6. CASE PairSeRetira
  BY <1>6 DEF PairSeRetira, disco, hilos, historia
<1>7. CASE PairArma
  BY <1>7 DEF PairArma, Arma, SinPar, disco, historia
<1>8. CASE PairLimpia
  BY <1>8 DEF PairLimpia, BorraRestos, hilos, historia
<1>9. CASE PairLimpiaFila
  BY <1>9 DEF PairLimpiaFila, BorraFila, QuitaFila, SinPar, disco, hilos, historia
<1>10. ASSUME NEW p \in Peticiones, NEW s \in Ses, UnlinkSaca(p, s) PROVE Marco
  BY <1>10 DEF UnlinkSaca, disco, hilos
<1>11. ASSUME NEW p \in Peticiones, UnlinkPara(p) PROVE Marco
  BY <1>11 DEF UnlinkPara, disco, historia
<1>12. ASSUME NEW p \in Peticiones, UnlinkUne(p) PROVE Marco
  BY <1>12 DEF UnlinkUne, Quita, disco, hilos
<1>13. ASSUME NEW p \in Peticiones, UnlinkExiste(p) PROVE Marco
  BY <1>13 DEF UnlinkExiste, Quita, disco, hilos, historia
<1>14. ASSUME NEW p \in Peticiones, UnlinkBorra(p) PROVE Marco
  BY <1>14 DEF UnlinkBorra, BorraRestos, Quita, hilos, historia
<1>15. ASSUME NEW p \in Peticiones, UnlinkBorraFila(p) PROVE Marco
  BY <1>15 DEF UnlinkBorraFila, BorraFila, QuitaFila, Quita, Logra, Falla, disco, hilos
<1>16. ASSUME NEW s \in Ses, EscuchaTermina(s) PROVE Marco
  BY <1>16 DEF EscuchaTermina, disco, historia
<1>17. ASSUME NEW s \in Ses, DespachoTermina(s) PROVE Marco
  BY <1>17 DEF DespachoTermina, disco, historia
<1>18. ASSUME NEW s \in Ses, LoggedOutNube(s) PROVE Marco
  BY <1>18 DEF LoggedOutNube, CambiaGancho, disco, hilos, historia
<1>19. ASSUME NEW s \in Ses, LoggedOutBaja(s) PROVE Marco
  BY <1>19 DEF LoggedOutBaja, CambiaGancho, hilos, historia
<1>20. ASSUME NEW s \in Ses, LoggedOutElige(s) PROVE Marco
  BY <1>20 DEF LoggedOutElige, CambiaGancho, disco, hilos
<1>21. ASSUME NEW s \in Ses, LoggedOutAsciende(s) PROVE Marco
  BY <1>21 DEF LoggedOutAsciende, CambiaGancho, hilos, historia
<1>22. ASSUME NEW s \in Ses, LoggedOutMemoria(s) PROVE Marco
  BY <1>22 DEF LoggedOutMemoria, CambiaGancho, disco, hilos, historia
<1>23. CASE StopToma
  BY <1>23 DEF StopToma, disco, hilos, historia
<1>24. ASSUME NEW s \in Ses, StopCancela(s) PROVE Marco
  BY <1>24 DEF StopCancela, disco, historia
<1>25. CASE StopTermina
  BY <1>25 DEF StopTermina, disco, hilos, historia
<1>26. CASE Rearranca
  BY <1>26 DEF Rearranca, ListActive, SinPar, disco
<1>27. ASSUME NEW s \in Ses, RestoreUna(s) PROVE Marco
  BY <1>27 DEF RestoreUna, Arma, disco, historia
<1>28. CASE UNCHANGED vars
  BY <1>28 DEF vars, disco, hilos, historia
<1> QED
  BY <1>1, <1>2, <1>3, <1>4, <1>5, <1>6, <1>7, <1>8, <1>9, <1>10, <1>11, <1>12, <1>13, <1>14,
     <1>15, <1>16, <1>17, <1>18, <1>19, <1>20, <1>21, <1>22, <1>23, <1>24, <1>25, <1>26, <1>27,
     <1>28 DEF Next

LEMMA FilasEnDominio ==
  ASSUME DomFilas, DomCreadas, DomPar, DomHilos, [Next]_vars PROVE DomFilas'
<1> USE CotasAssumption DEF DomFilas, DomCreadas, Ses
<1>1. CASE PairEmpieza
  BY <1>1, ParDeEs, EnPairingEs DEF PairEmpieza, Upsert, Logra, Falla, hilos, historia
<1>2. ASSUME NEW n \in Numeros, PairRegistra(n) PROVE DomFilas'
  <2>1. par.s \in Ses
    BY <1>2, ParActiva DEF PairRegistra
  <2> QED
    BY <1>2, <2>1, PairRegistraHace DEF PairRegistra
<1>3. CASE PairPersiste
  <2>1. par.s \in Ses
    BY <1>3, ParActiva DEF PairPersiste
  <2> QED
    BY <1>3, <2>1, PairPersisteHace DEF PairPersiste
<1>4. CASE PairSeRetira
  BY <1>4, ParSobraHace DEF PairSeRetira, disco, hilos, historia
<1>5. CASE PairLimpiaFila
  BY <1>5, ParDeEs, NadaEs DEF PairLimpiaFila, BorraFila, QuitaFila, SinPar, disco, hilos, historia
<1>6. ASSUME NEW p \in Peticiones, NEW s \in Ses, UnlinkSaca(p, s) PROVE DomFilas'
  BY <1>6, UnlinkSacaHace DEF UnlinkSaca, disco, hilos
<1>7. ASSUME NEW p \in Peticiones, UnlinkBorraFila(p) PROVE DomFilas'
  BY <1>7, ReposoEs, NadaEs
     DEF UnlinkBorraFila, BorraFila, QuitaFila, Quita, Logra, Falla, disco, hilos
<1>8. ASSUME NEW s \in Ses, LoggedOutBaja(s) PROVE DomFilas'
  BY <1>8, LoggedOutBajaHace DEF LoggedOutBaja, CambiaGancho, hilos, historia
<1>9. ASSUME NEW s \in Ses, LoggedOutAsciende(s) PROVE DomFilas'
  BY <1>9, LoggedOutAsciendeHace DEF LoggedOutAsciende, CambiaGancho, hilos, historia
<1>10. ASSUME NEW s \in Ses, LoggedOutMemoria(s) PROVE DomFilas'
  BY <1>10, LoggedOutMemoriaHace DEF LoggedOutMemoria, CambiaGancho, disco, hilos, historia
<1>11. CASE Rearranca
  BY <1>11, ParDeEs, ReposoEs, NadaEs DEF Rearranca, ListActive, SinPar, disco
<1>12. ASSUME NEW s \in Ses, RestoreUna(s) PROVE DomFilas'
  BY <1>12 DEF RestoreUna, Arma, disco, historia
<1>13. CASE UNCHANGED <<fila, cuentas, viva, meta>>
  BY <1>13
<1> QED
  BY <1>1, <1>2, <1>3, <1>4, <1>5, <1>6, <1>7, <1>8, <1>9, <1>10, <1>11, <1>12, <1>13, MarcoVale
     DEF Marco, TocaFilas, TocaViva

LEMMA CreadasEnDominio ==
  ASSUME DomFilas, DomCreadas, DomPar, DomBorra, DomHilos, [Next]_vars PROVE DomCreadas'
<1> USE CotasAssumption DEF DomCreadas, Ses
<1>1. CASE PairEmpieza
  BY <1>1, EnPairingEs DEF PairEmpieza, Upsert, DomFilas, historia
<1>2. ASSUME NEW n \in Numeros, PairRegistra(n) PROVE DomCreadas'
  <2>1. par.s \in 1 .. creadas /\ par.s \in Ses
    BY <1>2, ParActiva DEF PairRegistra
  <2>2. viva' \subseteq viva \cup {par.s}
    BY <1>2, <2>1, PairRegistraHace
  <2> QED
    BY <1>2, <2>1, <2>2 DEF PairRegistra
<1>3. CASE PairPersiste
  <2>1. par.s \in 1 .. creadas /\ par.s \in Ses
    BY <1>3, ParActiva DEF PairPersiste
  <2> QED
    BY <1>3, <2>1, PairPersisteHace DEF PairPersiste, historia
<1>4. CASE PairSeRetira
  BY <1>4, ParSobraHace DEF PairSeRetira, disco, hilos, historia
<1>5. CASE PairLimpiaFila
  <2>1. \A s \in Ses : fila'[s] = fila[s] \/ fila'[s] = Nada
    BY <1>5 DEF PairLimpiaFila, BorraFila, QuitaFila, disco, DomFilas
  <2> QED
    BY <1>5, <2>1, NadaEs DEF PairLimpiaFila, historia
<1>6. ASSUME NEW p \in Peticiones, NEW s \in Ses, UnlinkSaca(p, s) PROVE DomCreadas'
  BY <1>6, UnlinkSacaHace, ZenonT(60) DEF UnlinkSaca, disco, hilos
<1>7. ASSUME NEW p \in Peticiones, UnlinkUne(p) PROVE DomCreadas'
  BY <1>7, UnlinkUneHace DEF UnlinkUne, Quita, disco, hilos
<1>8. ASSUME NEW p \in Peticiones, UnlinkBorraFila(p) PROVE DomCreadas'
  <2>1. \A s \in Ses : fila'[s] = fila[s] \/ fila'[s] = Nada
    BY <1>8 DEF UnlinkBorraFila, BorraFila, QuitaFila, disco, DomFilas
  <2>2. limpias' \subseteq limpias \cup {borra[p].s} /\ borra[p].s \in 1 .. creadas
    BY <1>8, BajaActiva DEF UnlinkBorraFila, Quita
  <2> QED
    BY <1>8, <2>1, <2>2, NadaEs DEF UnlinkBorraFila
<1>9. ASSUME NEW s \in Ses, LoggedOutBaja(s) PROVE DomCreadas'
  BY <1>9, LoggedOutBajaHace DEF LoggedOutBaja, CambiaGancho, hilos, historia
<1>10. ASSUME NEW s \in Ses, LoggedOutAsciende(s) PROVE DomCreadas'
  BY <1>10, LoggedOutAsciendeHace, ZenonT(60) DEF LoggedOutAsciende, CambiaGancho, hilos, historia
<1>11. ASSUME NEW s \in Ses, LoggedOutMemoria(s) PROVE DomCreadas'
  BY <1>11, LoggedOutMemoriaHace DEF LoggedOutMemoria, CambiaGancho, disco, hilos, historia
<1>12. CASE Rearranca
  BY <1>12 DEF Rearranca, ListActive, disco
<1>13. ASSUME NEW s \in Ses, RestoreUna(s) PROVE DomCreadas'
  BY <1>13 DEF RestoreUna, Arma, disco, historia
<1>14. CASE UNCHANGED <<porRestaurar, creadas, caidas, viva, meta, cruzadas, limpias, fila, cuentas>>
  BY <1>14
<1> QED
  BY <1>1, <1>2, <1>3, <1>4, <1>5, <1>6, <1>7, <1>8, <1>9, <1>10, <1>11, <1>12, <1>13, <1>14,
     MarcoVale DEF Marco, TocaInicio, TocaViva, TocaHistoria, TocaFilas

LEMMA ParEnDominio ==
  ASSUME DomFilas, DomCreadas, DomPar, [Next]_vars PROVE DomPar'
<1> USE CotasAssumption DEF DomPar, Ses, PasosPar
<1>1. CASE PairEmpieza
  <2>1. creadas + 1 \in Nat /\ creadas + 1 # 0 /\ creadas' = creadas + 1
    BY <1>1 DEF PairEmpieza, DomCreadas
  <2>2. par' = ParDe("qr", creadas + 1) \/ par' = ParDe("restos", creadas + 1)
    BY <1>1 DEF PairEmpieza
  <2> QED
    BY <2>1, <2>2, ParDeEs
<1>2. CASE PairFalla
  BY <1>2, ParEnHace DEF PairFalla, disco, hilos, historia
<1>3. CASE PairGuarda
  BY <1>3, ParEnHace DEF PairGuarda, hilos, historia
<1>4. ASSUME NEW n \in Numeros, PairRegistra(n) PROVE DomPar'
  <2>1. par.s \in Ses /\ par.s \in 1 .. creadas
    BY <1>4, ParActiva DEF PairRegistra
  <2> QED
    BY <1>4, <2>1, PairRegistraHace DEF PairRegistra
<1>5. CASE PairPersiste
  <2>1. par.s \in Ses /\ par.s \in 1 .. creadas
    BY <1>5, ParActiva DEF PairPersiste
  <2> QED
    BY <1>5, <2>1, PairPersisteHace DEF PairPersiste
<1>6. CASE PairSeRetira
  BY <1>6, ParSobraHace DEF PairSeRetira, disco, hilos, historia
<1>7. CASE PairArma
  <2>1. par' = ParDe("libre", 0) /\ creadas' = creadas
    BY <1>7 DEF PairArma, SinPar
  <2> QED
    BY <2>1, ParDeEs DEF DomCreadas
<1>8. CASE PairLimpia
  BY <1>8, ParEnHace DEF PairLimpia, BorraRestos, hilos, historia
<1>9. CASE PairLimpiaFila
  <2>1. par' = ParDe("libre", 0) /\ creadas' = creadas
    BY <1>9 DEF PairLimpiaFila, SinPar
  <2> QED
    BY <2>1, ParDeEs DEF DomCreadas
<1>10. CASE Rearranca
  <2>1. par' = ParDe("libre", 0) /\ creadas' = creadas
    BY <1>10 DEF Rearranca, SinPar
  <2> QED
    BY <2>1, ParDeEs DEF DomCreadas
<1>11. ASSUME NEW s \in Ses, RestoreUna(s) PROVE DomPar'
  BY <1>11 DEF RestoreUna, Arma, disco, historia
<1>12. CASE UNCHANGED <<par, porRestaurar, creadas, caidas>>
  BY <1>12
<1> QED
  BY <1>1, <1>2, <1>3, <1>4, <1>5, <1>6, <1>7, <1>8, <1>9, <1>10, <1>11, <1>12, MarcoVale
     DEF Marco, TocaPar, TocaInicio

LEMMA BorraEnDominio ==
  ASSUME DomCreadas, DomBorra, [Next]_vars PROVE DomBorra'
<1> USE CotasAssumption DEF DomCreadas, Ses
<1>1. CASE PairEmpieza
  BY <1>1 DEF PairEmpieza, DomBorra, Bajas
<1>2. ASSUME NEW p \in Peticiones, NEW s \in Ses, UnlinkSaca(p, s) PROVE DomBorra'
  <2>1. creadas' = creadas /\ s \in 1 .. creadas
    BY <1>2 DEF UnlinkSaca
  <2> QED
    BY <1>2, <2>1, UnlinkSacaHace DEF DomBorra
<1>3. ASSUME NEW p \in Peticiones, UnlinkPara(p) PROVE DomBorra'
  <2>1. creadas' = creadas
    BY <1>3 DEF UnlinkPara
  <2>2. borra[p].paso # "libre"
    BY <1>3 DEF UnlinkPara
  <2> QED
    BY <1>3, <2>1, <2>2, UnlinkParaHace DEF DomBorra
<1>4. ASSUME NEW p \in Peticiones, UnlinkUne(p) PROVE DomBorra'
  <2>1. creadas' = creadas
    BY <1>4 DEF UnlinkUne
  <2>2. borra[p].paso # "libre"
    BY <1>4 DEF UnlinkUne
  <2> QED
    BY <1>4, <2>1, <2>2, UnlinkUneHace DEF DomBorra
<1>5. ASSUME NEW p \in Peticiones, UnlinkExiste(p) PROVE DomBorra'
  <2>1. creadas' = creadas
    BY <1>5 DEF UnlinkExiste
  <2>2. borra[p].paso # "libre"
    BY <1>5 DEF UnlinkExiste
  <2> QED
    BY <1>5, <2>1, <2>2, UnlinkExisteHace, ReposoEs DEF DomBorra
<1>6. ASSUME NEW p \in Peticiones, UnlinkBorra(p) PROVE DomBorra'
  <2>1. creadas' = creadas
    BY <1>6 DEF UnlinkBorra
  <2>2. borra[p].paso # "libre"
    BY <1>6 DEF UnlinkBorra
  <2>3. PICK falla \in SUBSET {"dek", "material"} :
          borra' = [borra EXCEPT ![p] = BajaDe("fila", @.s, @.jid, falla # {}, @.eraViva)]
    BY <1>6 DEF UnlinkBorra
  <2> QED
    BY <2>1, <2>2, <2>3, UnlinkBorraHace DEF DomBorra
<1>7. ASSUME NEW p \in Peticiones, UnlinkBorraFila(p) PROVE DomBorra'
  BY <1>7, ReposoEs DEF UnlinkBorraFila, DomBorra
<1>8. CASE Rearranca
  BY <1>8, ReposoEs DEF Rearranca, DomBorra
<1>9. ASSUME NEW s \in Ses, RestoreUna(s) PROVE DomBorra'
  BY <1>9 DEF RestoreUna, DomBorra
<1>10. CASE UNCHANGED <<borra, porRestaurar, creadas, caidas>>
  BY <1>10 DEF DomBorra
<1> QED
  BY <1>1, <1>2, <1>3, <1>4, <1>5, <1>6, <1>7, <1>8, <1>9, <1>10, MarcoVale
     DEF Marco, TocaBorra, TocaInicio

LEMMA HilosEnDominio ==
  ASSUME DomCreadas, DomHilos, DomPar, DomFilas, [Next]_vars PROVE DomHilos'
<1> USE CotasAssumption DEF DomHilos, Hilos, Ganchos, Ses
<1>1. CASE PairArma
  BY <1>1, ParDeEs DEF PairArma, Arma, SinPar, disco, historia
<1>2. ASSUME NEW s \in Ses, EscuchaTermina(s) PROVE DomHilos'
  BY <1>2 DEF EscuchaTermina, disco, historia
<1>3. ASSUME NEW s \in Ses, DespachoTermina(s) PROVE DomHilos'
  BY <1>3 DEF DespachoTermina, disco, historia
<1>4. ASSUME NEW s \in Ses, LoggedOutNube(s) PROVE DomHilos'
  BY <1>4 DEF LoggedOutNube, CambiaGancho, disco, hilos, historia
<1>5. ASSUME NEW s \in Ses, LoggedOutBaja(s) PROVE DomHilos'
  BY <1>5, LoggedOutBajaHace DEF LoggedOutBaja, CambiaGancho, hilos, historia
<1>6. ASSUME NEW s \in Ses, LoggedOutElige(s) PROVE DomHilos'
  BY <1>6, SMTT(30) DEF LoggedOutElige, CambiaGancho, hilos, Candidatos, Operativos, DomCreadas
<1>7. ASSUME NEW s \in Ses, LoggedOutAsciende(s) PROVE DomHilos'
  BY <1>7, LoggedOutAsciendeHace, ZenonT(60) DEF LoggedOutAsciende, CambiaGancho, hilos, historia
<1>8. ASSUME NEW s \in Ses, LoggedOutMemoria(s) PROVE DomHilos'
  BY <1>8, LoggedOutMemoriaHace DEF LoggedOutMemoria, CambiaGancho, disco, hilos, historia
<1>9. CASE Rearranca
  BY <1>9, ParDeEs, ReposoEs, NadaEs DEF Rearranca, ListActive, SinPar, disco
<1>10. ASSUME NEW s \in Ses, RestoreUna(s) PROVE DomHilos'
  BY <1>10 DEF RestoreUna, Arma, disco, historia
<1>11. CASE UNCHANGED <<escucha, despacho, gancho, relevo>>
  BY <1>11
<1> QED
  BY <1>1, <1>2, <1>3, <1>4, <1>5, <1>6, <1>7, <1>8, <1>9, <1>10, <1>11, MarcoVale
     DEF Marco, TocaHilos, TocaGanchos

LEMMA FallosEnDominio ==
  ASSUME fallos \in Nat, [Next]_vars PROVE fallos' \in Nat
<1>1. CASE PairEmpieza
  BY <1>1 DEF PairEmpieza, Logra, Falla
<1>2. CASE PairPersiste
  BY <1>2 DEF PairPersiste, Logra, Falla
<1>3. CASE PairLimpia
  BY <1>3, FallosEs DEF PairLimpia, BorraRestos
<1>4. CASE PairLimpiaFila
  BY <1>4 DEF PairLimpiaFila, BorraFila, Logra, Falla
<1>5. ASSUME NEW p \in Peticiones, UnlinkExiste(p) PROVE fallos' \in Nat
  <2>1. fallos' = fallos \/ fallos' = fallos + 1
    BY <1>5, Zenon DEF UnlinkExiste, Logra, Falla
  <2> QED
    BY <2>1
<1>6. ASSUME NEW p \in Peticiones, UnlinkBorra(p) PROVE fallos' \in Nat
  BY <1>6, FallosEs DEF UnlinkBorra, BorraRestos
<1>7. ASSUME NEW p \in Peticiones, UnlinkBorraFila(p) PROVE fallos' \in Nat
  BY <1>7 DEF UnlinkBorraFila, BorraFila, Logra, Falla
<1>8. ASSUME NEW s \in Ses, LoggedOutBaja(s) PROVE fallos' \in Nat
  BY <1>8 DEF LoggedOutBaja, Logra, Falla
<1>9. ASSUME NEW s \in Ses, LoggedOutAsciende(s) PROVE fallos' \in Nat
  BY <1>9 DEF LoggedOutAsciende, Logra, Falla
<1>10. CASE UNCHANGED <<fallos>>
  BY <1>10
<1> QED
  BY <1>1, <1>2, <1>3, <1>4, <1>5, <1>6, <1>7, <1>8, <1>9, <1>10, MarcoVale DEF Marco, TocaFallos

LEMMA DominiosSeConservan == DominiosSes /\ [Next]_vars => DominiosSes'
  BY FilasEnDominio, CreadasEnDominio, ParEnDominio, BorraEnDominio, HilosEnDominio, FallosEnDominio
     DEF DominiosSes

LEMMA FilasInvSeConserva ==
  ASSUME BaseInv, [Next]_vars PROVE FilasInv'
<1> USE CotasAssumption DEF BaseInv, FilasInv, DominiosSes, DomFilas, DomCreadas, DomHilos, Ses
<1>1. CASE PairEmpieza
  BY <1>1, ParDeEs, EnPairingEs DEF PairEmpieza, Upsert, Logra, Falla, hilos, historia
<1>2. CASE PairPersiste
  <2>1. par.s \in Ses /\ par.s \in 1 .. creadas
    BY <1>2, ParActiva DEF PairPersiste, DominiosSes
  <2>2. /\ \A t \in Ses : t # par.s => fila'[t] = fila[t]
        /\ \/ fila'[par.s] = fila[par.s]
           \/ fila'[par.s].estado = "active" /\ fila'[par.s].num = par.num
    BY <1>2, <2>1, PairPersisteHace
  <2>3. par.num \in Numeros
    BY <1>2, <2>1 DEF PairPersiste, ParInv
  <2> QED
    BY <2>1, <2>2, <2>3
<1>3. CASE PairLimpiaFila
  <2>1. \A s \in Ses : fila'[s] = fila[s] \/ fila'[s] = Nada
    BY <1>3 DEF PairLimpiaFila, BorraFila, QuitaFila, disco, DominiosSes, DomFilas
  <2> QED
    BY <1>3, <2>1, NadaEs DEF PairLimpiaFila
<1>4. ASSUME NEW p \in Peticiones, UnlinkBorraFila(p) PROVE FilasInv'
  <2>1. \A s \in Ses : fila'[s] = fila[s] \/ fila'[s] = Nada
    BY <1>4 DEF UnlinkBorraFila, BorraFila, QuitaFila, disco, DominiosSes, DomFilas
  <2> QED
    BY <1>4, <2>1, NadaEs DEF UnlinkBorraFila
<1>5. ASSUME NEW s \in Ses, LoggedOutBaja(s) PROVE FilasInv'
  <2>1. meta[s].num \in Numeros
    BY <1>5 DEF LoggedOutBaja, CambiaGancho, NumerosInv
  <2> QED
    BY <1>5, <2>1, LoggedOutBajaHace
<1>6. ASSUME NEW s \in Ses, LoggedOutAsciende(s) PROVE FilasInv'
  <2>1. \A t \in Ses : fila'[t].estado = fila[t].estado /\ fila'[t].num = fila[t].num
    BY <1>6, LoggedOutAsciendeHace
  <2>2. \A t \in Ses : fila[t] = Nada => fila'[t] = Nada
    BY <1>6, LoggedOutAsciendeHace
  <2> QED
    BY <2>1, <2>2
<1>7. CASE UNCHANGED <<fila, cuentas>>
  BY <1>7
<1> QED
  BY <1>1, <1>2, <1>3, <1>4, <1>5, <1>6, <1>7, MarcoVale DEF Marco, TocaFilas

LEMMA NumerosInvSeConserva ==
  ASSUME BaseInv, [Next]_vars PROVE NumerosInv'
<1> USE CotasAssumption DEF BaseInv, NumerosInv, DominiosSes, DomFilas, DomCreadas, DomHilos, Ses
<1>1. ASSUME NEW n \in Numeros, PairRegistra(n) PROVE NumerosInv'
  <2>1. par.s \in Ses /\ par.s \in 1 .. creadas
    BY <1>1, ParActiva DEF PairRegistra, DominiosSes
  <2> QED
    BY <1>1, <2>1, PairRegistraHace, SMTT(30) DEF PairRegistra, DominiosSes, hilos
<1>2. CASE PairSeRetira
  BY <1>2 DEF PairSeRetira, hilos
<1>3. CASE PairArma
  <2>1. par.s \in Ses /\ par.num \in Numeros /\ meta[par.s].num = par.num
    BY <1>3, ParActiva DEF PairArma, ParInv
  <2> QED
    BY <1>3, <2>1 DEF PairArma, Arma
<1>4. ASSUME NEW p \in Peticiones, NEW s \in Ses, UnlinkSaca(p, s) PROVE NumerosInv'
  BY <1>4 DEF UnlinkSaca, hilos
<1>5. ASSUME NEW s \in Ses, EscuchaTermina(s) PROVE NumerosInv'
  BY <1>5 DEF EscuchaTermina, disco, historia
<1>6. ASSUME NEW s \in Ses, DespachoTermina(s) PROVE NumerosInv'
  BY <1>6 DEF DespachoTermina, disco, historia
<1>7. ASSUME NEW s \in Ses, LoggedOutNube(s) PROVE NumerosInv'
  BY <1>7 DEF LoggedOutNube, CambiaGancho, disco, hilos, historia
<1>8. ASSUME NEW s \in Ses, LoggedOutBaja(s) PROVE NumerosInv'
  BY <1>8, LoggedOutBajaHace DEF LoggedOutBaja, CambiaGancho, hilos
<1>9. ASSUME NEW s \in Ses, LoggedOutElige(s) PROVE NumerosInv'
  BY <1>9 DEF LoggedOutElige, CambiaGancho, disco, hilos
<1>10. ASSUME NEW s \in Ses, LoggedOutAsciende(s) PROVE NumerosInv'
  BY <1>10 DEF LoggedOutAsciende, CambiaGancho, hilos
<1>11. ASSUME NEW s \in Ses, LoggedOutMemoria(s) PROVE NumerosInv'
  BY <1>11, LoggedOutMemoriaHace DEF LoggedOutMemoria, CambiaGancho, hilos
<1>12. CASE Rearranca
  BY <1>12 DEF Rearranca
<1>13. ASSUME NEW s \in Ses, RestoreUna(s) PROVE NumerosInv'
  BY <1>13 DEF RestoreUna, Arma, RestauraInv, FilasInv
<1>14. CASE UNCHANGED <<viva, meta, escucha, despacho, gancho, relevo>>
  BY <1>14
<1> QED
  BY <1>1, <1>2, <1>3, <1>4, <1>5, <1>6, <1>7, <1>8, <1>9, <1>10, <1>11, <1>12, <1>13, <1>14,
     MarcoVale DEF Marco, TocaViva, TocaHilos, TocaGanchos

LEMMA NuevasInvSeConserva ==
  ASSUME BaseInv, [Next]_vars PROVE NuevasInv'
<1> USE CotasAssumption DEF BaseInv, NuevasInv, DominiosSes, DomFilas, DomCreadas, DomHilos, Ses
<1>1. CASE PairEmpieza
  BY <1>1, EnPairingEs DEF PairEmpieza, Upsert, hilos
<1>2. CASE PairPersiste
  <2>1. par.s \in Ses /\ par.s \in 1 .. creadas
    BY <1>2, ParActiva DEF PairPersiste, DominiosSes
  <2> QED
    BY <1>2, <2>1, PairPersisteHace DEF PairPersiste, DominiosSes, hilos
<1>3. CASE PairArma
  <2>1. par.s \in Ses /\ par.s \in 1 .. creadas
    BY <1>3, ParActiva DEF PairArma
  <2> QED
    BY <1>3, <2>1 DEF PairArma, Arma, disco
<1>4. CASE PairLimpiaFila
  <2>1. \A s \in Ses : fila'[s] = fila[s] \/ fila'[s] = Nada
    BY <1>4 DEF PairLimpiaFila, BorraFila, QuitaFila, disco, DominiosSes, DomFilas
  <2> QED
    BY <1>4, <2>1, NadaEs DEF PairLimpiaFila, hilos
<1>5. ASSUME NEW p \in Peticiones, UnlinkBorraFila(p) PROVE NuevasInv'
  <2>1. \A s \in Ses : fila'[s] = fila[s] \/ fila'[s] = Nada
    BY <1>5 DEF UnlinkBorraFila, BorraFila, QuitaFila, disco, DominiosSes, DomFilas
  <2> QED
    BY <1>5, <2>1, NadaEs DEF UnlinkBorraFila, hilos
<1>6. ASSUME NEW s \in Ses, EscuchaTermina(s) PROVE NuevasInv'
  BY <1>6 DEF EscuchaTermina, disco, historia
<1>7. ASSUME NEW s \in Ses, DespachoTermina(s) PROVE NuevasInv'
  BY <1>7 DEF DespachoTermina, disco, historia
<1>8. ASSUME NEW s \in Ses, LoggedOutNube(s) PROVE NuevasInv'
  BY <1>8 DEF LoggedOutNube, CambiaGancho, disco, hilos, historia
<1>9. ASSUME NEW s \in Ses, LoggedOutBaja(s) PROVE NuevasInv'
  BY <1>9, LoggedOutBajaHace, ZenonT(60) DEF LoggedOutBaja, CambiaGancho, hilos, historia
<1>10. ASSUME NEW s \in Ses, LoggedOutElige(s) PROVE NuevasInv'
  BY <1>10 DEF LoggedOutElige, CambiaGancho, disco, hilos
<1>11. ASSUME NEW s \in Ses, LoggedOutAsciende(s) PROVE NuevasInv'
  <2>1. \A t \in Ses : fila'[t].estado = fila[t].estado
    BY <1>11, LoggedOutAsciendeHace
  <2> QED
    BY <1>11, <2>1 DEF LoggedOutAsciende, CambiaGancho, hilos
<1>12. ASSUME NEW s \in Ses, LoggedOutMemoria(s) PROVE NuevasInv'
  BY <1>12, LoggedOutMemoriaHace DEF LoggedOutMemoria, CambiaGancho, disco, hilos, historia
<1>13. CASE Rearranca
  BY <1>13 DEF Rearranca, disco
<1>14. ASSUME NEW s \in Ses, RestoreUna(s) PROVE NuevasInv'
  BY <1>14 DEF RestoreUna, Arma, disco
<1>15. CASE UNCHANGED <<fila, cuentas, escucha, despacho, gancho, relevo, porRestaurar, creadas, caidas>>
  BY <1>15
<1> QED
  BY <1>1, <1>2, <1>3, <1>4, <1>5, <1>6, <1>7, <1>8, <1>9, <1>10, <1>11, <1>12, <1>13, <1>14,
     <1>15, MarcoVale DEF Marco, TocaFilas, TocaHilos, TocaGanchos, TocaInicio

LEMMA RestauraInvSeConserva ==
  ASSUME BaseInv, [Next]_vars PROVE RestauraInv'
<1> USE CotasAssumption DEF BaseInv, RestauraInv, DominiosSes, DomFilas, DomCreadas, DomHilos, Ses
<1>1. CASE PairEmpieza
  BY <1>1, ParDeEs, EnPairingEs DEF PairEmpieza, Upsert, Logra, Falla, hilos, historia
<1>2. CASE PairFalla
  BY <1>2, ParEnHace DEF PairFalla, disco, hilos, historia
<1>3. CASE PairGuarda
  BY <1>3, ParEnHace DEF PairGuarda, hilos, historia
<1>4. ASSUME NEW n \in Numeros, PairRegistra(n) PROVE RestauraInv'
  BY <1>4, ParActiva, PairRegistraHace DEF PairRegistra, hilos
<1>5. CASE PairPersiste
  BY <1>5, ParActiva, PairPersisteHace DEF PairPersiste, hilos, historia
<1>6. CASE PairSeRetira
  BY <1>6, ParSobraHace DEF PairSeRetira, disco, hilos, historia
<1>7. CASE PairArma
  BY <1>7, ParDeEs DEF PairArma, Arma, SinPar, disco, historia
<1>8. CASE PairLimpia
  BY <1>8, ParEnHace DEF PairLimpia, BorraRestos, hilos, historia
<1>9. CASE PairLimpiaFila
  BY <1>9, ParDeEs, NadaEs DEF PairLimpiaFila, BorraFila, QuitaFila, SinPar, disco, hilos, historia
<1>10. ASSUME NEW p \in Peticiones, NEW s \in Ses, UnlinkSaca(p, s) PROVE RestauraInv'
  BY <1>10, UnlinkSacaHace DEF UnlinkSaca, disco, hilos
<1>11. ASSUME NEW p \in Peticiones, UnlinkPara(p) PROVE RestauraInv'
  BY <1>11, UnlinkParaHace DEF UnlinkPara, disco, historia
<1>12. ASSUME NEW p \in Peticiones, UnlinkUne(p) PROVE RestauraInv'
  BY <1>12, UnlinkUneHace DEF UnlinkUne, Quita, disco, hilos
<1>13. ASSUME NEW p \in Peticiones, UnlinkExiste(p) PROVE RestauraInv'
  BY <1>13, UnlinkExisteHace, ReposoEs DEF UnlinkExiste, Quita, disco, hilos, historia
<1>14. ASSUME NEW p \in Peticiones, UnlinkBorra(p) PROVE RestauraInv'
  BY <1>14, UnlinkBorraHace DEF UnlinkBorra, BorraRestos, Quita, hilos, historia
<1>15. ASSUME NEW p \in Peticiones, UnlinkBorraFila(p) PROVE RestauraInv'
  BY <1>15, ReposoEs, NadaEs
     DEF UnlinkBorraFila, BorraFila, QuitaFila, Quita, Logra, Falla, disco, hilos
<1>16. ASSUME NEW s \in Ses, EscuchaTermina(s) PROVE RestauraInv'
  BY <1>16 DEF EscuchaTermina, disco, historia
<1>17. ASSUME NEW s \in Ses, DespachoTermina(s) PROVE RestauraInv'
  BY <1>17 DEF DespachoTermina, disco, historia
<1>18. ASSUME NEW s \in Ses, LoggedOutNube(s) PROVE RestauraInv'
  BY <1>18 DEF LoggedOutNube, CambiaGancho, disco, hilos, historia
<1>19. ASSUME NEW s \in Ses, LoggedOutBaja(s) PROVE RestauraInv'
  <2>1. gancho[s] # "no"
    BY <1>19 DEF LoggedOutBaja, CambiaGancho
  <2>2. \A t \in Ses : gancho[t] = "no" => gancho'[t] = "no"
    BY <1>19, <2>1 DEF LoggedOutBaja, CambiaGancho
  <2>3. s \notin porRestaurar
    BY <2>1
  <2>4. UNCHANGED <<porRestaurar, par, borra, viva, escucha>>
    BY <1>19 DEF LoggedOutBaja, hilos
  <2>5. \A t \in porRestaurar : fila'[t] = fila[t]
    BY <1>19, <2>3, LoggedOutBajaHace
  <2>6. \A t \in porRestaurar :
          /\ fila'[t].estado = "active" /\ t \notin viva' /\ escucha'[t] = "no" /\ gancho'[t] = "no"
    BY <2>2, <2>4, <2>5
  <2> QED
    BY <2>4, <2>6
<1>20. ASSUME NEW s \in Ses, LoggedOutElige(s) PROVE RestauraInv'
  <2>1. \A t \in Ses : gancho[t] = "no" => gancho'[t] = "no"
    BY <1>20 DEF LoggedOutElige, CambiaGancho
  <2> QED
    BY <1>20, <2>1 DEF LoggedOutElige, hilos, disco
<1>21. ASSUME NEW s \in Ses, LoggedOutAsciende(s) PROVE RestauraInv'
  <2>1. \A t \in Ses : fila'[t].estado = fila[t].estado
    BY <1>21, LoggedOutAsciendeHace
  <2>2. \A t \in Ses : gancho[t] = "no" => gancho'[t] = "no"
    BY <1>21 DEF LoggedOutAsciende, CambiaGancho
  <2> QED
    BY <1>21, <2>1, <2>2, SMTT(30) DEF LoggedOutAsciende, hilos
<1>22. ASSUME NEW s \in Ses, LoggedOutMemoria(s) PROVE RestauraInv'
  BY <1>22, LoggedOutMemoriaHace, SMTT(30) DEF LoggedOutMemoria, CambiaGancho, disco, hilos, historia
<1>23. CASE Rearranca
  <2>1. par'.paso = "libre" /\ \A p \in Peticiones : borra'[p].paso = "libre"
    BY <1>23, ParDeEs, ReposoEs DEF Rearranca, SinPar, PasosPar
  <2>2. porRestaurar' = {s \in Ses : fila[s].estado = "active"} /\ viva' = {} /\ fila' = fila
        /\ escucha' = [s \in Ses |-> "no"] /\ gancho' = [s \in Ses |-> "no"]
    BY <1>23 DEF Rearranca, ListActive, disco
  <2> QED
    BY <2>1, <2>2
<1>24. ASSUME NEW s \in Ses, RestoreUna(s) PROVE RestauraInv'
  <2>1. /\ porRestaurar' = porRestaurar \ {s} /\ viva' = viva \cup {s}
        /\ \A t \in Ses : t # s => escucha'[t] = escucha[t]
    BY <1>24 DEF RestoreUna, Arma
  <2>2. UNCHANGED <<fila, gancho, par, borra>>
    BY <1>24 DEF RestoreUna, disco
  <2> QED
    BY <2>1, <2>2
<1>25. CASE UNCHANGED <<porRestaurar, creadas, caidas, par, borra, fila, cuentas, viva, meta,
                        escucha, despacho, gancho, relevo>>
  BY <1>25
<1> QED
  BY <1>1, <1>2, <1>3, <1>4, <1>5, <1>6, <1>7, <1>8, <1>9, <1>10, <1>11, <1>12, <1>13, <1>14,
     <1>15, <1>16, <1>17, <1>18, <1>19, <1>20, <1>21, <1>22, <1>23, <1>24, <1>25, MarcoVale
     DEF Marco, TocaInicio, TocaPar, TocaBorra, TocaFilas, TocaViva, TocaHilos, TocaGanchos

LEMMA ParInvSeConserva ==
  ASSUME BaseInv, [Next]_vars PROVE ParInv'
<1> USE CotasAssumption DEF BaseInv, ParInv, DominiosSes, DomFilas, DomCreadas, DomHilos, Ses
<1>1. CASE PairEmpieza
  <2>1. creadas + 1 \in Ses /\ creadas + 1 \in Nat
    BY <1>1, CotasAssumption DEF PairEmpieza
  <2>2. par'.s = creadas + 1 /\ par'.paso \in {"qr", "restos"}
    BY <1>1, <2>1, ParDeEs DEF PairEmpieza, PasosPar
  <2>3. fila'[creadas + 1].estado # "loggedout"
    BY <1>1, <2>1, EnPairingEs DEF PairEmpieza, Upsert, NuevasInv
  <2> QED
    BY <1>1, <2>1, <2>2, <2>3 DEF PairEmpieza, hilos, NuevasInv
<1>2. CASE PairFalla
  <2>1. /\ par'.s = par.s /\ par.s # 0 /\ par'.num = par.num
        /\ par'.paso = "restos" /\ par.paso \in {"qr", "guardado"}
    BY <1>2, ParEnHace DEF PairFalla, DominiosSes, DomPar, PasosPar
  <2>2. par.s \in Ses
    BY <1>2, ParActiva DEF PairFalla
  <2> QED
    BY <1>2, <2>1, <2>2 DEF PairFalla, hilos, disco
<1>3. CASE PairGuarda
  <2>1. /\ par'.s = par.s /\ par.s # 0 /\ par'.num = par.num
        /\ par'.paso = "guardado" /\ par.paso \in {"qr"}
    BY <1>3, ParEnHace DEF PairGuarda, DominiosSes, DomPar, PasosPar
  <2>2. par.s \in Ses
    BY <1>3, ParActiva DEF PairGuarda
  <2> QED
    BY <1>3, <2>1, <2>2 DEF PairGuarda, hilos, disco
<1>4. ASSUME NEW n \in Numeros, PairRegistra(n) PROVE ParInv'
  <2>1. par.s \in Ses /\ par.s # 0 /\ par.s \notin viva
    BY <1>4, ParActiva DEF PairRegistra
  <2> QED
    BY <1>4, <2>1, PairRegistraHace DEF PairRegistra, hilos
<1>5. CASE PairPersiste
  <2>1. par.s \in Ses /\ par.s # 0
    BY <1>5, ParActiva DEF PairPersiste
  <2> QED
    BY <1>5, <2>1, PairPersisteHace DEF PairPersiste, hilos
<1>6. CASE PairSeRetira
  <2>1. /\ par'.s = par.s /\ par.s # 0 /\ par'.num = par.num
        /\ par'.paso = "restos" /\ par.paso \in {"fuera"}
    BY <1>6, ParSobraHace DEF PairSeRetira, DominiosSes, DomPar, PasosPar
  <2>2. par.s \in Ses
    BY <1>6, ParActiva DEF PairSeRetira
  <2> QED
    BY <1>6, <2>1, <2>2 DEF PairSeRetira, hilos, disco
<1>7. CASE PairArma
  <2>1. par'.s = 0
    BY <1>7, ParDeEs DEF PairArma, SinPar, PasosPar
  <2> QED
    BY <2>1
<1>8. CASE PairLimpia
  <2>1. /\ par'.s = par.s /\ par.s # 0 /\ par'.num = par.num
        /\ par'.paso = "fila" /\ par.paso \in {"restos"}
    BY <1>8, ParEnHace DEF PairLimpia, DominiosSes, DomPar, PasosPar
  <2>2. par.s \in Ses
    BY <1>8, ParActiva DEF PairLimpia
  <2> QED
    BY <1>8, <2>1, <2>2 DEF PairLimpia, hilos, disco, BorraRestos
<1>9. CASE PairLimpiaFila
  <2>1. par'.s = 0
    BY <1>9, ParDeEs DEF PairLimpiaFila, SinPar, PasosPar
  <2> QED
    BY <2>1
<1>10. ASSUME NEW p \in Peticiones, NEW s \in Ses, UnlinkSaca(p, s) PROVE ParInv'
  BY <1>10, UnlinkSacaHace, ZenonT(60) DEF UnlinkSaca, disco, hilos
<1>11. ASSUME NEW p \in Peticiones, UnlinkBorraFila(p) PROVE ParInv'
  <2>1. \A t \in Ses : fila'[t] = fila[t] \/ fila'[t] = Nada
    BY <1>11 DEF UnlinkBorraFila, BorraFila, QuitaFila, disco
  <2>2. par.s # 0 => par.s \in Ses
    BY ParActiva DEF DomPar
  <2> QED
    BY <1>11, <2>1, <2>2, NadaEs DEF UnlinkBorraFila, hilos
<1>12. ASSUME NEW s \in Ses, EscuchaTermina(s) PROVE ParInv'
  BY <1>12 DEF EscuchaTermina, disco, historia
<1>13. ASSUME NEW s \in Ses, DespachoTermina(s) PROVE ParInv'
  BY <1>13 DEF DespachoTermina, disco, historia
<1>14. ASSUME NEW s \in Ses, LoggedOutNube(s) PROVE ParInv'
  BY <1>14 DEF LoggedOutNube, CambiaGancho, disco, hilos, historia
<1>15. ASSUME NEW s \in Ses, LoggedOutBaja(s) PROVE ParInv'
  <2>1. gancho[s] # "no"
    BY <1>15 DEF LoggedOutBaja, CambiaGancho
  <2>2. \A t \in Ses : gancho[t] = "no" => gancho'[t] = "no"
    BY <1>15, <2>1 DEF LoggedOutBaja, CambiaGancho
  <2>3. par.s # 0 => par.s \in Ses /\ par.s # s
    BY <2>1, ParActiva DEF DomPar
  <2> QED
    BY <1>15, <2>2, <2>3, LoggedOutBajaHace DEF LoggedOutBaja, hilos
<1>16. ASSUME NEW s \in Ses, LoggedOutElige(s) PROVE ParInv'
  <2>1. \A t \in Ses : gancho[t] = "no" => gancho'[t] = "no"
    BY <1>16 DEF LoggedOutElige, CambiaGancho
  <2>2. par.s # 0 => par.s \in Ses
    BY ParActiva DEF DomPar
  <2> QED
    BY <1>16, <2>1, <2>2 DEF LoggedOutElige, hilos, disco
<1>17. ASSUME NEW s \in Ses, LoggedOutAsciende(s) PROVE ParInv'
  <2>1. \A t \in Ses : fila'[t].estado = fila[t].estado
    BY <1>17, LoggedOutAsciendeHace
  <2>2. \A t \in Ses : gancho[t] = "no" => gancho'[t] = "no"
    BY <1>17 DEF LoggedOutAsciende, CambiaGancho
  <2>3. par.s # 0 => par.s \in Ses
    BY ParActiva DEF DomPar
  <2> QED
    BY <1>17, <2>1, <2>2, <2>3 DEF LoggedOutAsciende, hilos
<1>18. ASSUME NEW s \in Ses, LoggedOutMemoria(s) PROVE ParInv'
  BY <1>18, LoggedOutMemoriaHace DEF LoggedOutMemoria, CambiaGancho, disco, hilos, historia
<1>19. CASE Rearranca
  <2>1. par'.s = 0
    BY <1>19, ParDeEs DEF Rearranca, SinPar, PasosPar
  <2> QED
    BY <2>1
<1>20. ASSUME NEW s \in Ses, RestoreUna(s) PROVE ParInv'
  <2>1. par.s = 0 /\ par' = par
    BY <1>20 DEF RestoreUna, RestauraInv, DomPar
  <2> QED
    BY <2>1
<1>21. CASE UNCHANGED <<par, fila, cuentas, viva, meta, escucha, despacho, gancho, relevo>>
  BY <1>21
<1> QED
  BY <1>1, <1>2, <1>3, <1>4, <1>5, <1>6, <1>7, <1>8, <1>9, <1>10, <1>11, <1>12, <1>13, <1>14,
     <1>15, <1>16, <1>17, <1>18, <1>19, <1>20, <1>21, MarcoVale
     DEF Marco, TocaPar, TocaFilas, TocaViva, TocaHilos, TocaGanchos

LEMMA BaseSeConserva == BaseInv /\ [Next]_vars => BaseInv'
  BY DominiosSeConservan, FilasInvSeConserva, NumerosInvSeConserva, NuevasInvSeConserva,
     RestauraInvSeConserva, ParInvSeConserva DEF BaseInv

-----------------------------------------------------------------------------
(***************************************************************************)
(* The deletion.                                                           *)
(***************************************************************************)

LEMMA UpsertSinHuerfanas ==
  ASSUME SinHuerfanas, DomFilas, NEW s \in Ses, NEW f \in Filas, f # Nada, Upsert(s, f)
  PROVE  SinHuerfanas'
<1>1. fila'[s] = f /\ \A t \in Ses : t # s => fila'[t] = fila[t]
  BY DEF Upsert, DomFilas
<1>2. \A c : c \in cuentas <=> \E t \in Ses : fila[t] # Nada /\ CuentaDe(fila[t], t) = c
  BY DEF SinHuerfanas
<1>3. \A c : c \in cuentas' <=> \E t \in Ses : fila'[t] # Nada /\ CuentaDe(fila'[t], t) = c
  <2> TAKE c
  <2>1. CASE fila[s] # Nada
    <3>1. c \in PurgaCuenta(CuentaDe(fila[s], s), fila') <=>
            /\ c = CuentaDe(fila[s], s)
            /\ ~\E t \in Ses : fila'[t] # Nada /\ CuentaDe(fila'[t], t) = c
      BY DEF PurgaCuenta
    <3>2. c \in cuentas' <=>
            /\ c \in cuentas \/ c = CuentaDe(f, s)
            /\ c \notin PurgaCuenta(CuentaDe(fila[s], s), fila')
      BY <2>1 DEF Upsert
    <3> QED
      BY <1>1, <1>2, <3>1, <3>2
  <2>2. CASE fila[s] = Nada
    <3>1. c \in cuentas' <=> c \in cuentas \/ c = CuentaDe(f, s)
      BY <2>2 DEF Upsert
    <3> QED
      BY <1>1, <1>2, <2>2, <3>1
  <2> QED
    BY <2>1, <2>2
<1> QED
  BY <1>3 DEF SinHuerfanas

LEMMA QuitaFilaSinHuerfanas ==
  ASSUME SinHuerfanas, DomFilas, NEW s \in Ses, QuitaFila(s)
  PROVE  SinHuerfanas'
<1>1. fila'[s] = Nada /\ \A t \in Ses : t # s => fila'[t] = fila[t]
  BY DEF QuitaFila, DomFilas
<1>2. \A c : c \in cuentas <=> \E t \in Ses : fila[t] # Nada /\ CuentaDe(fila[t], t) = c
  BY DEF SinHuerfanas
<1>3. \A c : c \in cuentas' <=> \E t \in Ses : fila'[t] # Nada /\ CuentaDe(fila'[t], t) = c
  <2> TAKE c
  <2>1. CASE fila[s] # Nada
    <3>1. c \in PurgaCuenta(CuentaDe(fila[s], s), fila') <=>
            /\ c = CuentaDe(fila[s], s)
            /\ ~\E t \in Ses : fila'[t] # Nada /\ CuentaDe(fila'[t], t) = c
      BY DEF PurgaCuenta
    <3>2. c \in cuentas' <=>
            c \in cuentas /\ c \notin PurgaCuenta(CuentaDe(fila[s], s), fila')
      BY <2>1 DEF QuitaFila
    <3> QED
      BY <1>1, <1>2, <3>1, <3>2
  <2>2. CASE fila[s] = Nada
    <3>1. c \in cuentas' <=> c \in cuentas
      BY <2>2 DEF QuitaFila
    <3> QED
      BY <1>1, <1>2, <2>2, <3>1
  <2> QED
    BY <2>1, <2>2
<1> QED
  BY <1>3 DEF SinHuerfanas

LEMMA SinHuerfanasSeConserva ==
  ASSUME BaseInv, SinHuerfanas, [Next]_vars PROVE SinHuerfanas'
<1> USE CotasAssumption DEF BaseInv, DominiosSes, DomFilas, DomCreadas, DomHilos, Ses
<1>1. CASE PairEmpieza
  <2>1. creadas + 1 \in Ses
    BY <1>1, CotasAssumption DEF PairEmpieza
  <2>2. Upsert(creadas + 1, EnPairing) \/ UNCHANGED <<fila, cuentas>>
    BY <1>1 DEF PairEmpieza
  <2> QED
    BY <2>1, <2>2, EnPairingEs, UpsertSinHuerfanas DEF SinHuerfanas
<1>2. CASE PairPersiste
  <2>1. par.s \in Ses
    BY <1>2, ParActiva DEF PairPersiste
  <2>2. [estado |-> "active", num |-> par.num, rol |-> par.rol] \in Filas
    BY DEF Filas, DomPar, Pares, Roles
  <2>3. [estado |-> "active", num |-> par.num, rol |-> par.rol] # Nada
    BY DEF Nada
  <2>4. \/ Upsert(par.s, [estado |-> "active", num |-> par.num, rol |-> par.rol])
        \/ UNCHANGED <<fila, cuentas>>
    BY <1>2 DEF PairPersiste
  <2> QED
    BY <2>1, <2>2, <2>3, <2>4, UpsertSinHuerfanas DEF SinHuerfanas
<1>3. CASE PairLimpiaFila
  <2>1. par.s \in Ses
    BY <1>3, ParActiva DEF PairLimpiaFila
  <2>2. QuitaFila(par.s) \/ UNCHANGED <<fila, cuentas>>
    BY <1>3 DEF PairLimpiaFila, BorraFila, disco
  <2> QED
    BY <2>1, <2>2, QuitaFilaSinHuerfanas DEF SinHuerfanas
<1>4. ASSUME NEW p \in Peticiones, UnlinkBorraFila(p) PROVE SinHuerfanas'
  <2>1. borra[p].s \in Ses
    BY <1>4, BajaActiva DEF UnlinkBorraFila
  <2>2. QuitaFila(borra[p].s) \/ UNCHANGED <<fila, cuentas>>
    BY <1>4 DEF UnlinkBorraFila, BorraFila, Quita, disco
  <2> QED
    BY <2>1, <2>2, QuitaFilaSinHuerfanas DEF SinHuerfanas
<1>5. ASSUME NEW s \in Ses, LoggedOutBaja(s) PROVE SinHuerfanas'
  <2>1. [estado |-> "loggedout", num |-> meta[s].num, rol |-> meta[s].rol] \in Filas
    BY DEF Filas
  <2>2. [estado |-> "loggedout", num |-> meta[s].num, rol |-> meta[s].rol] # Nada
    BY DEF Nada
  <2>3. \/ Upsert(s, [estado |-> "loggedout", num |-> meta[s].num, rol |-> meta[s].rol])
        \/ UNCHANGED <<fila, cuentas>>
    BY <1>5 DEF LoggedOutBaja
  <2> QED
    BY <2>1, <2>2, <2>3, UpsertSinHuerfanas DEF SinHuerfanas
<1>6. ASSUME NEW s \in Ses, LoggedOutAsciende(s) PROVE SinHuerfanas'
  <2>1. \A t \in Ses : fila'[t].estado = fila[t].estado /\ fila'[t].num = fila[t].num
    BY <1>6, LoggedOutAsciendeHace
  <2>2. \A t \in Ses : fila[t] = Nada => fila'[t] = Nada
    BY <1>6, LoggedOutAsciendeHace
  <2>3. \A t \in Ses : fila'[t] = Nada <=> fila[t] = Nada
    BY <2>1, <2>2, NadaEs DEF FilasInv
  <2>4. \A t \in Ses : CuentaDe(fila'[t], t) = CuentaDe(fila[t], t)
    BY <2>1 DEF CuentaDe
  <2>5. cuentas' = cuentas
    BY <1>6 DEF LoggedOutAsciende
  <2> QED
    BY <2>3, <2>4, <2>5 DEF SinHuerfanas
<1>7. CASE UNCHANGED <<fila, cuentas>>
  BY <1>7 DEF SinHuerfanas
<1> QED
  BY <1>1, <1>2, <1>3, <1>4, <1>5, <1>6, <1>7, MarcoVale DEF Marco, TocaFilas

LEMMA BajaInvSeConserva ==
  ASSUME BaseInv, BajaInv, [Next]_vars PROVE BajaInv'
<1> USE CotasAssumption DEF BaseInv, BajaInv, DominiosSes, DomFilas, DomCreadas, DomHilos, Ses
<1>1. CASE PairEmpieza
  <2>1. par'.s = creadas + 1
    BY <1>1, ParDeEs DEF PairEmpieza, PasosPar
  <2>2. UNCHANGED <<borra, cruzadas, viva>>
    BY <1>1 DEF PairEmpieza, historia
  <2>3. \A q \in Peticiones : borra[q].s # creadas + 1
    BY DEF DomBorra, Bajas
  <2> QED
    BY <2>1, <2>2, <2>3
<1>2. CASE PairFalla
  <2>1. par'.s = par.s
    BY <1>2, ParEnHace DEF PairFalla, DomPar, PasosPar
  <2>2. UNCHANGED <<borra, cruzadas>> /\ viva' \subseteq viva
    BY <1>2 DEF PairFalla, historia
  <2> QED
    BY <2>1, <2>2
<1>3. CASE PairGuarda
  <2>1. par'.s = par.s
    BY <1>3, ParEnHace DEF PairGuarda, DomPar, PasosPar
  <2>2. UNCHANGED <<borra, cruzadas>> /\ viva' \subseteq viva
    BY <1>3 DEF PairGuarda, historia
  <2> QED
    BY <2>1, <2>2
<1>4. ASSUME NEW n \in Numeros, PairRegistra(n) PROVE BajaInv'
  <2>1. par.s \in Ses
    BY <1>4, ParActiva DEF PairRegistra
  <2>2. par'.s = par.s /\ viva' \subseteq viva \cup {par.s}
    BY <1>4, <2>1, PairRegistraHace
  <2>3. UNCHANGED <<borra, cruzadas>>
    BY <1>4 DEF PairRegistra
  <2> QED
    BY <2>2, <2>3
<1>5. CASE PairPersiste
  BY <1>5, ParActiva, PairPersisteHace DEF PairPersiste, hilos, historia
<1>6. CASE PairSeRetira
  <2>1. par'.s = par.s
    BY <1>6, ParSobraHace DEF PairSeRetira, DomPar, PasosPar
  <2>2. UNCHANGED <<borra, cruzadas>> /\ viva' \subseteq viva
    BY <1>6 DEF PairSeRetira, historia
  <2> QED
    BY <2>1, <2>2
<1>7. CASE PairArma
  <2>1. par'.s = 0
    BY <1>7, ParDeEs DEF PairArma, SinPar, PasosPar
  <2>2. UNCHANGED <<borra, cruzadas, viva>>
    BY <1>7 DEF PairArma, historia
  <2>3. \A q \in Peticiones : borra[q].s # 0 /\ borra[q].s \notin cruzadas => borra[q].s \notin viva
    OBVIOUS
  <2> QED
    BY <2>1, <2>2, <2>3
<1>8. CASE PairLimpia
  <2>1. par'.s = par.s
    BY <1>8, ParEnHace DEF PairLimpia, DomPar, PasosPar
  <2>2. UNCHANGED <<borra, cruzadas>> /\ viva' \subseteq viva
    BY <1>8 DEF PairLimpia, historia
  <2> QED
    BY <2>1, <2>2
<1>9. CASE PairLimpiaFila
  <2>1. par'.s = 0
    BY <1>9, ParDeEs DEF PairLimpiaFila, SinPar, PasosPar
  <2>2. UNCHANGED <<borra, cruzadas, viva>>
    BY <1>9 DEF PairLimpiaFila, historia
  <2>3. \A q \in Peticiones : borra[q].s # 0 /\ borra[q].s \notin cruzadas => borra[q].s \notin viva
    OBVIOUS
  <2> QED
    BY <2>1, <2>2, <2>3
<1>10. ASSUME NEW p \in Peticiones, NEW s \in Ses, UnlinkSaca(p, s) PROVE BajaInv'
  <2>1. \A q \in Peticiones : q # p => borra'[q] = borra[q]
    BY <1>10, UnlinkSacaHace
  <2>2. viva' \subseteq viva /\ s \notin viva' /\ cruzadas \subseteq cruzadas'
        /\ (par.s = s => s \in cruzadas') /\ par' = par
    BY <1>10 DEF UnlinkSaca
  <2>3. borra'[p].s = s /\ (borra'[p].paso = "existe" => ~borra'[p].eraViva)
    BY <1>10, UnlinkSacaHace
  <2>4. borra'[p].eraViva => borra'[p].jid
    BY <1>10, UnlinkSacaHace DEF NumerosInv, ConJid
  <2> QED
    BY <2>1, <2>2, <2>3, <2>4
<1>11. ASSUME NEW p \in Peticiones, UnlinkPara(p) PROVE BajaInv'
  BY <1>11, UnlinkParaHace DEF UnlinkPara, disco, historia
<1>12. ASSUME NEW p \in Peticiones, UnlinkUne(p) PROVE BajaInv'
  BY <1>12, UnlinkUneHace DEF UnlinkUne, Quita, disco, hilos
<1>13. ASSUME NEW p \in Peticiones, UnlinkExiste(p) PROVE BajaInv'
  BY <1>13, UnlinkExisteHace, ReposoEs, ZenonT(60) DEF UnlinkExiste, Quita, disco, hilos, historia
<1>14. ASSUME NEW p \in Peticiones, UnlinkBorra(p) PROVE BajaInv'
  <2>1. PICK falla \in SUBSET {"dek", "material"} :
          borra' = [borra EXCEPT ![p] = BajaDe("fila", @.s, @.jid, falla # {}, @.eraViva)]
    BY <1>14 DEF UnlinkBorra
  <2>2. UNCHANGED <<par, viva, cruzadas>> /\ borra[p].paso = "restos"
    BY <1>14 DEF UnlinkBorra, historia
  <2>3. \A q \in Peticiones : q # p => borra'[q] = borra[q]
    BY <2>1, UnlinkBorraHace
  <2>4. /\ borra'[p].s = borra[p].s /\ borra'[p].paso = "fila" /\ borra'[p].jid = borra[p].jid
        /\ borra'[p].eraViva = borra[p].eraViva
    BY <2>1, UnlinkBorraHace
  <2> QED
    BY <2>2, <2>3, <2>4
<1>15. ASSUME NEW p \in Peticiones, UnlinkBorraFila(p) PROVE BajaInv'
  BY <1>15, ReposoEs, NadaEs
     DEF UnlinkBorraFila, BorraFila, QuitaFila, Quita, Logra, Falla, disco, hilos
<1>16. ASSUME NEW s \in Ses, LoggedOutBaja(s) PROVE BajaInv'
  BY <1>16, LoggedOutBajaHace DEF LoggedOutBaja, CambiaGancho, hilos, historia
<1>17. ASSUME NEW s \in Ses, LoggedOutMemoria(s) PROVE BajaInv'
  BY <1>17, LoggedOutMemoriaHace DEF LoggedOutMemoria, CambiaGancho, disco, hilos, historia
<1>18. CASE Rearranca
  BY <1>18, ParDeEs, ReposoEs, NadaEs DEF Rearranca, ListActive, SinPar, disco
<1>19. ASSUME NEW s \in Ses, RestoreUna(s) PROVE BajaInv'
  <2>1. \A q \in Peticiones : borra[q].s = 0
    BY <1>19 DEF RestoreUna, RestauraInv, DomBorra
  <2>2. UNCHANGED <<par, borra, cruzadas>>
    BY <1>19 DEF RestoreUna, historia
  <2> QED
    BY <2>1, <2>2
<1>20. CASE UNCHANGED <<borra, viva, meta, par, cruzadas, limpias>>
  BY <1>20
<1> QED
  BY <1>1, <1>2, <1>3, <1>4, <1>5, <1>6, <1>7, <1>8, <1>9, <1>10, <1>11, <1>12, <1>13, <1>14,
     <1>15, <1>16, <1>17, <1>18, <1>19, <1>20, MarcoVale
     DEF Marco, TocaBorra, TocaViva, TocaPar, TocaHistoria

\* What a deletion that crossed nothing may count on.
LEMMA SolaEs ==
  ASSUME BaseInv, BajaInv, NEW p \in Peticiones, borra[p].s \notin cruzadas, borra[p].paso # "libre"
  PROVE  /\ borra[p].s \in 1 .. creadas /\ borra[p].s \in Ses /\ borra[p].s # par.s
         /\ borra[p].s \notin viva /\ porRestaurar = {}
<1>1. borra[p].s \in 1 .. creadas /\ borra[p].s \in Ses
  BY BajaActiva DEF BaseInv, DominiosSes
<1>2. borra[p].s # 0
  BY <1>1
<1>3. porRestaurar = {}
  BY DEF BaseInv, RestauraInv
<1> QED
  BY <1>1, <1>2, <1>3 DEF BajaInv

LEMMA RestosInvSeConserva ==
  ASSUME BaseInv, BajaInv, RestosInv, [Next]_vars PROVE RestosInv'
<1> USE CotasAssumption
        DEF BaseInv, RestosInv, Sola, Unida, GanchoEnVuelo, DominiosSes, DomFilas, DomCreadas,
            DomHilos, Ses
<1>1. CASE PairGuarda
  <2>1. \A q \in Peticiones : borra[q].s \notin cruzadas /\ borra[q].paso # "libre" => borra[q].s # par.s
    BY SolaEs
  <2>2. material' = material \cup {par.s}
    BY <1>1 DEF PairGuarda
  <2>3. UNCHANGED <<borra, cruzadas, escucha, despacho, gancho, mux, dek>>
    BY <1>1 DEF PairGuarda, hilos, disco, historia
  <2> QED
    BY <2>1, <2>2, <2>3
<1>2. ASSUME NEW n \in Numeros, PairRegistra(n) PROVE RestosInv'
  <2>1. \A q \in Peticiones : borra[q].s \notin cruzadas /\ borra[q].paso # "libre" => borra[q].s # par.s
    BY SolaEs
  <2>2. dek' = dek \cup {par.s}
    BY <1>2 DEF PairRegistra
  <2>3. UNCHANGED <<borra, cruzadas, escucha, despacho, gancho, mux, material>>
    BY <1>2 DEF PairRegistra, hilos, disco, historia
  <2> QED
    BY <2>1, <2>2, <2>3
<1>3. CASE PairArma
  <2>1. \A q \in Peticiones : borra[q].s \notin cruzadas /\ borra[q].paso # "libre" => borra[q].s # par.s
    BY SolaEs
  <2>2. /\ mux' = mux \cup {par.s}
        /\ \A t \in Ses : t # par.s => escucha'[t] = escucha[t] /\ despacho'[t] = despacho[t]
    BY <1>3 DEF PairArma, Arma
  <2>3. \A q \in Peticiones : borra[q].paso # "libre" => borra[q].s \in Ses
    BY BajaActiva
  <2>4. UNCHANGED <<borra, cruzadas, gancho, dek, material>>
    BY <1>3 DEF PairArma, hilos, disco, historia
  <2> QED
    BY <2>1, <2>2, <2>3, <2>4
<1>4. CASE PairLimpia
  BY <1>4, ParEnHace DEF PairLimpia, BorraRestos, hilos, historia
<1>5. ASSUME NEW p \in Peticiones, NEW s \in Ses, UnlinkSaca(p, s) PROVE RestosInv'
  <2>1. \A q \in Peticiones : q # p => borra'[q] = borra[q]
    BY <1>5, UnlinkSacaHace
  <2>2. borra'[p].paso \in {"para", "existe"}
    BY <1>5, UnlinkSacaHace
  <2>3. mux' \subseteq mux /\ cruzadas \subseteq cruzadas'
    BY <1>5 DEF UnlinkSaca
  <2>4. UNCHANGED <<dek, material, escucha, despacho, gancho>>
    BY <1>5 DEF UnlinkSaca, hilos, disco, historia
  <2> QED
    BY <2>1, <2>2, <2>3, <2>4
<1>6. ASSUME NEW p \in Peticiones, UnlinkPara(p) PROVE RestosInv'
  BY <1>6, UnlinkParaHace DEF UnlinkPara, disco, historia
<1>7. ASSUME NEW p \in Peticiones, UnlinkUne(p) PROVE RestosInv'
  BY <1>7, UnlinkUneHace, SMTT(30) DEF UnlinkUne, Quita, disco, hilos
<1>8. ASSUME NEW p \in Peticiones, UnlinkExiste(p) PROVE RestosInv'
  <2>1. \A q \in Peticiones : q # p => borra'[q] = borra[q]
    BY <1>8, UnlinkExisteHace
  <2>2. ~borra'[p].eraViva
    BY <1>8, UnlinkExisteHace
  <2>3. UNCHANGED <<dek, material, escucha, despacho, gancho, mux, cruzadas>>
    BY <1>8 DEF UnlinkExiste, hilos, disco, historia
  <2> QED
    BY <2>1, <2>2, <2>3
<1>9. ASSUME NEW p \in Peticiones, UnlinkBorra(p) PROVE RestosInv'
  <2>1. PICK falla \in SUBSET {"dek", "material"} :
          /\ borra' = [borra EXCEPT ![p] = BajaDe("fila", @.s, @.jid, falla # {}, @.eraViva)]
          /\ BorraRestos(borra[p].s, borra[p].jid, falla)
    BY <1>9 DEF UnlinkBorra, Quita
  <2>2. dek' \subseteq dek /\ material' \subseteq material
    BY <2>1 DEF BorraRestos
  <2>3. \A q \in Peticiones : q # p => borra'[q] = borra[q]
    BY <2>1, UnlinkBorraHace
  <2>4. borra'[p].s = borra[p].s /\ borra'[p].eraViva = borra[p].eraViva /\ borra[p].paso = "restos"
    BY <1>9, <2>1, UnlinkBorraHace DEF UnlinkBorra
  <2>5. UNCHANGED <<cruzadas, escucha, despacho, gancho, mux>>
    BY <1>9 DEF UnlinkBorra, hilos, historia
  <2>6. borra[p].eraViva /\ ~borra'[p].mal => borra[p].s \notin dek' \cup material'
    <3>1. ~borra'[p].mal => falla = {}
      BY <2>1, UnlinkBorraHace
    <3>2. borra[p].eraViva => borra[p].jid
      BY DEF BajaInv
    <3> QED
      BY <2>1, <3>1, <3>2 DEF BorraRestos
  <2>7. ASSUME NEW q \in Peticiones, q # p, Sola(q)'
        PROVE  /\ borra'[q].paso \in {"restos", "fila"} =>
                    Unida(borra[q].s)' /\ borra'[q].s \notin mux' /\ ~GanchoEnVuelo(borra[q].s)'
               /\ borra'[q].paso = "fila" /\ ~borra'[q].mal => borra'[q].s \notin dek' \cup material'
    <3>1. Sola(q) /\ borra'[q] = borra[q]
      BY <2>3, <2>5, <2>7
    <3> QED
      BY <2>2, <2>5, <3>1
  <2>8. ASSUME Sola(p)'
        PROVE  /\ Unida(borra[p].s)' /\ borra'[p].s \notin mux' /\ ~GanchoEnVuelo(borra[p].s)'
               /\ ~borra'[p].mal => borra'[p].s \notin dek' \cup material'
    <3>1. Sola(p)
      BY <2>4, <2>5, <2>8
    <3> QED
      BY <2>4, <2>5, <2>6, <3>1
  <2> QED
    BY <2>7, <2>8
<1>10. ASSUME NEW p \in Peticiones, UnlinkBorraFila(p) PROVE RestosInv'
  BY <1>10, ReposoEs, NadaEs
     DEF UnlinkBorraFila, BorraFila, QuitaFila, Quita, Logra, Falla, disco, hilos
<1>11. ASSUME NEW s \in Ses, EscuchaTermina(s) PROVE RestosInv'
  BY <1>11 DEF EscuchaTermina, disco, historia
<1>12. ASSUME NEW s \in Ses, DespachoTermina(s) PROVE RestosInv'
  BY <1>12 DEF DespachoTermina, disco, historia
<1>13. ASSUME NEW s \in Ses, LoggedOutNube(s) PROVE RestosInv'
  BY <1>13 DEF LoggedOutNube, CambiaGancho, disco, hilos, historia
<1>14. ASSUME NEW s \in Ses, LoggedOutBaja(s) PROVE RestosInv'
  BY <1>14, LoggedOutBajaHace DEF LoggedOutBaja, CambiaGancho, hilos, historia
<1>15. ASSUME NEW s \in Ses, LoggedOutElige(s) PROVE RestosInv'
  <2>1. mux' \subseteq mux
    BY <1>15 DEF LoggedOutElige
  <2>2. \A t \in Ses : GanchoEnVuelo(t)' => GanchoEnVuelo(t)
    BY <1>15 DEF LoggedOutElige, CambiaGancho
  <2>3. \A q \in Peticiones : borra[q].paso # "libre" => borra[q].s \in Ses
    BY BajaActiva
  <2>4. UNCHANGED <<borra, cruzadas, escucha, despacho, dek, material>>
    BY <1>15 DEF LoggedOutElige, hilos, disco, historia
  <2> QED
    BY <2>1, <2>2, <2>3, <2>4
<1>16. ASSUME NEW s \in Ses, LoggedOutAsciende(s) PROVE RestosInv'
  <2>1. \A t \in Ses : GanchoEnVuelo(t)' => GanchoEnVuelo(t)
    BY <1>16 DEF LoggedOutAsciende, CambiaGancho
  <2>2. \A q \in Peticiones : borra[q].paso # "libre" => borra[q].s \in Ses
    BY BajaActiva
  <2>3. UNCHANGED <<borra, cruzadas, escucha, despacho, dek, material, mux>>
    BY <1>16 DEF LoggedOutAsciende, hilos, disco, historia
  <2> QED
    BY <2>1, <2>2, <2>3
<1>17. ASSUME NEW s \in Ses, LoggedOutMemoria(s) PROVE RestosInv'
  BY <1>17, LoggedOutMemoriaHace, SMTT(30) DEF LoggedOutMemoria, CambiaGancho, disco, hilos, historia
<1>18. CASE Rearranca
  BY <1>18, ParDeEs, ReposoEs, NadaEs DEF Rearranca, ListActive, SinPar, disco
<1>19. ASSUME NEW s \in Ses, RestoreUna(s) PROVE RestosInv'
  <2>1. \A q \in Peticiones : borra[q].paso = "libre"
    BY <1>19 DEF RestoreUna, RestauraInv
  <2>2. borra' = borra
    BY <1>19 DEF RestoreUna
  <2> QED
    BY <2>1, <2>2
<1>20. CASE UNCHANGED <<borra, cruzadas, limpias, escucha, despacho, mux, gancho, relevo, dek, material>>
  BY <1>20
<1> QED
  BY <1>1, <1>2, <1>3, <1>4, <1>5, <1>6, <1>7, <1>8, <1>9, <1>10, <1>11, <1>12, <1>13, <1>14,
     <1>15, <1>16, <1>17, <1>18, <1>19, <1>20, MarcoVale
     DEF Marco, TocaBorra, TocaHistoria, TocaHilos, TocaMux, TocaGanchos, TocaRestos

LEMMA LimpiasInvSeConserva ==
  ASSUME BaseInv, BajaInv, RestosInv, LimpiasInv, [Next]_vars PROVE LimpiasInv'
<1> USE CotasAssumption
        DEF BaseInv, LimpiasInv, Unida, GanchoEnVuelo, DominiosSes, DomFilas, DomCreadas,
            DomHilos, Ses
<1>1. CASE PairEmpieza
  <2>1. par'.s = creadas + 1 /\ creadas + 1 \in Ses
    BY <1>1, ParDeEs, CotasAssumption DEF PairEmpieza, PasosPar
  <2>2. \A t \in Ses : t # creadas + 1 => fila'[t] = fila[t]
    BY <1>1 DEF PairEmpieza, Upsert
  <2>3. UNCHANGED <<dek, material, viva, mux, escucha, despacho, gancho, limpias>>
    BY <1>1 DEF PairEmpieza, hilos, disco, historia
  <2>4. \A t \in limpias : t \in Ses /\ t # creadas + 1
    OBVIOUS
  <2>5. \A t \in limpias : fila'[t] = Nada
    BY <2>2, <2>4
  <2> QED
    BY <2>1, <2>3, <2>4, <2>5
<1>2. CASE PairFalla
  <2>1. par'.s = par.s
    BY <1>2, ParEnHace DEF PairFalla, DomPar, PasosPar
  <2>2. UNCHANGED <<fila, dek, material, viva, mux, escucha, despacho, gancho, limpias>>
    BY <1>2 DEF PairFalla, hilos, disco, historia
  <2> QED
    BY <2>1, <2>2
<1>3. CASE PairGuarda
  <2>1. par'.s = par.s
    BY <1>3, ParEnHace DEF PairGuarda, DomPar, PasosPar
  <2>2. material' = material \cup {par.s}
    BY <1>3 DEF PairGuarda
  <2>3. UNCHANGED <<fila, dek, viva, mux, escucha, despacho, gancho, limpias>>
    BY <1>3 DEF PairGuarda, hilos, disco, historia
  <2> QED
    BY <2>1, <2>2, <2>3
<1>4. ASSUME NEW n \in Numeros, PairRegistra(n) PROVE LimpiasInv'
  <2>1. par.s \in Ses
    BY <1>4, ParActiva DEF PairRegistra
  <2>2. par'.s = par.s /\ viva' \subseteq viva \cup {par.s}
    BY <1>4, <2>1, PairRegistraHace
  <2>3. dek' = dek \cup {par.s}
    BY <1>4 DEF PairRegistra
  <2>4. UNCHANGED <<fila, material, mux, escucha, despacho, gancho, limpias>>
    BY <1>4 DEF PairRegistra, hilos, disco, historia
  <2> QED
    BY <2>1, <2>2, <2>3, <2>4
<1>5. CASE PairPersiste
  <2>1. par.s \in Ses
    BY <1>5, ParActiva DEF PairPersiste
  <2>2. par'.s = par.s /\ \A t \in Ses : t # par.s => fila'[t] = fila[t]
    BY <1>5, <2>1, PairPersisteHace
  <2>3. UNCHANGED <<dek, material, viva, mux, escucha, despacho, gancho, limpias>>
    BY <1>5 DEF PairPersiste, hilos, disco, historia
  <2> QED
    BY <2>1, <2>2, <2>3
<1>6. CASE PairSeRetira
  <2>1. par'.s = par.s
    BY <1>6, ParSobraHace DEF PairSeRetira, DomPar, PasosPar
  <2>2. viva' \subseteq viva
    BY <1>6 DEF PairSeRetira
  <2>3. UNCHANGED <<fila, dek, material, mux, escucha, despacho, gancho, limpias>>
    BY <1>6 DEF PairSeRetira, hilos, disco, historia
  <2> QED
    BY <2>1, <2>2, <2>3
<1>7. CASE PairArma
  <2>1. par'.s = 0
    BY <1>7, ParDeEs DEF PairArma, SinPar, PasosPar
  <2>2. /\ mux' = mux \cup {par.s}
        /\ \A t \in Ses : t # par.s => escucha'[t] = escucha[t] /\ despacho'[t] = despacho[t]
    BY <1>7 DEF PairArma, Arma
  <2>3. limpias \subseteq Ses /\ \A t \in limpias : t # 0
    BY CotasAssumption
  <2>4. UNCHANGED <<fila, dek, material, viva, gancho, limpias>>
    BY <1>7 DEF PairArma, hilos, disco, historia
  <2> QED
    BY <2>1, <2>2, <2>3, <2>4
<1>8. CASE PairLimpia
  <2>1. par'.s = par.s
    BY <1>8, ParEnHace DEF PairLimpia, DomPar, PasosPar
  <2>2. dek' \subseteq dek /\ material' \subseteq material
    BY <1>8 DEF PairLimpia, BorraRestos
  <2>3. fila' = fila
    BY <1>8 DEF PairLimpia, BorraRestos
  <2>4. UNCHANGED <<viva, mux, escucha, despacho, gancho, limpias>>
    BY <1>8 DEF PairLimpia, hilos, disco, historia
  <2> QED
    BY <2>1, <2>2, <2>3, <2>4
<1>9. CASE PairLimpiaFila
  <2>1. par'.s = 0
    BY <1>9, ParDeEs DEF PairLimpiaFila, SinPar, PasosPar
  <2>2. \A t \in Ses : fila'[t] = fila[t] \/ fila'[t] = Nada
    BY <1>9 DEF PairLimpiaFila, BorraFila, QuitaFila, disco
  <2>3. UNCHANGED <<dek, material>>
    BY <1>9 DEF PairLimpiaFila, BorraFila, disco
  <2>4. \A t \in limpias : t \in Ses /\ t # 0
    BY CotasAssumption
  <2>5. UNCHANGED <<viva, mux, escucha, despacho, gancho, limpias>>
    BY <1>9 DEF PairLimpiaFila, hilos, disco, historia
  <2> QED
    BY <2>1, <2>2, <2>3, <2>4, <2>5
<1>10. ASSUME NEW p \in Peticiones, NEW s \in Ses, UnlinkSaca(p, s) PROVE LimpiasInv'
  <2>1. viva' \subseteq viva /\ mux' \subseteq mux
    BY <1>10 DEF UnlinkSaca
  <2>2. UNCHANGED <<fila, dek, material, escucha, despacho, gancho, par, limpias>>
    BY <1>10 DEF UnlinkSaca, hilos, disco, historia
  <2> QED
    BY <2>1, <2>2
<1>11. ASSUME NEW p \in Peticiones, UnlinkUne(p) PROVE LimpiasInv'
  <2>1. mux' \subseteq mux
    BY <1>11 DEF UnlinkUne
  <2>2. UNCHANGED <<fila, dek, material, viva, escucha, despacho, gancho, par, limpias>>
    BY <1>11 DEF UnlinkUne, hilos, disco, historia
  <2> QED
    BY <2>1, <2>2
<1>12. ASSUME NEW p \in Peticiones, UnlinkBorra(p) PROVE LimpiasInv'
  <2>1. dek' \subseteq dek /\ material' \subseteq material /\ fila' = fila
    BY <1>12 DEF UnlinkBorra, BorraRestos
  <2>2. UNCHANGED <<viva, mux, escucha, despacho, gancho, par, limpias>>
    BY <1>12 DEF UnlinkBorra, hilos, disco, historia
  <2> QED
    BY <2>1, <2>2
<1>13. ASSUME NEW p \in Peticiones, UnlinkBorraFila(p) PROVE LimpiasInv'
  <2>1. \A t \in Ses : fila'[t] = fila[t] \/ fila'[t] = Nada
    BY <1>13 DEF UnlinkBorraFila, BorraFila, QuitaFila, disco
  <2>2. UNCHANGED <<dek, material, viva, mux, escucha, despacho, gancho, par>>
    BY <1>13 DEF UnlinkBorraFila, BorraFila, hilos, disco
  <2>3. \/ limpias' = limpias
        \/ limpias' = limpias \cup {borra[p].s} /\ Sola(p) /\ ~borra[p].mal /\ fallos' = fallos
    <3> DEFINE bien == /\ borra[p].eraViva /\ ~borra[p].mal /\ fallos' = fallos
                       /\ borra[p].s \notin cruzadas
    <3>1. limpias' = (IF bien THEN limpias \cup {borra[p].s} ELSE limpias)
      BY <1>13, Zenon DEF UnlinkBorraFila, Quita
    <3>2. bien => Sola(p) /\ ~borra[p].mal /\ fallos' = fallos
      BY Zenon DEF Sola
    <3> HIDE DEF bien
    <3> QED
      BY <3>1, <3>2
  <2>4. CASE limpias' = limpias
    BY <2>1, <2>2, <2>4
  <2>5. CASE limpias' = limpias \cup {borra[p].s} /\ Sola(p) /\ ~borra[p].mal /\ fallos' = fallos
    <3>1. borra[p].paso = "fila" /\ borra[p].s \notin cruzadas
      BY <1>13, <2>5 DEF UnlinkBorraFila, Sola
    <3>2. borra[p].s \in Ses /\ borra[p].s # par.s /\ borra[p].s \notin viva
      BY <3>1, SolaEs
    <3>3. Unida(borra[p].s) /\ borra[p].s \notin mux \cup dek \cup material /\ ~GanchoEnVuelo(borra[p].s)
      BY <2>5, <3>1 DEF RestosInv
    <3>4. ~Falla
      BY <2>5 DEF Falla
    <3>5. fila'[borra[p].s] = Nada
      BY <1>13, <3>2, <3>4 DEF UnlinkBorraFila, BorraFila, QuitaFila, Quita
    <3>6. ASSUME NEW t \in limpias, t # borra[p].s
          PROVE  /\ fila'[t] = Nada /\ t \notin dek' \cup material' \cup viva' \cup mux'
                 /\ Unida(t)' /\ ~GanchoEnVuelo(t)' /\ par'.s # t
      BY <2>1, <2>2, <3>6
    <3>7. /\ borra[p].s \notin dek' \cup material' \cup viva' \cup mux'
          /\ par'.s # borra[p].s
      BY <2>2, <3>2, <3>3
    <3>8. PICK k \in Ses : k = borra[p].s
      BY <3>2
    <3>9. Unida(k)' /\ ~GanchoEnVuelo(k)'
      BY <2>2, <3>3, <3>8
    <3> QED
      BY <2>5, <3>5, <3>6, <3>7, <3>8, <3>9
  <2> QED
    BY <2>3, <2>4, <2>5
<1>14. ASSUME NEW s \in Ses, EscuchaTermina(s) PROVE LimpiasInv'
  BY <1>14 DEF EscuchaTermina, disco, historia
<1>15. ASSUME NEW s \in Ses, DespachoTermina(s) PROVE LimpiasInv'
  BY <1>15 DEF DespachoTermina, disco, historia
<1>16. ASSUME NEW s \in Ses, LoggedOutNube(s) PROVE LimpiasInv'
  BY <1>16 DEF LoggedOutNube, CambiaGancho, disco, hilos, historia
<1>17. ASSUME NEW s \in Ses, LoggedOutBaja(s) PROVE LimpiasInv'
  <2>1. GanchoEnVuelo(s) /\ \A t \in Ses : t # s => gancho'[t] = gancho[t]
    BY <1>17 DEF LoggedOutBaja, CambiaGancho
  <2>2. \A t \in Ses : t # s => fila'[t] = fila[t]
    BY <1>17, LoggedOutBajaHace
  <2>3. \A t \in limpias : t \in Ses /\ t # s
    BY <2>1
  <2>4. UNCHANGED <<dek, material, viva, mux, escucha, despacho, par, limpias>>
    BY <1>17 DEF LoggedOutBaja, hilos, disco, historia
  <2>5. \A t \in limpias : fila'[t] = Nada /\ gancho'[t] = gancho[t]
    BY <2>1, <2>2, <2>3
  <2> QED
    BY <2>3, <2>4, <2>5
<1>18. ASSUME NEW s \in Ses, LoggedOutElige(s) PROVE LimpiasInv'
  <2>1. GanchoEnVuelo(s) /\ \A t \in Ses : t # s => gancho'[t] = gancho[t]
    BY <1>18 DEF LoggedOutElige, CambiaGancho
  <2>2. mux' \subseteq mux
    BY <1>18 DEF LoggedOutElige
  <2>3. UNCHANGED <<fila, dek, material, viva, escucha, despacho, par, limpias>>
    BY <1>18 DEF LoggedOutElige, hilos, disco, historia
  <2> QED
    BY <2>1, <2>2, <2>3
<1>19. ASSUME NEW s \in Ses, LoggedOutAsciende(s) PROVE LimpiasInv'
  <2>1. GanchoEnVuelo(s) /\ \A t \in Ses : t # s => gancho'[t] = gancho[t]
    BY <1>19 DEF LoggedOutAsciende, CambiaGancho
  <2>2. \A t \in Ses : fila[t] = Nada => fila'[t] = Nada
    BY <1>19, LoggedOutAsciendeHace
  <2>3. UNCHANGED <<dek, material, viva, mux, escucha, despacho, par, limpias>>
    BY <1>19 DEF LoggedOutAsciende, hilos, disco, historia
  <2> QED
    BY <2>1, <2>2, <2>3
<1>20. ASSUME NEW s \in Ses, LoggedOutMemoria(s) PROVE LimpiasInv'
  BY <1>20, LoggedOutMemoriaHace DEF LoggedOutMemoria, CambiaGancho, disco, hilos, historia
<1>21. CASE Rearranca
  <2>1. par'.s = 0
    BY <1>21, ParDeEs DEF Rearranca, SinPar, PasosPar
  <2>2. /\ viva' = {} /\ mux' = {} /\ escucha' = [t \in Ses |-> "no"]
        /\ despacho' = [t \in Ses |-> "no"] /\ gancho' = [t \in Ses |-> "no"]
    BY <1>21 DEF Rearranca
  <2>3. \A t \in limpias : t \in Ses /\ t # 0
    BY CotasAssumption
  <2>4. UNCHANGED <<fila, dek, material, limpias>>
    BY <1>21 DEF Rearranca, hilos, disco, historia
  <2> QED
    BY <2>1, <2>2, <2>3, <2>4
<1>22. ASSUME NEW s \in Ses, RestoreUna(s) PROVE LimpiasInv'
  <2>1. s \notin limpias
    BY <1>22, NadaEs DEF RestoreUna, RestauraInv
  <2>2. viva' = viva \cup {s} /\ mux' = mux \cup {s} /\ \A t \in Ses : t # s => escucha'[t] = escucha[t] /\ despacho'[t] = despacho[t]
    BY <1>22 DEF RestoreUna, Arma
  <2>3. UNCHANGED <<fila, dek, material, gancho, par, limpias>>
    BY <1>22 DEF RestoreUna, hilos, disco, historia
  <2> QED
    BY <2>1, <2>2, <2>3
<1>23. CASE UNCHANGED <<fila, cuentas, dek, material, viva, meta, mux, escucha, despacho, gancho, relevo, par, cruzadas, limpias>>
  BY <1>23
<1> QED
  BY <1>1, <1>2, <1>3, <1>4, <1>5, <1>6, <1>7, <1>8, <1>9, <1>10, <1>11, <1>12, <1>13, <1>14,
     <1>15, <1>16, <1>17, <1>18, <1>19, <1>20, <1>21, <1>22, <1>23, MarcoVale
     DEF Marco, TocaFilas, TocaRestos, TocaViva, TocaMux, TocaHilos, TocaGanchos, TocaPar,
         TocaHistoria

LEMMA BorradoSeConserva == BaseInv /\ BorradoInv /\ [Next]_vars => BorradoInv'
  BY SinHuerfanasSeConserva, BajaInvSeConserva, RestosInvSeConserva, LimpiasInvSeConserva
     DEF BorradoInv

LEMMA InicialBase == Init => BaseInv /\ BorradoInv
<1> SUFFICES ASSUME Init PROVE BaseInv /\ BorradoInv
  OBVIOUS
<1> USE CotasAssumption
<1>1. PICK n \in Numeros :
        /\ fila = [s \in Ses |-> IF s > Previas THEN Nada
                                 ELSE [estado |-> "active", num |-> n,
                                       rol |-> IF s = 1 THEN "primary" ELSE "standby"]]
        /\ cuentas = (IF Previas = 0 THEN {} ELSE {n})
  BY DEF Init
<1>2. \A s \in Ses : IF s > Previas THEN fila[s] = Nada
                     ELSE fila[s].estado = "active" /\ fila[s].num = n /\ fila[s] \in Filas
  BY <1>1 DEF Ses, Filas
<1>3. /\ par.paso = "libre" /\ par.s = 0 /\ par \in Pares
      /\ \A p \in Peticiones : borra[p] = Reposo
  BY ParDeEs DEF Init, SinPar, PasosPar
<1>4. DomFilas
  <2>1. fila \in [Ses -> Filas]
    BY <1>1, <1>2, NadaEs
  <2>2. meta \in [Ses -> Filas]
    BY NadaEs DEF Init
  <2> QED
    BY <2>1, <2>2 DEF DomFilas
<1>5. DomCreadas
  BY <1>2, NadaEs DEF Init, DomCreadas, Ses
<1>6. DomPar /\ DomBorra
  BY <1>3, ReposoEs DEF Init, DomPar, DomBorra
<1>7. DomHilos /\ fallos \in Nat
  BY DEF Init, DomHilos, Hilos, Ganchos
<1>8. FilasInv /\ NuevasInv
  BY <1>2, NadaEs DEF Init, FilasInv, NuevasInv
<1>9. NumerosInv /\ RestauraInv /\ ParInv
  BY <1>2, <1>3, ReposoEs DEF Init, NumerosInv, RestauraInv, ParInv, Ses
<1>10. SinHuerfanas
  <2>1. \A s \in Ses : fila[s] # Nada <=> s \in 1 .. Previas
    BY <1>2, NadaEs DEF Ses
  <2>2. \A s \in 1 .. Previas : s \in Ses /\ CuentaDe(fila[s], s) = n
    BY <1>2 DEF Ses, CuentaDe
  <2>3. \A c : c \in cuentas <=> \E s \in 1 .. Previas : c = CuentaDe(fila[s], s)
    <3>1. CASE Previas = 0
      BY <1>1, <3>1
    <3>2. CASE Previas # 0
      <4>1. 1 \in 1 .. Previas
        BY <3>2
      <4> QED
        BY <1>1, <2>2, <3>2, <4>1
    <3> QED
      BY <3>1, <3>2
  <2>4. {s \in Ses : fila[s] # Nada} = 1 .. Previas
    BY <2>1, <2>2
  <2> QED
    BY <2>3, <2>4 DEF SinHuerfanas
<1>11. BajaInv /\ RestosInv /\ LimpiasInv
  BY <1>3, ReposoEs DEF Init, BajaInv, RestosInv, LimpiasInv, Sola
<1> QED
  BY <1>4, <1>5, <1>6, <1>7, <1>8, <1>9, <1>10, <1>11 DEF BaseInv, BorradoInv, DominiosSes

\* "Cero huerfanos": what Unlink deleted without an error, from a live session, is gone for
\* good, whatever the pairings, the restarts and the hooks of others do, and no account
\* outlives its last row.
THEOREM CeroHuerfanos == Spec => []BorradoCompleto
<1>1. BaseInv /\ BorradoInv => BorradoCompleto
  BY DEF BorradoInv, LimpiasInv, BorradoCompleto, Unida, Corre
<1> QED
  BY <1>1, InicialBase, BaseSeConserva, BorradoSeConserva, PTL DEF Spec

-----------------------------------------------------------------------------
(***************************************************************************)
(* A logged-out device: no step makes its row active, none listens for it. *)
(***************************************************************************)

LEMMA FilaCerrada ==
  ASSUME BaseInv, [Next]_vars
  PROVE  \A t \in Ses : fila[t].estado = "loggedout" => fila'[t].estado # "active"
<1> USE CotasAssumption DEF BaseInv, DominiosSes
<1>1. CASE PairEmpieza
  <2>1. \A t \in Ses : fila'[t] = fila[t] \/ fila'[t] = EnPairing
    BY <1>1 DEF PairEmpieza, Upsert, DomFilas
  <2> QED
    BY <2>1, EnPairingEs
<1>2. CASE PairPersiste
  <2>1. par.s \in Ses /\ par.s # 0
    BY <1>2, ParActiva DEF PairPersiste, DomPar
  <2>2. fila[par.s].estado # "loggedout"
    BY <2>1 DEF ParInv
  <2>3. \A t \in Ses : t # par.s => fila'[t] = fila[t]
    BY <1>2, <2>1, PairPersisteHace
  <2> QED
    BY <2>2, <2>3
<1>3. ASSUME NEW t \in Ses, BorraFila(t) PROVE \A u \in Ses : fila'[u] = fila[u] \/ fila'[u] = Nada
  BY <1>3 DEF BorraFila, QuitaFila, DomFilas, disco
<1>4. CASE PairLimpiaFila
  <2>1. par.s \in Ses
    BY <1>4, ParActiva DEF PairLimpiaFila
  <2> QED
    BY <1>3, <1>4, <2>1, NadaEs DEF PairLimpiaFila
<1>5. ASSUME NEW p \in Peticiones, UnlinkBorraFila(p)
      PROVE  \A t \in Ses : fila[t].estado = "loggedout" => fila'[t].estado # "active"
  <2>1. borra[p].s \in Ses
    BY <1>5, BajaActiva DEF UnlinkBorraFila
  <2> QED
    BY <1>3, <1>5, <2>1, NadaEs DEF UnlinkBorraFila, Quita
<1>6. ASSUME NEW s \in Ses, LoggedOutBaja(s)
      PROVE  \A t \in Ses : fila[t].estado = "loggedout" => fila'[t].estado # "active"
  BY <1>6, LoggedOutBajaHace
<1>7. ASSUME NEW s \in Ses, LoggedOutAsciende(s)
      PROVE  \A t \in Ses : fila[t].estado = "loggedout" => fila'[t].estado # "active"
  BY <1>7, LoggedOutAsciendeHace
<1>8. CASE UNCHANGED fila
  BY <1>8
<1> QED
  BY <1>1, <1>2, <1>4, <1>5, <1>6, <1>7, <1>8, MarcoVale DEF Marco, TocaFilas

LEMMA NadieEscuchaZombies ==
  ASSUME BaseInv, [Next]_vars
  PROVE  \A t \in Ses : fila[t].estado = "loggedout" /\ escucha[t] = "no" => escucha'[t] = "no"
<1> USE CotasAssumption DEF BaseInv, DominiosSes
<1>1. CASE PairArma
  <2>1. par.s \in Ses /\ par.s # 0
    BY <1>1, ParActiva DEF PairArma, DomPar
  <2>2. fila[par.s].estado # "loggedout"
    BY <2>1 DEF ParInv
  <2>3. \A t \in Ses : t # par.s => escucha'[t] = escucha[t]
    BY <1>1 DEF PairArma, Arma, DomHilos
  <2> QED
    BY <2>2, <2>3
<1>2. CASE Rearranca
  BY <1>2 DEF Rearranca
<1>3. ASSUME NEW s \in Ses, EscuchaTermina(s)
      PROVE  \A t \in Ses : escucha[t] = "no" => escucha'[t] = "no"
  BY <1>3 DEF EscuchaTermina, DomHilos
<1>4. ASSUME NEW s \in Ses, DespachoTermina(s) PROVE UNCHANGED escucha
  BY <1>4 DEF DespachoTermina
<1>5. ASSUME NEW s \in Ses, RestoreUna(s)
      PROVE  \A t \in Ses : fila[t].estado = "loggedout" => escucha'[t] = escucha[t]
  BY <1>5 DEF RestoreUna, Arma, DomHilos, RestauraInv
<1>6. CASE UNCHANGED escucha
  BY <1>6
<1> QED
  BY <1>1, <1>2, <1>3, <1>4, <1>5, <1>6, MarcoVale DEF Marco, TocaHilos

\* "No re-emparejar automaticamente": a session whose row says loggedout is never active again,
\* and no start of the process and no pairing listens for it.
THEOREM ZombiesQuietos == Spec => ZombieNoVuelve
<1>1. BaseInv /\ [Next]_vars =>
        [\A s \in Ses : fila[s].estado = "loggedout" =>
           /\ fila'[s].estado # "active"
           /\ escucha[s] = "no" => escucha'[s] = "no"]_vars
  BY FilaCerrada, NadieEscuchaZombies
<1>2. Spec => []BaseInv
  BY InicialBase, BaseSeConserva, PTL DEF Spec
<1> QED
  BY <1>1, <1>2, PTL DEF Spec, ZombieNoVuelve

-----------------------------------------------------------------------------
(***************************************************************************)
(* The roles of the devices of a number.                                   *)
(***************************************************************************)

\* A step in which nothing fails, the process lives and no promotion is crossed.
PasoSereno == [Next]_vars /\ fallos' = fallos /\ caidas' = caidas /\ ~solapada'

LEMMA SerenoAntes ==
  ASSUME BaseInv, [Next]_vars, Sereno'
  PROVE  Sereno /\ PasoSereno
<1> USE DEF BaseInv, DominiosSes, DomCreadas, Sereno
<1>1. caidas' \in Nat /\ caidas' >= caidas
  <2>1. CASE Rearranca
    BY <2>1 DEF Rearranca
  <2>2. CASE UNCHANGED caidas
    BY <2>2
  <2>3. ASSUME NEW s \in Ses, RestoreUna(s) PROVE UNCHANGED caidas
    BY <2>3 DEF RestoreUna
  <2>4. CASE PairEmpieza
    BY <2>4 DEF PairEmpieza
  <2> QED
    BY <2>1, <2>2, <2>3, <2>4, MarcoVale DEF Marco, TocaInicio
<1>2. fallos' >= fallos
  <2>1. CASE PairEmpieza \/ PairPersiste
    BY <2>1 DEF PairEmpieza, PairPersiste, Logra, Falla
  <2>2. ASSUME NEW t, NEW b, NEW f \in SUBSET {"dek", "material"}, BorraRestos(t, b, f)
        PROVE  fallos' >= fallos
    <3>1. fallos' = fallos + Cardinality(f) /\ Cardinality(f) \in Nat
      BY <2>2, FallosEs DEF BorraRestos
    <3> QED
      BY <3>1
  <2>3. CASE PairLimpia
    BY <2>2, <2>3 DEF PairLimpia
  <2>4. ASSUME NEW t, BorraFila(t) PROVE fallos' >= fallos
    BY <2>4 DEF BorraFila, Logra, Falla
  <2>5. CASE PairLimpiaFila
    BY <2>4, <2>5 DEF PairLimpiaFila
  <2>6. ASSUME NEW p \in Peticiones, UnlinkExiste(p) \/ UnlinkBorra(p) \/ UnlinkBorraFila(p)
        PROVE  fallos' >= fallos
    <3>1. CASE UnlinkExiste(p)
      <4>1. Logra \/ Falla
        BY <3>1 DEF UnlinkExiste
      <4> QED
        BY <4>1 DEF Logra, Falla
    <3>2. CASE UnlinkBorra(p)
      BY <2>2, <3>2 DEF UnlinkBorra
    <3>3. CASE UnlinkBorraFila(p)
      BY <2>4, <3>3 DEF UnlinkBorraFila
    <3> QED
      BY <2>6, <3>1, <3>2, <3>3
  <2>7. ASSUME NEW s \in Ses, LoggedOutBaja(s) \/ LoggedOutAsciende(s) PROVE fallos' >= fallos
    BY <2>7 DEF LoggedOutBaja, LoggedOutAsciende, Logra, Falla
  <2>8. CASE UNCHANGED fallos
    BY <2>8
  <2> QED
    BY <2>1, <2>3, <2>5, <2>6, <2>7, <2>8, MarcoVale DEF Marco, TocaFallos
<1>3. solapada => solapada'
  <2>1. ASSUME NEW n \in Numeros, PairRegistra(n) PROVE solapada => solapada'
    BY <2>1 DEF PairRegistra
  <2>2. ASSUME NEW s \in Ses, LoggedOutElige(s) PROVE solapada => solapada'
    BY <2>2 DEF LoggedOutElige
  <2>3. CASE UNCHANGED solapada
    BY <2>3
  <2> QED
    BY <2>1, <2>2, <2>3, MarcoVale DEF Marco, TocaSolapada
<1>4. fallos = 0 /\ caidas = 0 /\ fallos' = fallos /\ caidas' = caidas
  BY <1>1, <1>2
<1> QED
  BY <1>3, <1>4, Zenon DEF PasoSereno

LEMMA RelevoInvSeConserva ==
  ASSUME BaseInv, RelevoInv, PasoSereno
  PROVE  RelevoInv'
<1> USE CotasAssumption DEF BaseInv, DominiosSes, PasoSereno, RelevoInv, DomFilas, DomCreadas,
                            DomHilos, Ganchos, Ses
<1>1. CASE PairEmpieza
  <2>1. par'.s = creadas + 1 /\ creadas' = creadas + 1
    BY <1>1, ParDeEs DEF PairEmpieza, PasosPar
  <2>2. UNCHANGED <<meta, gancho, relevo, porRestaurar>>
    BY <1>1 DEF PairEmpieza
  <2> QED
    BY <2>1, <2>2
<1>2. CASE PairFalla \/ PairGuarda \/ PairLimpia \/ PairSeRetira
  <2>1. par'.s = par.s
    BY <1>2, ParEnHace, ParSobraHace
    DEF PairFalla, PairGuarda, PairLimpia, PairSeRetira, DomPar, PasosPar
  <2>2. UNCHANGED <<meta, gancho, relevo, porRestaurar, creadas>>
    BY <1>2 DEF PairFalla, PairGuarda, PairLimpia, PairSeRetira
  <2> QED
    BY <2>1, <2>2
<1>3. CASE PairArma \/ PairLimpiaFila
  <2>1. par'.s = 0
    BY <1>3, ParDeEs DEF PairArma, PairLimpiaFila, SinPar, PasosPar
  <2>2. UNCHANGED <<meta, gancho, relevo, porRestaurar, creadas>>
    BY <1>3 DEF PairArma, PairLimpiaFila
  <2> QED
    BY <2>1, <2>2
<1>4. CASE PairPersiste
  <2>1. par'.s = par.s
    BY <1>4, ParActiva, PairPersisteHace DEF PairPersiste
  <2>2. UNCHANGED <<meta, gancho, relevo, porRestaurar, creadas>>
    BY <1>4 DEF PairPersiste
  <2> QED
    BY <2>1, <2>2
<1>5. ASSUME NEW n \in Numeros, PairRegistra(n) PROVE RelevoInv'
  <2>1. par.s \in Ses /\ gancho[par.s] = "no"
    BY <1>5, ParActiva DEF PairRegistra, ParInv
  <2>2. par'.s = par.s /\ \A s \in Ses : s # par.s => meta'[s] = meta[s]
    BY <1>5, <2>1, PairRegistraHace
  <2>3. meta'[par.s].estado # "loggedout"
    BY <1>5, <2>1, PairRegistraHace
  <2>4. UNCHANGED <<gancho, relevo, porRestaurar, creadas>>
    BY <1>5 DEF PairRegistra
  <2> QED
    BY <2>1, <2>2, <2>3, <2>4, ZenonT(60)
<1>6. ASSUME NEW s \in Ses, LoggedOutNube(s) PROVE RelevoInv'
  BY <1>6 DEF LoggedOutNube, CambiaGancho
<1>7. ASSUME NEW s \in Ses, LoggedOutBaja(s) PROVE RelevoInv'
  <2>1. /\ meta' \in [Ses -> Filas] /\ \A t \in Ses : meta'[t].num = meta[t].num
        /\ \A t \in Ses : t # s => meta'[t] = meta[t]
        /\ meta'[s].estado = "loggedout"
    BY <1>7, LoggedOutBajaHace
  <2>2. gancho' = [gancho EXCEPT ![s] = "baja"]
    BY <1>7 DEF LoggedOutBaja, CambiaGancho
  <2>3. UNCHANGED <<relevo, porRestaurar, creadas, par>>
    BY <1>7 DEF LoggedOutBaja
  <2> QED
    BY <2>1, <2>2, <2>3
<1>8. ASSUME NEW s \in Ses, LoggedOutElige(s) PROVE RelevoInv'
  <2>1. gancho[s] = "baja" /\ UNCHANGED <<meta, porRestaurar, creadas, par>>
    BY <1>8 DEF LoggedOutElige, CambiaGancho
  <2>2. CASE gancho' = [gancho EXCEPT ![s] = "hecho"] /\ relevo' = relevo
    BY <2>1, <2>2
  <2>3. ASSUME NEW t \in Candidatos(s), gancho' = [gancho EXCEPT ![s] = "elige"],
               relevo' = [relevo EXCEPT ![s] = t]
        PROVE  RelevoInv'
    <3>1. t \in viva /\ t # s /\ meta[t].num = meta[s].num
      BY DEF Candidatos, Operativos
    <3>2. t \in Ses /\ t \in 1 .. creadas /\ t \notin porRestaurar
      BY <3>1 DEF RestauraInv
    <3>3. gancho'[s] = "elige" /\ relevo'[s] = t
      BY <2>3
    <3>4. ~PairEnVuelo(t)
      BY <1>8, <3>3 DEF LoggedOutElige
    <3>5. t # par.s
      BY <3>1, <3>2, <3>4 DEF PairEnVuelo, ParInv, DomPar, Pares, PasosPar
    <3>6. \A u \in Ses : u # s => gancho'[u] = gancho[u] /\ relevo'[u] = relevo[u]
      BY <2>3
    <3> QED
      BY <2>1, <3>1, <3>2, <3>3, <3>5, <3>6, SMTT(30)
  <2> QED
    BY <1>8, <2>2, <2>3 DEF LoggedOutElige, CambiaGancho
<1>9. ASSUME NEW s \in Ses, LoggedOutAsciende(s) PROVE RelevoInv'
  <2>1. gancho[s] = "elige" /\ gancho' = [gancho EXCEPT ![s] = "asciende"]
    BY <1>9 DEF LoggedOutAsciende, CambiaGancho, Falla
  <2>2. UNCHANGED <<meta, relevo, porRestaurar, creadas, par>>
    BY <1>9 DEF LoggedOutAsciende
  <2> QED
    BY <2>1, <2>2
<1>10. ASSUME NEW s \in Ses, LoggedOutMemoria(s) PROVE RelevoInv'
  <2>1. \A t \in Ses : meta'[t].num = meta[t].num /\ meta'[t].estado = meta[t].estado
    BY <1>10, LoggedOutMemoriaHace
  <2>2. gancho[s] = "asciende" /\ gancho' = [gancho EXCEPT ![s] = "hecho"]
    BY <1>10 DEF LoggedOutMemoria, CambiaGancho
  <2>3. UNCHANGED <<relevo, porRestaurar, creadas, par>>
    BY <1>10 DEF LoggedOutMemoria
  <2> QED
    BY <2>1, <2>2, <2>3, ZenonT(60)
<1>11. ASSUME NEW s \in Ses, RestoreUna(s) PROVE RelevoInv'
  <2>1. gancho[s] = "no" /\ fila[s].estado = "active"
    BY <1>11 DEF RestoreUna, RestauraInv
  <2>2. meta' = [meta EXCEPT ![s] = fila[s]] /\ porRestaurar' \subseteq porRestaurar
    BY <1>11 DEF RestoreUna
  <2>3. UNCHANGED <<gancho, relevo, creadas, par>>
    BY <1>11 DEF RestoreUna
  <2>4. \A t \in Ses : gancho[t] \in {"elige", "asciende"} => relevo[t] # s /\ t # s
    BY <1>11, <2>1 DEF RestoreUna
  <2> QED
    BY <2>1, <2>2, <2>3, <2>4
<1>12. ASSUME NEW p \in Peticiones, NEW s \in Ses, UnlinkSaca(p, s) PROVE RelevoInv'
  BY <1>12 DEF UnlinkSaca
<1>13. ~Rearranca
  BY DEF Rearranca
<1>14. CASE UNCHANGED <<meta, gancho, relevo, porRestaurar, creadas, par>>
  BY <1>14
<1> QED
  BY <1>1, <1>2, <1>3, <1>4, <1>5, <1>6, <1>7, <1>8, <1>9, <1>10, <1>11, <1>12, <1>13, <1>14,
     MarcoVale DEF Marco, TocaViva, TocaGanchos, TocaInicio, TocaPar

LEMMA UnTitularSeConserva ==
  ASSUME BaseInv, RelevoInv, UnTitular, PasoSereno
  PROVE  UnTitular'
<1> DEFINE Mengua == \A n \in Numeros, t \in Ses : EsTitular(n, t)' => EsTitular(n, t)
<1>1. Mengua => UnTitular'
  BY DEF UnTitular
<1> USE CotasAssumption
        DEF BaseInv, DominiosSes, PasoSereno, DomFilas, DomCreadas, DomHilos, Ganchos, Ses
<1>2. CASE PairEmpieza
  <2>1. creadas + 1 \notin porRestaurar /\ \A t \in Ses : t # creadas + 1 => fila'[t] = fila[t]
    BY <1>2 DEF PairEmpieza, Upsert
  <2>2. UNCHANGED <<viva, meta, gancho, porRestaurar>>
    BY <1>2 DEF PairEmpieza
  <2>3. Mengua
    BY <2>1, <2>2 DEF EsTitular
  <2> QED
    BY <1>1, <2>3
<1>3. CASE PairPersiste \/ PairLimpiaFila
  <2>1. porRestaurar = {}
    BY <1>3 DEF PairPersiste, PairLimpiaFila, RestauraInv
  <2>2. UNCHANGED <<viva, meta, gancho, porRestaurar>>
    BY <1>3 DEF PairPersiste, PairLimpiaFila
  <2>3. Mengua
    BY <2>1, <2>2 DEF EsTitular
  <2> QED
    BY <1>1, <2>3
<1>4. ASSUME NEW p \in Peticiones, UnlinkBorraFila(p) PROVE UnTitular'
  <2>1. porRestaurar = {}
    BY <1>4 DEF UnlinkBorraFila, RestauraInv
  <2>2. UNCHANGED <<viva, meta, gancho, porRestaurar>>
    BY <1>4 DEF UnlinkBorraFila
  <2>3. Mengua
    BY <2>1, <2>2 DEF EsTitular
  <2> QED
    BY <1>1, <2>3
<1>5. CASE PairSeRetira \/ \E p \in Peticiones, s \in Ses : UnlinkSaca(p, s)
  <2>1. viva' \subseteq viva /\ UNCHANGED <<fila, meta, gancho, porRestaurar>>
    BY <1>5 DEF PairSeRetira, UnlinkSaca, disco
  <2>2. Mengua
    BY <2>1 DEF EsTitular
  <2> QED
    BY <1>1, <2>2
<1>6. ASSUME NEW n \in Numeros, PairRegistra(n) PROVE UnTitular'
  <2>1. par.s \in Ses /\ par.s # 0 /\ par.s \notin viva /\ gancho[par.s] = "no" /\ porRestaurar = {}
    BY <1>6, ParActiva DEF PairRegistra, ParInv, RestauraInv, DomPar
  <2>2. /\ \A s \in Ses : s # par.s => meta'[s] = meta[s]
        /\ viva' \subseteq viva \cup {par.s}
        /\ par.s \in viva' => meta'[par.s].num = n /\ meta'[par.s].rol = RolNuevo(n)
    BY <1>6, <2>1, PairRegistraHace
  <2>3. UNCHANGED <<fila, gancho, porRestaurar>>
    BY <1>6 DEF PairRegistra, disco
  <2>4. PICK k \in Ses : k = par.s
    BY <2>1
  <2>5. \A m \in Numeros, t \in Ses : t # k /\ EsTitular(m, t)' => EsTitular(m, t)
    BY <2>1, <2>2, <2>3, <2>4 DEF EsTitular
  <2>6. \A m \in Numeros \ {n} : ~EsTitular(m, k)'
    BY <2>1, <2>2, <2>3, <2>4 DEF EsTitular
  <2>7. ASSUME EsTitular(n, k)', NEW t \in Ses PROVE ~EsTitular(n, t)
    <3>1. ~EnRelevo(n)
      BY <1>6 DEF PairRegistra
    <3>2. RolNuevo(n) = "primary"
      BY <2>1, <2>2, <2>3, <2>4, <2>7 DEF EsTitular
    <3>3. \A s \in Operativos(n) : meta[s].rol # "primary"
      BY <3>2 DEF RolNuevo
    <3>4. meta[t].num = n => gancho[t] \notin {"baja", "elige", "asciende"}
      BY <3>1 DEF EnRelevo
    <3> QED
      BY <2>1, <3>3, <3>4 DEF EsTitular, Operativos
  <2>8. ASSUME NEW m \in Numeros, NEW t \in Ses, NEW u \in Ses, EsTitular(m, t)', EsTitular(m, u)'
        PROVE  t = u
    <3>1. CASE m # n
      BY <2>5, <2>6, <2>8, <3>1 DEF UnTitular
    <3>2. CASE m = n /\ t # k /\ u # k
      BY <2>5, <2>8, <3>2 DEF UnTitular
    <3>3. CASE m = n /\ (t = k \/ u = k)
      BY <2>5, <2>7, <2>8, <3>3
    <3> QED
      BY <3>1, <3>2, <3>3
  <2> QED
    BY <2>8 DEF UnTitular
<1>7. ASSUME NEW s \in Ses, LoggedOutNube(s) PROVE UnTitular'
  <2>1. gancho[s] = "no" /\ gancho' = [gancho EXCEPT ![s] = "nube"]
    BY <1>7 DEF LoggedOutNube, CambiaGancho
  <2>2. UNCHANGED <<fila, viva, meta, porRestaurar>>
    BY <1>7 DEF LoggedOutNube, disco
  <2>3. Mengua
    BY <2>1, <2>2 DEF EsTitular
  <2> QED
    BY <1>1, <2>3
<1>8. ASSUME NEW s \in Ses, LoggedOutBaja(s) PROVE UnTitular'
  <2>1. gancho[s] = "nube" /\ gancho' = [gancho EXCEPT ![s] = "baja"]
    BY <1>8 DEF LoggedOutBaja, CambiaGancho
  <2>2. meta[s].estado # "loggedout" /\ s \notin porRestaurar
    BY <2>1 DEF RelevoInv, RestauraInv
  <2>3. /\ \A t \in Ses : t # s => meta'[t] = meta[t] /\ fila'[t] = fila[t]
        /\ meta'[s].num = meta[s].num /\ meta'[s].rol = meta[s].rol
    BY <1>8, LoggedOutBajaHace
  <2>4. UNCHANGED <<viva, porRestaurar>>
    BY <1>8 DEF LoggedOutBaja
  <2>5. Mengua
    BY <2>1, <2>2, <2>3, <2>4 DEF EsTitular
  <2> QED
    BY <1>1, <2>5
<1>9. ASSUME NEW s \in Ses, LoggedOutElige(s) PROVE UnTitular'
  <2>1. UNCHANGED <<fila, viva, meta, porRestaurar>>
    BY <1>9 DEF LoggedOutElige, disco
  <2>2. gancho[s] = "baja" /\ \/ gancho' = [gancho EXCEPT ![s] = "hecho"]
                              \/ /\ gancho' = [gancho EXCEPT ![s] = "elige"]
                                 /\ meta[s].rol # "standby"
    BY <1>9 DEF LoggedOutElige, CambiaGancho
  <2>3. gancho'[s] = "elige" => s \in viva /\ meta[s].rol = "primary"
    BY <1>9, <2>2 DEF LoggedOutElige, Filas
  <2>4. Mengua
    BY <2>1, <2>2, <2>3 DEF EsTitular
  <2> QED
    BY <1>1, <2>4
<1>10. ASSUME NEW s \in Ses, LoggedOutAsciende(s) PROVE UnTitular'
  <2>1. gancho[s] = "elige" /\ gancho' = [gancho EXCEPT ![s] = "asciende"]
    BY <1>10 DEF LoggedOutAsciende, CambiaGancho, Falla
  <2>2. relevo[s] \notin porRestaurar /\ \A t \in Ses : t # relevo[s] => fila'[t] = fila[t]
    BY <1>10, <2>1, LoggedOutAsciendeHace DEF RelevoInv
  <2>3. UNCHANGED <<viva, meta, porRestaurar>>
    BY <1>10 DEF LoggedOutAsciende
  <2>4. Mengua
    BY <2>1, <2>2, <2>3 DEF EsTitular
  <2> QED
    BY <1>1, <2>4
<1>11. ASSUME NEW s \in Ses, LoggedOutMemoria(s) PROVE UnTitular'
  <2>1. gancho[s] = "asciende" /\ gancho' = [gancho EXCEPT ![s] = "hecho"]
    BY <1>11 DEF LoggedOutMemoria, CambiaGancho
  <2>2. PICK k \in Ses : k = relevo[s]
    BY <1>11, LoggedOutMemoriaHace
  <2>3. /\ \A t \in Ses : t # k => meta'[t] = meta[t]
        /\ meta'[k].num = meta[k].num /\ meta'[k].estado = meta[k].estado
    BY <1>11, <2>2, LoggedOutMemoriaHace
  <2>4. UNCHANGED <<fila, viva, porRestaurar>>
    BY <1>11 DEF LoggedOutMemoria, disco
  <2>5. meta[s].estado = "loggedout" /\ k # s /\ k \notin porRestaurar /\ meta[k].num = meta[s].num
    BY <2>1, <2>2 DEF RelevoInv
  <2>6. s \notin porRestaurar
    BY <2>1 DEF RestauraInv
  <2>7. \A m \in Numeros, t \in Ses : t # k /\ EsTitular(m, t)' => EsTitular(m, t) /\ t # s
    BY <2>1, <2>3, <2>4, <2>5, <2>6 DEF EsTitular
  <2>8. \A m \in Numeros : EsTitular(m, k)' => EsTitular(m, k) \/ m = meta[s].num
    BY <2>1, <2>3, <2>4, <2>5 DEF EsTitular
  <2>9. \A m \in Numeros : m = meta[s].num => EsTitular(m, s)
    BY <2>1 DEF EsTitular
  <2>10. ASSUME NEW m \in Numeros, NEW t \in Ses, NEW u \in Ses, EsTitular(m, t)', EsTitular(m, u)'
         PROVE  t = u
    <3>1. CASE m = meta[s].num
      BY <2>7, <2>9, <2>10, <3>1 DEF UnTitular
    <3>2. CASE m # meta[s].num
      BY <2>7, <2>8, <2>10, <3>2 DEF UnTitular
    <3> QED
      BY <3>1, <3>2
  <2> QED
    BY <2>10 DEF UnTitular
<1>12. ASSUME NEW s \in Ses, RestoreUna(s) PROVE UnTitular'
  <2>1. gancho[s] = "no" /\ s \in porRestaurar /\ s \notin viva
    BY <1>12 DEF RestoreUna, RestauraInv
  <2>2. meta' = [meta EXCEPT ![s] = fila[s]] /\ porRestaurar' = porRestaurar \ {s} /\ viva' = viva \cup {s}
    BY <1>12 DEF RestoreUna
  <2>3. UNCHANGED <<fila, gancho>>
    BY <1>12 DEF RestoreUna, disco
  <2>4. Mengua
    BY <2>1, <2>2, <2>3 DEF EsTitular
  <2> QED
    BY <1>1, <2>4
<1>13. ~Rearranca
  BY DEF Rearranca
<1>14. CASE UNCHANGED <<fila, viva, meta, gancho, porRestaurar>>
  BY <1>1, <1>14 DEF EsTitular
<1> QED
  BY <1>2, <1>3, <1>4, <1>5, <1>6, <1>7, <1>8, <1>9, <1>10, <1>11, <1>12, <1>13, <1>14,
     MarcoVale DEF Marco, TocaFilas, TocaViva, TocaGanchos, TocaInicio

\* The larger of two bounds.
LEMMA MaximoDeDos ==
  ASSUME NEW a \in Nat, NEW b \in Nat
  PROVE  Max({a, b}) \in Nat /\ a <= Max({a, b}) /\ b <= Max({a, b})
<1>1. \E x \in {a, b} : \A y \in {a, b} : x >= y
  BY a <= b \/ b <= a
<1> QED
  BY <1>1 DEF Max

LEMMA TopeDeCupo ==
  Max({Cupo, Previas}) \in Nat /\ Cupo <= Max({Cupo, Previas}) /\ Previas <= Max({Cupo, Previas})
<1>1. Cupo \in Nat /\ Previas \in Nat
  BY CotasAssumption
<1> QED
  BY <1>1, MaximoDeDos

LEMMA SesFinito == IsFiniteSet(Ses)
<1>1. MaxSes \in Nat
  BY CotasAssumption
<1> QED
  BY <1>1, FS_Interval DEF Ses

LEMMA CupoInvSeConserva ==
  ASSUME BaseInv, CupoInv, PasoSereno
  PROVE  CupoInv'
<1> DEFINE Mengua == \A n \in Numeros, t \in Ses : Ocupa(n, t)' => Ocupa(n, t)
<1> IsFiniteSet(Ses)
  BY SesFinito
<1>a. ASSUME NEW n \in Numeros
      PROVE  /\ IsFiniteSet(Ocupan(n)) /\ Cardinality(Ocupan(n)) \in Nat
             /\ Cardinality(Ocupan(n)) <= Max({Cupo, Previas})
  <2>1. Ocupan(n) \subseteq Ses
    BY DEF Ocupan
  <2> QED
    BY <2>1, FS_Subset, FS_CardinalityType DEF CupoInv
<1> DEFINE Cabe(n) == Cardinality(Ocupan(n)') <= Max({Cupo, Previas})
<1>b. ASSUME NEW n \in Numeros, Ocupan(n)' \subseteq Ocupan(n) PROVE Cabe(n)
  <2>1. Cardinality(Ocupan(n)') \in Nat /\ Cardinality(Ocupan(n)') <= Cardinality(Ocupan(n))
    BY <1>a, <1>b, FS_Subset, FS_CardinalityType
  <2> QED
    BY <1>a, <2>1, TopeDeCupo
<1>c. ASSUME NEW n \in Numeros, NEW k, Ocupan(n)' \subseteq Ocupan(n) \cup {k},
              Cardinality(Ocupan(n)) < Cupo
       PROVE  Cabe(n)
  <2>1. /\ IsFiniteSet(Ocupan(n) \cup {k})
        /\ \/ Cardinality(Ocupan(n) \cup {k}) = Cardinality(Ocupan(n))
           \/ Cardinality(Ocupan(n) \cup {k}) = Cardinality(Ocupan(n)) + 1
    BY <1>a, FS_AddElement
  <2>2. Cupo \in Nat
    BY CotasAssumption
  <2>3. Cardinality(Ocupan(n) \cup {k}) <= Cupo /\ Cardinality(Ocupan(n) \cup {k}) \in Nat
    BY <1>a, <1>c, <2>1, <2>2
  <2>4. /\ Cardinality(Ocupan(n)') \in Nat
        /\ Cardinality(Ocupan(n)') <= Cardinality(Ocupan(n) \cup {k})
    BY <1>c, <2>1, FS_Subset, FS_CardinalityType
  <2> QED
    BY <2>2, <2>3, <2>4, TopeDeCupo
<1>1. Mengua => CupoInv'
  <2>1. ASSUME Mengua, NEW n \in Numeros PROVE Ocupan(n)' \subseteq Ocupan(n)
    BY <2>1 DEF Ocupan
  <2> QED
    BY <1>b, <2>1 DEF CupoInv
<1> USE CotasAssumption DEF BaseInv, DominiosSes, PasoSereno, DomFilas, DomCreadas, DomHilos, Ses
<1>2. CASE PairEmpieza
  <2>1. creadas + 1 \notin porRestaurar /\ \A t \in Ses : t # creadas + 1 => fila'[t] = fila[t]
    BY <1>2 DEF PairEmpieza, Upsert
  <2>2. UNCHANGED <<viva, meta, porRestaurar>>
    BY <1>2 DEF PairEmpieza
  <2>3. Mengua
    BY <2>1, <2>2 DEF Ocupa
  <2> QED
    BY <1>1, <2>3
<1>3. CASE PairPersiste \/ PairLimpiaFila \/ \E p \in Peticiones : UnlinkBorraFila(p)
  <2>1. porRestaurar = {}
    BY <1>3 DEF PairPersiste, PairLimpiaFila, UnlinkBorraFila, RestauraInv
  <2>2. UNCHANGED <<viva, meta, porRestaurar>>
    BY <1>3 DEF PairPersiste, PairLimpiaFila, UnlinkBorraFila
  <2>3. Mengua
    BY <2>1, <2>2 DEF Ocupa
  <2> QED
    BY <1>1, <2>3
<1>4. CASE PairSeRetira \/ \E p \in Peticiones, s \in Ses : UnlinkSaca(p, s)
  <2>1. viva' \subseteq viva /\ UNCHANGED <<fila, meta, porRestaurar>>
    BY <1>4 DEF PairSeRetira, UnlinkSaca, disco
  <2>2. Mengua
    BY <2>1 DEF Ocupa
  <2> QED
    BY <1>1, <2>2
<1>5. ASSUME NEW n \in Numeros, PairRegistra(n) PROVE CupoInv'
  <2>1. PICK k \in Ses : k = par.s
    BY <1>5, ParActiva DEF PairRegistra
  <2>2. k # 0 /\ k \notin viva /\ porRestaurar = {}
    BY <1>5, <2>1, ParActiva DEF PairRegistra, ParInv, RestauraInv, DomPar
  <2>3. UNCHANGED <<fila, porRestaurar>>
    BY <1>5 DEF PairRegistra, disco
  <2>4. CASE SinSitio(n)
    <3>1. UNCHANGED <<viva, meta>>
      BY <1>5, <2>1, <2>4, PairRegistraHace
    <3>2. Mengua
      BY <2>3, <3>1 DEF Ocupa
    <3> QED
      BY <1>1, <3>2
  <2>5. CASE ~SinSitio(n)
    <3>1. /\ \A s \in Ses : s # k => meta'[s] = meta[s]
          /\ viva' = viva \cup {k} /\ meta'[k].num = n
      BY <1>5, <2>1, <2>5, PairRegistraHace
    <3>2. \A m \in Numeros, t \in Ses : t # k /\ Ocupa(m, t)' => Ocupa(m, t)
      BY <2>2, <2>3, <3>1 DEF Ocupa
    <3>3. \A m \in Numeros : m # n => ~Ocupa(m, k)'
      BY <2>2, <2>3, <3>1 DEF Ocupa
    <3>4. Ocupan(n) = Operativos(n)
      <4>1. \A t \in Ses : Ocupa(n, t) <=> t \in Operativos(n)
        BY <2>2 DEF Ocupa, Operativos
      <4>2. Operativos(n) \subseteq viva /\ viva \subseteq Ses
        BY DEF Operativos
      <4> QED
        BY <4>1, <4>2 DEF Ocupan
    <3>5. Cardinality(Ocupan(n)) < Cupo
      BY <1>a, <2>5, <3>4 DEF SinSitio
    <3>6. Ocupan(n)' \subseteq Ocupan(n) \cup {k}
      BY <3>2 DEF Ocupan
    <3>7. Cabe(n)
      BY <1>c, <3>5, <3>6
    <3>8. ASSUME NEW m \in Numeros, m # n PROVE Cabe(m)
      <4>1. Ocupan(m)' \subseteq Ocupan(m)
        BY <3>2, <3>3, <3>8 DEF Ocupan
      <4> QED
        BY <1>b, <4>1
    <3> QED
      BY <3>7, <3>8 DEF CupoInv
  <2> QED
    BY <2>4, <2>5
<1>6. ASSUME NEW s \in Ses, LoggedOutBaja(s) PROVE CupoInv'
  <2>1. s \notin porRestaurar
    BY <1>6 DEF LoggedOutBaja, CambiaGancho, RestauraInv
  <2>2. /\ \A t \in Ses : t # s => meta'[t] = meta[t] /\ fila'[t] = fila[t]
        /\ meta'[s].estado = "loggedout"
    BY <1>6, LoggedOutBajaHace
  <2>3. UNCHANGED <<viva, porRestaurar>>
    BY <1>6 DEF LoggedOutBaja
  <2>4. Mengua
    BY <2>1, <2>2, <2>3 DEF Ocupa
  <2> QED
    BY <1>1, <2>4
<1>7. ASSUME NEW s \in Ses, LoggedOutAsciende(s) PROVE CupoInv'
  <2>1. \A t \in Ses : fila'[t].num = fila[t].num
    BY <1>7, LoggedOutAsciendeHace
  <2>2. UNCHANGED <<viva, meta, porRestaurar>>
    BY <1>7 DEF LoggedOutAsciende
  <2>3. Mengua
    BY <2>1, <2>2 DEF Ocupa
  <2> QED
    BY <1>1, <2>3
<1>8. ASSUME NEW s \in Ses, LoggedOutMemoria(s) PROVE CupoInv'
  <2>1. \A t \in Ses : meta'[t].num = meta[t].num /\ meta'[t].estado = meta[t].estado
    BY <1>8, LoggedOutMemoriaHace
  <2>2. UNCHANGED <<fila, viva, porRestaurar>>
    BY <1>8 DEF LoggedOutMemoria, disco
  <2>3. Mengua
    BY <2>1, <2>2 DEF Ocupa
  <2> QED
    BY <1>1, <2>3
<1>9. ASSUME NEW s \in Ses, RestoreUna(s) PROVE CupoInv'
  <2>1. s \in porRestaurar /\ s \notin viva
    BY <1>9 DEF RestoreUna, RestauraInv
  <2>2. meta' = [meta EXCEPT ![s] = fila[s]] /\ porRestaurar' = porRestaurar \ {s} /\ viva' = viva \cup {s}
    BY <1>9 DEF RestoreUna
  <2>3. UNCHANGED fila
    BY <1>9 DEF RestoreUna, disco
  <2>4. Mengua
    BY <2>1, <2>2, <2>3 DEF Ocupa
  <2> QED
    BY <1>1, <2>4
<1>10. ~Rearranca
  BY DEF Rearranca
<1>11. CASE UNCHANGED <<fila, viva, meta, porRestaurar>>
  BY <1>1, <1>11 DEF Ocupa
<1> QED
  BY <1>2, <1>3, <1>4, <1>5, <1>6, <1>7, <1>8, <1>9, <1>10, <1>11,
     MarcoVale DEF Marco, TocaFilas, TocaViva, TocaInicio

LEMMA ParFielInvSeConserva ==
  ASSUME BaseInv, BajaInv, RelevoInv, ParFielInv, PasoSereno
  PROVE  ParFielInv'
<1> USE CotasAssumption
        DEF BaseInv, DominiosSes, PasoSereno, ParFielInv, DomFilas, DomCreadas, DomHilos, Ses
<1>1. CASE PairEmpieza
  <2>1. par'.paso \in {"qr", "restos"}
    BY <1>1, ParDeEs DEF PairEmpieza, PasosPar
  <2> QED
    BY <2>1
<1>2. CASE PairFalla \/ PairGuarda \/ PairSeRetira \/ PairLimpia
  <2>1. par'.paso \in {"restos", "guardado", "fila"}
    BY <1>2, ParEnHace, ParSobraHace
    DEF PairFalla, PairGuarda, PairLimpia, PairSeRetira, DomPar, PasosPar
  <2> QED
    BY <2>1
<1>3. CASE PairArma \/ PairLimpiaFila \/ Rearranca
  <2>1. par'.paso = "libre"
    BY <1>3, ParDeEs DEF PairArma, PairLimpiaFila, Rearranca, SinPar, PasosPar
  <2> QED
    BY <2>1
<1>4. ASSUME NEW n \in Numeros, PairRegistra(n) PROVE ParFielInv'
  <2>1. par.s \in Ses
    BY <1>4, ParActiva DEF PairRegistra
  <2>2. /\ par'.paso # "persistida" /\ par'.s = par.s
        /\ par'.paso = "registrada" => meta'[par.s].rol = par'.rol
    BY <1>4, <2>1, PairRegistraHace
  <2> QED
    BY <2>2
<1>5. CASE PairPersiste
  <2>1. par.s \in Ses /\ par.paso = "registrada"
    BY <1>5, ParActiva DEF PairPersiste
  <2>2. /\ par'.s = par.s /\ par'.rol = par.rol /\ fila'[par.s].rol = par.rol
        /\ fila'[par.s].estado = "active"
    BY <1>5, <2>1, PairPersisteHace
  <2>3. meta' = meta
    BY <1>5 DEF PairPersiste
  <2> QED
    BY <2>1, <2>2, <2>3, NadaEs
<1> DEFINE Escrita == par.paso \in {"registrada", "persistida"}
<1>6. Escrita => par.s \in Ses /\ par.s # 0
  BY ParActiva DEF DomPar
<1>7. ASSUME NEW p \in Peticiones, UnlinkBorraFila(p) PROVE ParFielInv'
  <2>1. borra[p].s \in Ses /\ borra[p].s # 0
    BY <1>7, BajaActiva DEF UnlinkBorraFila, DomBorra
  <2>2. \A t \in Ses : t # borra[p].s => fila'[t] = fila[t]
    BY <1>7, <2>1 DEF UnlinkBorraFila, Quita, BorraFila, QuitaFila, disco
  <2>3. borra[p].s \in cruzadas \/ par.s # borra[p].s
    BY <2>1 DEF BajaInv
  <2>4. UNCHANGED <<par, meta, cruzadas>>
    BY <1>7 DEF UnlinkBorraFila
  <2> QED
    BY <1>6, <2>2, <2>3, <2>4
<1>8. ASSUME NEW p \in Peticiones, NEW s \in Ses, UnlinkSaca(p, s) PROVE ParFielInv'
  <2>1. cruzadas \subseteq cruzadas' /\ UNCHANGED <<fila, par, meta>>
    BY <1>8 DEF UnlinkSaca, disco
  <2> QED
    BY <2>1
<1>9. ASSUME NEW p \in Peticiones, UnlinkUne(p) PROVE ParFielInv'
  <2>1. cruzadas \subseteq cruzadas' /\ UNCHANGED <<fila, par, meta>>
    BY <1>9 DEF UnlinkUne, disco
  <2> QED
    BY <2>1
<1>10. ASSUME NEW s \in Ses, LoggedOutBaja(s) PROVE ParFielInv'
  <2>1. \A t \in Ses : t # s => fila'[t] = fila[t] /\ meta'[t] = meta[t]
    BY <1>10, LoggedOutBajaHace
  <2>2. Escrita => par.s # s
    BY <1>6, <1>10 DEF LoggedOutBaja, CambiaGancho, ParInv
  <2>3. UNCHANGED <<par, cruzadas>>
    BY <1>10 DEF LoggedOutBaja, historia
  <2> QED
    BY <1>6, <2>1, <2>2, <2>3
<1>11. ASSUME NEW s \in Ses, LoggedOutAsciende(s) PROVE ParFielInv'
  <2>1. relevo[s] # par.s
    BY <1>11 DEF LoggedOutAsciende, CambiaGancho, RelevoInv
  <2>2. \A t \in Ses : t # relevo[s] => fila'[t] = fila[t]
    BY <1>11, LoggedOutAsciendeHace
  <2>3. UNCHANGED <<par, meta, cruzadas>>
    BY <1>11 DEF LoggedOutAsciende, historia
  <2> QED
    BY <1>6, <2>1, <2>2, <2>3
<1>12. ASSUME NEW s \in Ses, LoggedOutMemoria(s) PROVE ParFielInv'
  <2>1. relevo[s] # par.s
    BY <1>12 DEF LoggedOutMemoria, CambiaGancho, RelevoInv
  <2>2. \A t \in Ses : t # relevo[s] => meta'[t] = meta[t]
    BY <1>12, LoggedOutMemoriaHace
  <2>3. UNCHANGED <<par, fila, cruzadas>>
    BY <1>12 DEF LoggedOutMemoria, historia, disco
  <2> QED
    BY <1>6, <2>1, <2>2, <2>3
<1>13. ASSUME NEW s \in Ses, RestoreUna(s) PROVE ParFielInv'
  <2>1. par.paso = "libre" /\ par' = par
    BY <1>13 DEF RestoreUna, RestauraInv
  <2> QED
    BY <2>1
<1>14. CASE UNCHANGED <<fila, meta, par, cruzadas>>
  BY <1>14
<1> QED
  BY <1>1, <1>2, <1>3, <1>4, <1>5, <1>7, <1>8, <1>9, <1>10, <1>11, <1>12, <1>13, <1>14,
     MarcoVale DEF Marco, TocaFilas, TocaViva, TocaPar, TocaHistoria

\* A step that leaves what is firm as it was, or makes less of it firm.
LEMMA FielSiMengua ==
  ASSUME FielInv,
         \A t \in Ses : Firme(t)' => /\ Firme(t) /\ fila'[t] = fila[t] /\ meta'[t] = meta[t]
                                     /\ (Asciende(t)' <=> Asciende(t))
  PROVE  FielInv'
<1> SUFFICES ASSUME NEW t \in Ses, Firme(t)' PROVE fila'[t] # Nada /\ RolFiel(t)'
  BY DEF FielInv
<1>1. Firme(t) /\ fila'[t] = fila[t] /\ meta'[t] = meta[t] /\ (Asciende(t)' <=> Asciende(t))
  OBVIOUS
<1>2. fila[t] # Nada /\ RolFiel(t)
  BY <1>1 DEF FielInv
<1> QED
  BY <1>1, <1>2 DEF RolFiel

LEMMA FielInvSeConserva ==
  ASSUME BaseInv, BajaInv, RelevoInv, ParFielInv, FielInv, PasoSereno
  PROVE  FielInv'
<1> USE CotasAssumption DEF BaseInv, DominiosSes, PasoSereno, DomFilas, DomCreadas, DomHilos, Ses
<1>1. CASE PairEmpieza
  <2>1. PICK k \in Ses : k = creadas + 1
    BY <1>1 DEF PairEmpieza
  <2>2. k \notin viva /\ \A t \in Ses : t # k => fila'[t] = fila[t]
    BY <1>1, <2>1 DEF PairEmpieza, Upsert
  <2>3. UNCHANGED <<viva, meta, gancho, relevo, cruzadas>> /\ par.paso = "libre"
    BY <1>1 DEF PairEmpieza, historia
  <2>4. \A t \in Ses : Firme(t)' => Firme(t) /\ t # k
    BY <2>2, <2>3 DEF Firme, PairEnVuelo
  <2> QED
    BY <2>2, <2>3, <2>4, FielSiMengua DEF Asciende
<1>2. CASE PairFalla \/ PairGuarda \/ PairLimpia
  <2>1. par.paso \in {"qr", "guardado", "restos"}
    BY <1>2 DEF PairFalla, PairGuarda, PairLimpia
  <2>2. UNCHANGED <<fila, viva, meta, gancho, relevo, cruzadas>>
    BY <1>2 DEF PairFalla, PairGuarda, PairLimpia, BorraRestos, historia, disco
  <2>3. \A t \in Ses : Firme(t)' => Firme(t)
    BY <2>1, <2>2 DEF Firme, PairEnVuelo
  <2> QED
    BY <2>2, <2>3, FielSiMengua DEF Asciende
<1>3. CASE PairSeRetira
  <2>1. viva' = viva \ {par.s} /\ UNCHANGED <<fila, meta, gancho, relevo, cruzadas>>
    BY <1>3 DEF PairSeRetira, historia, disco
  <2>2. \A t \in Ses : Firme(t)' => Firme(t)
    BY <2>1 DEF Firme, PairEnVuelo
  <2> QED
    BY <2>1, <2>2, FielSiMengua DEF Asciende
<1>4. ASSUME NEW n \in Numeros, PairRegistra(n) PROVE FielInv'
  <2>1. PICK k \in Ses : k = par.s
    BY <1>4, ParActiva DEF PairRegistra
  <2>2. /\ \A t \in Ses : t # k => meta'[t] = meta[t]
        /\ viva' = viva \/ (viva' = viva \cup {k} /\ par'.paso = "registrada")
        /\ par'.s = k
    BY <1>4, <2>1, PairRegistraHace
  <2>3. UNCHANGED <<fila, gancho, relevo, cruzadas>> /\ par.paso = "guardado" /\ k \notin viva
    BY <1>4, <2>1, ParActiva DEF PairRegistra, disco, ParInv, DomPar
  <2>4. \A t \in Ses : Firme(t)' => Firme(t) /\ t # k
    BY <2>1, <2>2, <2>3 DEF Firme, PairEnVuelo
  <2> QED
    BY <2>2, <2>3, <2>4, FielSiMengua DEF Asciende
<1>5. CASE PairPersiste
  <2>1. PICK k \in Ses : k = par.s
    BY <1>5, ParActiva DEF PairPersiste
  <2>2. /\ \A t \in Ses : t # k => fila'[t] = fila[t]
        /\ par'.s = k /\ par'.paso \in {"persistida", "fuera"}
    BY <1>5, <2>1, PairPersisteHace
  <2>3. UNCHANGED <<viva, meta, gancho, relevo, cruzadas>>
    BY <1>5 DEF PairPersiste, historia
  <2>4. \A t \in Ses : Firme(t)' => Firme(t) /\ t # k
    BY <2>1, <2>2, <2>3 DEF Firme, PairEnVuelo
  <2> QED
    BY <2>2, <2>3, <2>4, FielSiMengua DEF Asciende
<1>6. CASE PairArma
  <2>1. PICK k \in Ses : k = par.s
    BY <1>6, ParActiva DEF PairArma
  <2>2. par.paso = "persistida" /\ UNCHANGED <<fila, viva, meta, gancho, relevo, cruzadas>>
    BY <1>6 DEF PairArma, historia, disco
  <2>3. \A t \in Ses : t # k /\ Firme(t)' => Firme(t)
    BY <2>1, <2>2 DEF Firme, PairEnVuelo
  <2>4. k \notin cruzadas => fila[k] # Nada /\ fila[k].rol = meta[k].rol
    BY <2>1, <2>2 DEF ParFielInv
  <2>5. ~Asciende(k)
    BY <2>1 DEF Asciende, RelevoInv
  <2>6. ASSUME NEW t \in Ses, Firme(t)' PROVE fila'[t] # Nada /\ RolFiel(t)'
    <3>1. CASE t = k
      BY <2>2, <2>4, <2>5, <2>6, <3>1 DEF Firme, RolFiel, Asciende
    <3>2. CASE t # k
      BY <2>2, <2>3, <2>6, <3>2 DEF FielInv, RolFiel, Asciende
    <3> QED
      BY <3>1, <3>2
  <2> QED
    BY <2>6 DEF FielInv
<1>7. CASE PairLimpiaFila
  <2>1. PICK k \in Ses : k = par.s
    BY <1>7, ParActiva DEF PairLimpiaFila
  <2>2. k \notin viva /\ par.paso = "fila"
    BY <1>7, <2>1, ParActiva DEF PairLimpiaFila, ParInv, DomPar
  <2>3. \A t \in Ses : t # k => fila'[t] = fila[t]
    BY <1>7, <2>1 DEF PairLimpiaFila, BorraFila, QuitaFila, disco
  <2>4. UNCHANGED <<viva, meta, gancho, relevo, cruzadas>>
    BY <1>7 DEF PairLimpiaFila, historia
  <2>5. \A t \in Ses : Firme(t)' => Firme(t) /\ t # k
    BY <2>2, <2>4 DEF Firme, PairEnVuelo
  <2> QED
    BY <2>3, <2>4, <2>5, FielSiMengua DEF Asciende
<1>8. ASSUME NEW p \in Peticiones, NEW s \in Ses, UnlinkSaca(p, s) PROVE FielInv'
  <2>1. /\ viva' \subseteq viva /\ cruzadas \subseteq cruzadas'
        /\ UNCHANGED <<fila, par, meta, gancho, relevo>>
    BY <1>8 DEF UnlinkSaca, disco
  <2>2. \A t \in Ses : Firme(t)' => Firme(t)
    BY <2>1 DEF Firme, PairEnVuelo
  <2> QED
    BY <2>1, <2>2, FielSiMengua DEF Asciende
<1>9. ASSUME NEW p \in Peticiones, UnlinkUne(p) PROVE FielInv'
  <2>1. cruzadas \subseteq cruzadas' /\ UNCHANGED <<fila, viva, par, meta, gancho, relevo>>
    BY <1>9 DEF UnlinkUne, disco
  <2>2. \A t \in Ses : Firme(t)' => Firme(t)
    BY <2>1 DEF Firme, PairEnVuelo
  <2> QED
    BY <2>1, <2>2, FielSiMengua DEF Asciende
<1>10. ASSUME NEW p \in Peticiones, UnlinkBorraFila(p) PROVE FielInv'
  <2>1. PICK k \in Ses : k = borra[p].s
    BY <1>10, BajaActiva DEF UnlinkBorraFila
  <2>2. k \in cruzadas \/ k \notin viva
    BY <1>10, <2>1 DEF BajaInv, UnlinkBorraFila, DomBorra
  <2>3. \A t \in Ses : t # k => fila'[t] = fila[t]
    BY <1>10, <2>1 DEF UnlinkBorraFila, Quita, BorraFila, QuitaFila, disco
  <2>4. UNCHANGED <<viva, meta, gancho, relevo, par, cruzadas>>
    BY <1>10 DEF UnlinkBorraFila
  <2>5. \A t \in Ses : Firme(t)' => Firme(t) /\ t # k
    BY <2>2, <2>4 DEF Firme, PairEnVuelo
  <2> QED
    BY <2>3, <2>4, <2>5, FielSiMengua DEF Asciende
<1>11. ASSUME NEW s \in Ses, LoggedOutNube(s) PROVE FielInv'
  <2>1. gancho[s] = "no" /\ gancho' = [gancho EXCEPT ![s] = "nube"]
    BY <1>11 DEF LoggedOutNube, CambiaGancho
  <2>2. UNCHANGED <<fila, viva, meta, relevo, par, cruzadas>>
    BY <1>11 DEF LoggedOutNube, disco, historia
  <2>3. \A t \in Ses : Firme(t)' => Firme(t)
    BY <2>2 DEF Firme, PairEnVuelo
  <2>4. \A t \in Ses : Asciende(t)' <=> Asciende(t)
    BY <2>1, <2>2 DEF Asciende
  <2> QED
    BY <2>2, <2>3, <2>4, FielSiMengua
<1>12. ASSUME NEW s \in Ses, LoggedOutBaja(s) PROVE FielInv'
  <2>1. gancho[s] = "nube" /\ gancho' = [gancho EXCEPT ![s] = "baja"]
    BY <1>12 DEF LoggedOutBaja, CambiaGancho
  <2>2. UNCHANGED <<viva, relevo, par, cruzadas>>
    BY <1>12 DEF LoggedOutBaja, historia
  <2>3. /\ \A t \in Ses : t # s => fila'[t] = fila[t] /\ meta'[t] = meta[t]
        /\ fila'[s].estado = "loggedout" /\ meta'[s].estado = "loggedout"
    BY <1>12, LoggedOutBajaHace
  <2>4. \A t \in Ses : Firme(t)' => Firme(t)
    BY <2>2 DEF Firme, PairEnVuelo
  <2>5. \A t \in Ses : Asciende(t)' <=> Asciende(t)
    BY <2>1, <2>2 DEF Asciende
  <2>6. ASSUME NEW t \in Ses, Firme(t)' PROVE fila'[t] # Nada /\ RolFiel(t)'
    <3>1. CASE t = s
      BY <2>3, <3>1, NadaEs DEF RolFiel
    <3>2. CASE t # s
      BY <2>3, <2>4, <2>5, <2>6, <3>2 DEF FielInv, RolFiel
    <3> QED
      BY <3>1, <3>2
  <2> QED
    BY <2>6 DEF FielInv
<1>13. ASSUME NEW s \in Ses, LoggedOutElige(s) PROVE FielInv'
  <2>1. /\ gancho[s] = "baja" /\ gancho'[s] # "asciende"
        /\ \A u \in Ses : u # s => gancho'[u] = gancho[u] /\ relevo'[u] = relevo[u]
    BY <1>13 DEF LoggedOutElige, CambiaGancho
  <2>2. UNCHANGED <<fila, viva, meta, par, cruzadas>>
    BY <1>13 DEF LoggedOutElige, disco
  <2>3. \A t \in Ses : Firme(t)' => Firme(t)
    BY <2>2 DEF Firme, PairEnVuelo
  <2>4. \A t \in Ses : Asciende(t)' <=> Asciende(t)
    BY <2>1 DEF Asciende
  <2> QED
    BY <2>2, <2>3, <2>4, FielSiMengua
<1>14. ASSUME NEW s \in Ses, LoggedOutAsciende(s) PROVE FielInv'
  <2>1. PICK k \in Ses : k = relevo[s]
    BY <1>14, LoggedOutAsciendeHace
  <2>2. /\ \A t \in Ses : t # k => fila'[t] = fila[t]
        /\ fila'[k].estado = fila[k].estado
        /\ fila[k] # Nada => fila'[k].rol = "primary"
    BY <1>14, <2>1, LoggedOutAsciendeHace
  <2>3. gancho[s] = "elige" /\ gancho' = [gancho EXCEPT ![s] = "asciende"]
    BY <1>14 DEF LoggedOutAsciende, CambiaGancho, Falla
  <2>4. UNCHANGED <<viva, meta, relevo, par, cruzadas>>
    BY <1>14 DEF LoggedOutAsciende, historia
  <2>5. \A t \in Ses : Firme(t)' => Firme(t)
    BY <2>4 DEF Firme, PairEnVuelo
  <2>6. Asciende(k)' /\ \A t \in Ses : t # k => (Asciende(t)' <=> Asciende(t))
    BY <2>1, <2>3, <2>4 DEF Asciende
  <2>7. fila[k] # Nada => fila'[k] # Nada
    BY <2>2, NadaEs DEF FilasInv
  <2>8. ASSUME NEW t \in Ses, Firme(t)' PROVE fila'[t] # Nada /\ RolFiel(t)'
    <3>1. Firme(t) /\ fila[t] # Nada /\ RolFiel(t)
      BY <2>5, <2>8 DEF FielInv
    <3>2. CASE t = k
      BY <2>2, <2>6, <2>7, <3>1, <3>2 DEF RolFiel
    <3>3. CASE t # k
      BY <2>2, <2>4, <2>6, <3>1, <3>3 DEF RolFiel
    <3> QED
      BY <3>2, <3>3
  <2> QED
    BY <2>8 DEF FielInv
<1>15. ASSUME NEW s \in Ses, LoggedOutMemoria(s) PROVE FielInv'
  <2>1. PICK k \in Ses : k = relevo[s]
    BY <1>15, LoggedOutMemoriaHace
  <2>2. /\ \A t \in Ses : t # k => meta'[t] = meta[t]
        /\ meta'[k].estado = meta[k].estado /\ meta'[k].rol = "primary"
    BY <1>15, <2>1, LoggedOutMemoriaHace
  <2>3. gancho[s] = "asciende" /\ gancho' = [gancho EXCEPT ![s] = "hecho"]
    BY <1>15 DEF LoggedOutMemoria, CambiaGancho
  <2>4. UNCHANGED <<fila, viva, relevo, par, cruzadas>>
    BY <1>15 DEF LoggedOutMemoria, disco, historia
  <2>5. \A t \in Ses : Firme(t)' => Firme(t)
    BY <2>4 DEF Firme, PairEnVuelo
  <2>6. Asciende(k) /\ \A t \in Ses : t # k => (Asciende(t)' <=> Asciende(t))
    BY <2>1, <2>3, <2>4 DEF Asciende
  <2>7. ASSUME NEW t \in Ses, Firme(t)' PROVE fila'[t] # Nada /\ RolFiel(t)'
    <3>1. Firme(t) /\ fila[t] # Nada /\ RolFiel(t)
      BY <2>5, <2>7 DEF FielInv
    <3>2. CASE t = k
      BY <2>2, <2>4, <2>6, <3>1, <3>2 DEF RolFiel
    <3>3. CASE t # k
      BY <2>2, <2>4, <2>6, <3>1, <3>3 DEF RolFiel
    <3> QED
      BY <3>2, <3>3
  <2> QED
    BY <2>7 DEF FielInv
<1>16. ASSUME NEW s \in Ses, RestoreUna(s) PROVE FielInv'
  <2>1. s \in porRestaurar /\ fila[s].estado = "active"
    BY <1>16 DEF RestoreUna, RestauraInv
  <2>2. /\ meta' = [meta EXCEPT ![s] = fila[s]] /\ viva' = viva \cup {s}
        /\ UNCHANGED <<fila, gancho, relevo, par, cruzadas>>
    BY <1>16 DEF RestoreUna, disco, historia
  <2>3. ~Asciende(s)
    BY <2>1 DEF Asciende, RelevoInv
  <2>4. \A t \in Ses : t # s /\ Firme(t)' => Firme(t)
    BY <2>2 DEF Firme, PairEnVuelo
  <2>5. ASSUME NEW t \in Ses, Firme(t)' PROVE fila'[t] # Nada /\ RolFiel(t)'
    <3>1. CASE t = s
      BY <2>1, <2>2, <2>3, <3>1, NadaEs DEF RolFiel, Asciende
    <3>2. CASE t # s
      BY <2>2, <2>4, <2>5, <3>2 DEF FielInv, RolFiel, Asciende
    <3> QED
      BY <3>1, <3>2
  <2> QED
    BY <2>5 DEF FielInv
<1>17. ~Rearranca
  BY DEF Rearranca
<1>18. CASE UNCHANGED <<fila, viva, meta, gancho, relevo, par, cruzadas>>
  BY <1>18, FielSiMengua DEF Firme, PairEnVuelo, Asciende
<1> QED
  BY <1>1, <1>2, <1>3, <1>4, <1>5, <1>6, <1>7, <1>8, <1>9, <1>10, <1>11, <1>12, <1>13, <1>14,
     <1>15, <1>16, <1>17, <1>18,
     MarcoVale DEF Marco, TocaFilas, TocaViva, TocaGanchos, TocaPar, TocaHistoria

LEMMA RolesSeConservan == BaseInv /\ BajaInv /\ RolesInv /\ [Next]_vars => RolesInv'
<1> SUFFICES ASSUME BaseInv, BajaInv, RolesInv, [Next]_vars, Sereno'
             PROVE  (UnTitular /\ CupoInv /\ RelevoInv /\ FielInv /\ ParFielInv)'
  BY DEF RolesInv
<1>1. Sereno /\ PasoSereno
  BY SerenoAntes
<1>2. UnTitular /\ CupoInv /\ RelevoInv /\ FielInv /\ ParFielInv
  BY <1>1 DEF RolesInv
<1> QED
  BY <1>1, <1>2, UnTitularSeConserva, CupoInvSeConserva, RelevoInvSeConserva, FielInvSeConserva,
     ParFielInvSeConserva

LEMMA InicialRoles == Init => RolesInv
<1> SUFFICES ASSUME Init PROVE RolesInv
  OBVIOUS
<1>1. Previas \in Nat /\ Previas <= MaxSes
  BY CotasAssumption
<1>2. /\ viva = {} /\ porRestaurar = 1 .. Previas /\ \A s \in Ses : gancho[s] = "no"
      /\ \A s \in Ses : meta[s].estado # "loggedout"
  BY NadaEs DEF Init
<1>3. PICK n \in Numeros :
        fila = [s \in Ses |-> IF s > Previas THEN Nada
                              ELSE [estado |-> "active", num |-> n,
                                    rol |-> IF s = 1 THEN "primary" ELSE "standby"]]
  BY DEF Init
<1>4. ASSUME NEW s \in 1 .. Previas PROVE s \in Ses /\ (s # 1 => fila[s].rol = "standby")
  <2>1. s \in Ses /\ ~(s > Previas)
    BY <1>1, CotasAssumption DEF Ses
  <2>2. s # 1 => fila[s] = [estado |-> "active", num |-> n, rol |-> "standby"]
    BY <1>3, <2>1
  <2> QED
    BY <2>1, <2>2
<1>5. UnTitular
  <2>1. \A m \in Numeros, s \in Ses : EsTitular(m, s) => s = 1
    BY <1>2, <1>4 DEF EsTitular
  <2> QED
    BY <2>1 DEF UnTitular
<1>6. CupoInv
  <2> SUFFICES ASSUME NEW m \in Numeros PROVE Cardinality(Ocupan(m)) <= Max({Cupo, Previas})
    BY DEF CupoInv
  <2>1. Ocupan(m) \subseteq 1 .. Previas
    BY <1>2 DEF Ocupan, Ocupa
  <2>2. IsFiniteSet(1 .. Previas) /\ Cardinality(1 .. Previas) = Previas
    BY <1>1, FS_Interval
  <2>3. Cardinality(Ocupan(m)) \in Nat /\ Cardinality(Ocupan(m)) <= Previas
    BY <2>1, <2>2, FS_Subset, FS_CardinalityType
  <2> QED
    BY <1>1, <2>3, TopeDeCupo
<1>7. RelevoInv
  BY <1>2 DEF RelevoInv
<1>8. FielInv
  BY <1>2 DEF FielInv, Firme
<1>9. ParFielInv
  BY ParDeEs DEF Init, SinPar, PasosPar, ParFielInv
<1> QED
  BY <1>5, <1>6, <1>7, <1>8, <1>9 DEF RolesInv

LEMMA RolesDeLaInvariante == BaseInv /\ RolesInv => RolesDelNumero
<1> SUFFICES ASSUME BaseInv, RolesInv, Sereno
             PROVE  /\ \A n \in Numeros :
                         /\ Cardinality(Operativos(n)) <= Max({Cupo, Previas})
                         /\ Cardinality({s \in Operativos(n) : meta[s].rol = "primary"}) <= 1
                    /\ \A s \in viva \ cruzadas :
                         (/\ meta[s].estado # "loggedout" /\ ~PairEnVuelo(s)
                          /\ \A t \in Ses : ~(gancho[t] = "asciende" /\ relevo[t] = s))
                           => fila[s].rol = meta[s].rol
  BY DEF RolesDelNumero, Sereno
<1>1. viva \subseteq Ses
  BY CotasAssumption DEF BaseInv, DominiosSes, DomCreadas, Ses
<1>2. UnTitular /\ CupoInv /\ FielInv
  BY DEF RolesInv
<1>3. ASSUME NEW n \in Numeros PROVE Cardinality(Operativos(n)) <= Max({Cupo, Previas})
  <2>1. Operativos(n) \subseteq Ocupan(n) /\ Ocupan(n) \subseteq Ses
    BY <1>1 DEF Operativos, Ocupan, Ocupa
  <2>2. IsFiniteSet(Ocupan(n))
    BY <2>1, SesFinito, FS_Subset
  <2>3. /\ Cardinality(Operativos(n)) <= Cardinality(Ocupan(n))
        /\ Cardinality(Operativos(n)) \in Nat /\ Cardinality(Ocupan(n)) \in Nat
    BY <2>1, <2>2, FS_Subset, FS_CardinalityType
  <2> QED
    BY <1>2, <2>3, TopeDeCupo DEF CupoInv
<1>4. ASSUME NEW n \in Numeros
      PROVE  Cardinality({s \in Operativos(n) : meta[s].rol = "primary"}) <= 1
  <2> DEFINE P == {s \in Operativos(n) : meta[s].rol = "primary"}
  <2>1. \A s \in P : s \in Ses /\ EsTitular(n, s)
    BY <1>1 DEF Operativos, EsTitular
  <2>2. \A s, t \in P : s = t
    BY <1>2, <2>1 DEF UnTitular
  <2>3. P = {} \/ \E s \in P : P = {s}
    BY <2>2
  <2> HIDE DEF P
  <2>4. Cardinality({}) = 0 /\ \A s : Cardinality({s}) = 1
    BY FS_EmptySet, FS_Singleton
  <2>5. Cardinality(P) = 0 \/ Cardinality(P) = 1
    BY <2>3, <2>4
  <2>6. Cardinality(P) <= 1
    BY <2>5
  <2> QED
    BY <2>6 DEF P
<1>5. ASSUME NEW s \in viva \ cruzadas, meta[s].estado # "loggedout", ~PairEnVuelo(s),
             \A t \in Ses : ~(gancho[t] = "asciende" /\ relevo[t] = s)
      PROVE  fila[s].rol = meta[s].rol
  <2>1. s \in Ses /\ Firme(s) /\ ~Asciende(s)
    BY <1>1, <1>5 DEF Firme, Asciende
  <2> QED
    BY <1>2, <1>5, <2>1 DEF FielInv, RolFiel
<1> QED
  BY <1>3, <1>4, <1>5

\* While no store fails, no restart brings back an unfinished deletion and no pairing or Unlink
\* overlaps a promotion, a number has no more devices that count than allowed, at most one of
\* them primary, and roles in memory and on disk agree unless somebody is changing them.
THEOREM UnPrimarioPorNumero == Spec => []RolesDelNumero
<1>1. BaseInv /\ BorradoInv => BajaInv
  BY DEF BorradoInv
<1> QED
  BY <1>1, InicialBase, InicialRoles, BaseSeConserva, BorradoSeConserva, RolesSeConservan,
     RolesDeLaInvariante, PTL DEF Spec
=============================================================================
