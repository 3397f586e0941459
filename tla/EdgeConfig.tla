------------------------------ MODULE EdgeConfig ------------------------------
(***************************************************************************)
(* The configuration the cloud pushes (ConfigUpdate): edgeconfig.Service   *)
(* applies it by kind, to the table edge_config and to the subscriber in   *)
(* memory, and Bootstrap reloads memory from the table at start.  The      *)
(* workers of the CloudLink demux apply in parallel, and the same push     *)
(* reaches every session, late or repeated.                                *)
(*                                                                         *)
(* Two kinds stand for the three: "filters", whose validator and           *)
(* subscriber only accept a later version than the one in memory, and      *)
(* "jwks", which takes any version.  A payload is its version; whether it  *)
(* parses is decided where it is parsed.  An unknown kind changes nothing. *)
(***************************************************************************)
EXTENDS Naturals

CONSTANTS
  Aplicadores,  \* workers of the demux
  MaxVersion,   \* bound on the versions the cloud publishes
  MaxArranques  \* bound on the starts of the daemon

ASSUME VersionAssumption == MaxVersion \in Nat /\ MaxArranques \in Nat
ASSUME SinAplicador == "nadie" \notin Aplicadores

VARIABLES
  edgeConfig,  \* per kind: the version in the table (0 = no row)
  vigente,     \* per kind: the version published in memory (0 = nil)
  aplicaMu,    \* who holds Service.aplicaMu
  cpc,         \* per worker: where its Apply is
  frame,       \* per worker: the kind and version it applies
  publicada,   \* the cloud: last version published
  listo,       \* Bootstrap has run
  ciegos,      \* ghost: kinds whose row Bootstrap could not read, or was written by a Put that failed
  arranques

discoConfig == <<edgeConfig, ciegos>>
hilosConfig == <<aplicaMu, cpc, frame>>
entornoConfig == <<publicada, listo, arranques>>
varsConfig == <<discoConfig, vigente, hilosConfig, entornoConfig>>

TiposConfig == {"filters", "jwks"}
Nulo == [tipo |-> "filters", version |-> 0]

TipoConfig ==
  /\ edgeConfig \in [TiposConfig -> 0 .. MaxVersion] /\ vigente \in [TiposConfig -> 0 .. MaxVersion]
  /\ aplicaMu \in Aplicadores \cup {"nadie"}
  /\ cpc \in [Aplicadores -> {"libre", "espera", "valida", "pone", "notifica"}]
  /\ frame \in [Aplicadores -> [tipo : TiposConfig, version : 0 .. MaxVersion]]
  /\ publicada \in 0 .. MaxVersion /\ listo \in BOOLEAN
  /\ ciegos \subseteq TiposConfig /\ arranques \in 0 .. MaxArranques

InitConfig ==
  /\ edgeConfig = [k \in TiposConfig |-> 0] /\ vigente = [k \in TiposConfig |-> 0]
  /\ aplicaMu = "nadie"
  /\ cpc = [w \in Aplicadores |-> "libre"] /\ frame = [w \in Aplicadores |-> Nulo]
  /\ publicada = 0 /\ listo = FALSE /\ ciegos = {} /\ arranques = 0

\* Bootstrap runs before the stream exists; a row it cannot read is skipped.
Bootstrap ==
  /\ ~listo /\ listo' = TRUE
  /\ \E fallan \in SUBSET TiposConfig :
       /\ vigente' = [k \in TiposConfig |-> IF k \in fallan THEN vigente[k] ELSE edgeConfig[k]]
       /\ ciegos' = {k \in fallan : edgeConfig[k] # 0}
  /\ UNCHANGED <<edgeConfig, hilosConfig, publicada, arranques>>

Publica ==
  /\ publicada < MaxVersion /\ publicada' = publicada + 1
  /\ UNCHANGED <<discoConfig, vigente, hilosConfig, listo, arranques>>

\* handleConfigUpdate: any version published so far, in any order and repeated.
HandleConfigUpdate(w) ==
  /\ listo /\ cpc[w] = "libre"
  /\ \E k \in TiposConfig, v \in 1 .. publicada : frame' = [frame EXCEPT ![w] = [tipo |-> k, version |-> v]]
  /\ cpc' = [cpc EXCEPT ![w] = "espera"]
  /\ UNCHANGED <<discoConfig, vigente, aplicaMu, entornoConfig>>

----------------------------------------------------------------------------
(* Service.Apply: one critical section under aplicaMu.                     *)

Devuelve(w) ==
  /\ aplicaMu' = "nadie" /\ cpc' = [cpc EXCEPT ![w] = "libre"]
  /\ frame' = [frame EXCEPT ![w] = Nulo]

Avanza(w, a) == cpc' = [cpc EXCEPT ![w] = a] /\ UNCHANGED frame

\* Mutant: Apply without aplicaMu.
LeeSinMu(w) ==
  /\ cpc[w] = "espera"
  /\ IF edgeConfig[frame[w].tipo] = frame[w].version THEN Devuelve(w) ELSE Avanza(w, "valida") /\ UNCHANGED aplicaMu
  /\ UNCHANGED <<discoConfig, vigente, entornoConfig>>

\* Store.Get fails, or finds the version already applied, or Apply goes on.
Get(w) ==
  /\ cpc[w] = "espera" /\ aplicaMu = "nadie"
  /\ \/ Devuelve(w)
     \/ /\ edgeConfig[frame[w].tipo] # frame[w].version
        /\ Avanza(w, "valida") /\ aplicaMu' = w
  /\ UNCHANGED <<discoConfig, vigente, entornoConfig>>

\* The validator of "filters" compares with the version in memory.
Posterior(k, v) == k = "filters" => v > vigente[k]

Validar(w) ==
  /\ cpc[w] = "valida"
  /\ \/ Devuelve(w)  \* unreadable payload
     \/ ~Posterior(frame[w].tipo, frame[w].version) /\ Devuelve(w)
     \/ Posterior(frame[w].tipo, frame[w].version) /\ Avanza(w, "pone") /\ UNCHANGED aplicaMu
  /\ UNCHANGED <<discoConfig, vigente, entornoConfig>>

Put(w) ==
  /\ cpc[w] = "pone"
  /\ edgeConfig' = [edgeConfig EXCEPT ![frame[w].tipo] = frame[w].version]
  /\ Avanza(w, "notifica")
  /\ UNCHANGED <<ciegos, vigente, aplicaMu, entornoConfig>>

\* The error may come before the row is written, or after.
PutFalla(w) ==
  LET k == frame[w].tipo IN
  /\ cpc[w] = "pone" /\ Devuelve(w)
  /\ \/ UNCHANGED discoConfig
     \/ edgeConfig' = [edgeConfig EXCEPT ![k] = frame[w].version] /\ ciegos' = ciegos \cup {k}
  /\ UNCHANGED <<vigente, entornoConfig>>

\* notify: the subscriber of "filters" checks the version again.
Notify(w) ==
  LET k == frame[w].tipo IN
  /\ cpc[w] = "notifica" /\ Devuelve(w)
  /\ vigente' = IF Posterior(k, frame[w].version) THEN [vigente EXCEPT ![k] = frame[w].version] ELSE vigente
  /\ ciegos' = ciegos \ {k}
  /\ UNCHANGED <<edgeConfig, entornoConfig>>

\* The daemon restarts, in the middle of an Apply or not.
ReiniciaConfig ==
  /\ listo /\ arranques < MaxArranques /\ arranques' = arranques + 1
  /\ listo' = FALSE /\ vigente' = [k \in TiposConfig |-> 0] /\ ciegos' = {}
  /\ aplicaMu' = "nadie"
  /\ cpc' = [w \in Aplicadores |-> "libre"] /\ frame' = [w \in Aplicadores |-> Nulo]
  /\ UNCHANGED <<edgeConfig, publicada>>

NextConfig ==
  \/ Bootstrap \/ Publica \/ ReiniciaConfig
  \/ \E w \in Aplicadores :
       HandleConfigUpdate(w) \/ Get(w) \/ Validar(w) \/ Put(w) \/ PutFalla(w) \/ Notify(w)

SpecConfig == InitConfig /\ [][NextConfig]_varsConfig

----------------------------------------------------------------------------
\* Outside the window between the Put and the notification of an Apply, the
\* disk and memory hold the same version of every kind Bootstrap could read and
\* whose last Put did not both write its row and fail: a restart never brings back an older map than the one the Edge runs with
\* (service.go:40-56, filters.go:215-218).
DiscoYMemoria ==
  (listo /\ \A w \in Aplicadores : cpc[w] # "notifica")
    => \A k \in TiposConfig \ ciegos : edgeConfig[k] = vigente[k]
=============================================================================
