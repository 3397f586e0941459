----------------------------- MODULE AuthManager -----------------------------
(***************************************************************************)
(* The operator's session: Login, Refresh (the API's and the proactive     *)
(* tick's), Logout, the custody of the refresh token on disk and the       *)
(* access token in memory.  The cloud rotates the refresh token at every   *)
(* refresh and refuses the loser of a race, which is why Refresh is        *)
(* single-flight (refreshMu); Login and Logout do not take that lock.      *)
(*                                                                         *)
(* Tokens are numbered in the order the cloud emits them; 0 is "none" and  *)
(* Roto a half-written file.  The relay either answers, or the caller      *)
(* gives up after authRelayTimeout; its request stays on the wire, and the *)
(* cloud may process it at any later time, or never (of a login that opens *)
(* a session nobody ever hears of, and is left out).                       *)
(* Passwords, claims, grants and the degraded mode of Authorize (which     *)
(* changes nothing but a log flag) are left out.                           *)
(***************************************************************************)
EXTENDS Naturals, FiniteSets

CONSTANTS
  MaxTokens,    \* bound on the tokens the cloud emits
  MaxTardias    \* bound on the abandoned requests on the wire

ASSUME TokensAssumption == MaxTokens \in Nat \ {0} /\ MaxTardias \in Nat

VARIABLES
  refreshMu,   \* who holds Manager.refreshMu
  custodia,    \* the file of the refresh token (0 = absent)
  acceso,      \* Manager.access # ""
  apc,         \* per thread: where it is
  enviado,     \* per thread: the refresh token its request carries
  respuesta,   \* per thread: the answer that waits in its authPending channel
  emitidos,    \* the cloud: tokens emitted so far
  vigentes,    \* the cloud: refresh tokens it accepts
  revocados,   \* ghost: refresh tokens a logout revoked
  huerfanas,   \* requests on the wire whose caller gave up: their kind, and their token
  perdidas     \* ghost: refresh tokens whose successor never reached the custody

hilosAuth == <<apc, enviado, respuesta>>
nubeAuth  == <<emitidos, vigentes, revocados>>
sinOir    == <<huerfanas, perdidas>>
varsAuth  == <<refreshMu, custodia, acceso, hilosAuth, nubeAuth, sinOir>>

Refrescan == {"api", "tick"}
Pedidores == Refrescan \cup {"login", "logout"}
Libre == "nadie"
Roto  == MaxTokens + 1
Rechazo == MaxTokens + 2   \* refresh_invalid, invalid_credentials...
Hecho   == MaxTokens + 3   \* the answer to a logout
SoloAcceso == MaxTokens + 4   \* an access token without a refresh token
Emision == 1 .. MaxTokens

TipoAuth ==
  /\ refreshMu \in Refrescan \cup {Libre}
  /\ custodia \in 0 .. Roto /\ acceso \in BOOLEAN
  /\ apc \in [Pedidores -> {"libre", "espera", "pide", "responde", "cierra"}]
  /\ enviado \in [Pedidores -> 0 .. Roto]
  /\ respuesta \in [Pedidores -> (0 .. MaxTokens) \cup {Rechazo, Hecho, SoloAcceso}]
  /\ emitidos \in 0 .. MaxTokens /\ vigentes \subseteq Emision
  /\ huerfanas \subseteq {"refresh", "logout"} \X Emision
  /\ revocados \subseteq Emision /\ perdidas \subseteq Emision

InitAuth ==
  /\ refreshMu = Libre /\ custodia = 0 /\ acceso = FALSE
  /\ apc = [h \in Pedidores |-> "libre"]
  /\ enviado = [h \in Pedidores |-> 0] /\ respuesta = [h \in Pedidores |-> 0]
  /\ emitidos = 0 /\ vigentes = {} /\ revocados = {} /\ huerfanas = {} /\ perdidas = {}

En(h, donde) == apc' = [apc EXCEPT ![h] = donde]

Suelta(h) == refreshMu' = IF refreshMu = h THEN Libre ELSE refreshMu

\* The call of h returns: its thread is free and the deferred Unlock runs.
Vuelve(h) ==
  /\ En(h, "libre") /\ Suelta(h)
  /\ enviado' = [enviado EXCEPT ![h] = 0] /\ respuesta' = [respuesta EXCEPT ![h] = 0]

----------------------------------------------------------------------------
(* Manager.Refresh, called by the API or by proactiveTick, which only      *)
(* refreshes what memory holds (the clock decides whether it is due).      *)

PideRefresh(h) ==
  /\ h \in Refrescan /\ apc[h] = "libre"
  /\ h = "tick" => acceso
  /\ En(h, "espera")
  /\ UNCHANGED <<refreshMu, custodia, acceso, enviado, respuesta, nubeAuth, sinOir>>

\* Mutant: Refresh without its mutex.
RefreshSinMu(h) ==
  /\ h \in Refrescan /\ apc[h] = "espera"
  /\ \/ En(h, "libre") /\ UNCHANGED enviado
     \/ custodia # 0 /\ En(h, "pide") /\ enviado' = [enviado EXCEPT ![h] = custodia]
  /\ UNCHANGED <<refreshMu, custodia, acceso, respuesta, nubeAuth, sinOir>>

\* The load fails, for want of the file or not, or the request goes out.
Refresh(h) ==
  /\ h \in Refrescan /\ apc[h] = "espera" /\ refreshMu = Libre
  /\ \/ En(h, "libre") /\ UNCHANGED <<refreshMu, enviado>>
     \/ custodia # 0 /\ En(h, "pide") /\ enviado' = [enviado EXCEPT ![h] = custodia] /\ refreshMu' = h
  /\ UNCHANGED <<custodia, acceso, respuesta, nubeAuth, sinOir>>

Login ==
  /\ apc["login"] = "libre" /\ En("login", "pide")
  /\ UNCHANGED <<refreshMu, custodia, acceso, enviado, respuesta, nubeAuth, sinOir>>

\* When the load fails, Logout only clears the local session.
Logout ==
  /\ apc["logout"] = "libre"
  /\ \/ En("logout", "responde") /\ UNCHANGED enviado
     \/ custodia # 0 /\ En("logout", "pide") /\ enviado' = [enviado EXCEPT !["logout"] = custodia]
  /\ UNCHANGED <<refreshMu, custodia, acceso, respuesta, nubeAuth, sinOir>>

----------------------------------------------------------------------------
(* The cloud.                                                              *)

\* handleUserAuthResponse: the answer goes to the pending channel of its command.
Entrega(h, r) == respuesta' = [respuesta EXCEPT ![h] = r]

\* A new token, instead of the ones in `fuera`.
EmiteToken(fuera) ==
  /\ emitidos < MaxTokens /\ emitidos' = emitidos + 1
  /\ vigentes' = (vigentes \ fuera) \cup {emitidos + 1} /\ UNCHANGED revocados

\* With all_sessions the cloud revokes every token of the user.
Revoca(t) ==
  \E fuera \in {vigentes, vigentes \cap {t}} :
    vigentes' = vigentes \ fuera /\ revocados' = revocados \cup fuera /\ UNCHANGED emitidos

NubeRefresca(h) ==
  \/ /\ enviado[h] \in vigentes
     /\ \/ EmiteToken({enviado[h]}) /\ Entrega(h, emitidos + 1)
        \/ Entrega(h, SoloAcceso) /\ UNCHANGED nubeAuth
  \/ enviado[h] \notin vigentes /\ Entrega(h, Rechazo) /\ UNCHANGED nubeAuth

NubeAbre(h) ==
  \/ EmiteToken({}) /\ Entrega(h, emitidos + 1)
  \/ \E r \in {Rechazo, SoloAcceso} : Entrega(h, r) /\ UNCHANGED nubeAuth

NubeRevoca(h) == Revoca(enviado[h]) /\ Entrega(h, Hecho)

NubeResponde(h) ==
  /\ apc[h] = "pide" /\ En(h, "responde")
  /\ \/ h \in Refrescan /\ NubeRefresca(h)
     \/ h = "login" /\ NubeAbre(h)
     \/ h = "logout" /\ NubeRevoca(h)
  /\ UNCHANGED <<refreshMu, custodia, acceso, enviado, sinOir>>

\* A request nobody waits for any more: its answer finds no pending channel.
NubeTardia ==
  \E peticion \in huerfanas :
    LET t == peticion[2] IN
    /\ huerfanas' = huerfanas \ {peticion}
    /\ \/ peticion[1] = "refresh" /\ t \in vigentes /\ EmiteToken({t}) /\ perdidas' = perdidas \cup {t}
       \/ peticion[1] = "logout" /\ Revoca(t) /\ UNCHANGED perdidas
    /\ UNCHANGED <<refreshMu, custodia, acceso, hilosAuth>>

\* The successor in h's answer will never be kept: what it replaced is lost.
SePierde(h) ==
  perdidas' = IF h \in Refrescan /\ respuesta[h] \in Emision
              THEN perdidas \cup {enviado[h]} ELSE perdidas

\* Giving up on an answer does not take the request back; the wire may lose it.
SigueEnElCable(quienes) ==
  LET colgadas == {q \in quienes \ {"login"} : apc[q] = "pide" /\ enviado[q] \in vigentes}
      peticiones == {<<IF q = "logout" THEN q ELSE "refresh", enviado[q]>> : q \in colgadas}
  IN huerfanas' \in {H \in SUBSET (huerfanas \cup peticiones) : Cardinality(H) <= MaxTardias}

\* authRelayTimeout, a cancelled request or no client: doAuth gives up, and the
\* answer that may be on its way finds no pending channel.  So it does on an error.
DoAuthFalla(h) ==
  /\ h # "logout" /\ apc[h] \in {"pide", "responde"} /\ Vuelve(h) /\ SePierde(h)
  /\ SigueEnElCable({h})
  /\ UNCHANGED <<custodia, acceso, nubeAuth>>

----------------------------------------------------------------------------
(* adoptTokens: the custody first, then memory; clearSession likewise.     *)

Store(h) ==
  /\ apc[h] = "responde" /\ respuesta[h] \in Emision
  /\ custodia' = respuesta[h] /\ En(h, "cierra")
  /\ UNCHANGED <<refreshMu, acceso, enviado, respuesta, nubeAuth, sinOir>>

\* Store fails before it writes, half way, or at its last chmod.
StoreFalla(h) ==
  /\ apc[h] = "responde" /\ respuesta[h] \in Emision /\ Vuelve(h)
  /\ custodia' \in {custodia, Roto, respuesta[h]}
  /\ IF custodia' = respuesta[h] THEN UNCHANGED perdidas ELSE SePierde(h)
  /\ UNCHANGED <<acceso, nubeAuth, huerfanas>>

\* An answer without a refresh token leaves the custody as it was.
AdoptTokens(h) ==
  /\ h # "logout" /\ Vuelve(h)
  /\ apc[h] = "cierra" \/ (apc[h] = "responde" /\ respuesta[h] = SoloAcceso)
  /\ acceso' = TRUE
  /\ UNCHANGED <<custodia, nubeAuth, sinOir>>

\* With or without an answer of the cloud; the error of Clear is ignored.
Clear ==
  /\ apc["logout"] \in {"pide", "responde"} /\ En("logout", "cierra")
  /\ custodia' \in {0, custodia}
  /\ SigueEnElCable({"logout"})
  /\ UNCHANGED <<refreshMu, acceso, enviado, respuesta, nubeAuth, perdidas>>

ClearSession ==
  /\ apc["logout"] = "cierra" /\ Vuelve("logout") /\ acceso' = FALSE
  /\ UNCHANGED <<custodia, nubeAuth, sinOir>>

----------------------------------------------------------------------------
\* The daemon restarts: memory is lost, and with it the answers not yet kept;
\* the file may be caught half-written.
Reinicia ==
  LET llegan == {h \in Pedidores : apc[h] = "responde" /\ respuesta[h] \in Emision} IN
  /\ custodia' \in {custodia} \cup (IF llegan = {} THEN {} ELSE {Roto})
  /\ perdidas' = perdidas \cup {enviado[h] : h \in llegan \cap Refrescan}
  /\ SigueEnElCable(Pedidores)
  /\ apc' = [h \in Pedidores |-> "libre"] /\ enviado' = [h \in Pedidores |-> 0]
  /\ respuesta' = [h \in Pedidores |-> 0] /\ refreshMu' = Libre /\ acceso' = FALSE
  /\ UNCHANGED nubeAuth

NextAuth ==
  \/ \E h \in Pedidores :
       \/ PideRefresh(h) \/ Refresh(h) \/ NubeResponde(h) \/ DoAuthFalla(h) \/ Store(h)
       \/ StoreFalla(h) \/ AdoptTokens(h)
  \/ NubeTardia \/ Login \/ Logout \/ Clear \/ ClearSession \/ Reinicia

SpecAuth == InitAuth /\ [][NextAuth]_varsAuth

----------------------------------------------------------------------------
\* A refresh is refused only for a token a logout revoked, one whose successor
\* was lost on its way to the disk (that of a refresh its caller gave up on is), or
\* a broken file: two refreshes that are waited for never spend the same token, so
\* an operator is not logged out by a race of his own (manager.go:58, 147-149).
RotacionSinPerdedor ==
  [][\A h \in Refrescan :
       (apc[h] = "pide" /\ respuesta'[h] = Rechazo)
         => enviado[h] \in revocados \cup perdidas \cup {Roto}]_varsAuth
=============================================================================
