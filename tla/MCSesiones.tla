----------------------------- MODULE MCSesiones -----------------------------
(***************************************************************************)
(* The two kinds of session an Edge keeps, in one run: those of WhatsApp    *)
(* (SessionMgr) and that of its operator (AuthManager).  They share no     *)
(* state: `clase` names the one of a behaviour, and the other stays in its *)
(* initial state, where nothing fair is enabled.                           *)
(***************************************************************************)
EXTENDS SessionMgr, AuthManager

VARIABLE clase

InitSesiones == clase \in {"dispositivo", "operador"} /\ Init /\ InitAuth

NextSesiones ==
  /\ UNCHANGED clase
  /\ \/ clase = "dispositivo" /\ Next /\ UNCHANGED varsAuth
     \/ clase = "operador" /\ NextAuth /\ UNCHANGED vars

SpecSesiones == InitSesiones /\ [][NextSesiones]_<<clase, vars, varsAuth>> /\ Justicia
=============================================================================
