--------------------------- MODULE Emparejamiento ---------------------------
(***************************************************************************)
(* One pairing, from the request of the control plane to its answer: the   *)
(* goroutine of pairManager.start, the loop of Pair.Run, the connector     *)
(* that reads the QR codes of the library, the handler the library calls   *)
(* when the new device connects, and the sink the web polls.  SessionMgr   *)
(* sees it as a pairing that fails or delivers a paired device.            *)
(*                                                                         *)
(* The goroutine of one pairing may still be closing when the next begins. *)
(* What Manager.Pair does after Run (the role, the row, the listener) is   *)
(* an outcome here.                                                        *)
(***************************************************************************)
EXTENDS Naturals, Sequences

CONSTANTS
  MaxPares,    \* bound on the pairings
  MaxQR,       \* bound on the QR codes of a pairing
  TamSenales   \* signalBuffer

ASSUME ParesAssumption == MaxPares \in Nat /\ MaxQR \in Nat /\ TamSenales \in Nat \ {0}

VARIABLES
  activo,     \* pairManager.active
  pares,      \* pairings so far
  run,        \* per pairing: Pair.Run and the goroutine that called it
  conector,   \* Connector.run, and what it wants to emit
  qrs,        \* QR codes it has got
  senales,    \* the channel of signals
  cerrado,    \* that channel is closed
  ctxHecho,   \* the context of the pairing is done
  device,     \* the phone has accepted: the library has stored the device
  manejador,  \* the handler of the Connected event
  dekSellada, \* the custody has the DEK
  resultado,  \* pairingState: the session it ended in is set
  sumidero    \* the status of MemoryQRSink

parVars == <<run, senales, dekSellada>>
conectorVars == <<conector, qrs, cerrado, device, manejador>>
controlVars == <<activo, pares, resultado, sumidero>>
varsPar == <<parVars, conectorVars, controlVars, ctxHecho>>

Pares == 1 .. MaxPares
Senales == {"qr", "connected", "error"}
NoEmite == "nada"
Conector(donde, emite) == [donde |-> donde, emite |-> emite]

InitPar ==
  /\ activo = FALSE /\ pares = 0
  /\ run = [p \in Pares |-> "no"]
  /\ conector = [p \in Pares |-> Conector("no", NoEmite)] /\ qrs = [p \in Pares |-> 0]
  /\ senales = [p \in Pares |-> <<>>] /\ cerrado = [p \in Pares |-> FALSE]
  /\ ctxHecho = [p \in Pares |-> FALSE] /\ device = [p \in Pares |-> FALSE]
  /\ manejador = [p \in Pares |-> "no"] /\ dekSellada = [p \in Pares |-> FALSE]
  /\ resultado = [p \in Pares |-> FALSE] /\ sumidero = [p \in Pares |-> "pending"]

-----------------------------------------------------------------------------
(* pairManager.start: one at a time.  StartConnection may fail.  *)

StartPair ==
  /\ ~activo /\ pares < MaxPares
  /\ activo' = TRUE /\ pares' = pares + 1
  /\ \E conecta \in BOOLEAN :
       /\ run' = [run EXCEPT ![pares + 1] = IF conecta THEN "corre" ELSE "error"]
       /\ conector' = [conector EXCEPT ![pares + 1] = Conector(IF conecta THEN "dial" ELSE "fin", NoEmite)]
  /\ UNCHANGED <<qrs, senales, cerrado, ctxHecho, device, manejador, dekSellada, resultado, sumidero>>

(* Run's two ways of waiting: the end of its context... *)
Vence(p) ==
  /\ run[p] = "corre" /\ ~ctxHecho[p]
  /\ ctxHecho' = [ctxHecho EXCEPT ![p] = TRUE]
  /\ UNCHANGED <<parVars, conectorVars, controlVars>>

(* ...which its own return brings too (cancel)... *)
RunVuelve(p, como) ==
  /\ run' = [run EXCEPT ![p] = como]
  /\ ctxHecho' = [ctxHecho EXCEPT ![p] = TRUE]
  /\ UNCHANGED <<conectorVars, controlVars>>

RunVencido(p) ==
  /\ run[p] = "corre" /\ ctxHecho[p]
  /\ RunVuelve(p, "error")
  /\ UNCHANGED <<senales, dekSellada>>

(* ...and a signal.  ShowQR and the seal of the DEK may fail. *)
RunMuestraQR(p) ==
  /\ run[p] = "corre" /\ senales[p] # <<>> /\ Head(senales[p]) = "qr"
  /\ senales' = [senales EXCEPT ![p] = Tail(@)]
  /\ UNCHANGED <<run, dekSellada, conectorVars, controlVars, ctxHecho>>

RunConectado(p) ==
  /\ run[p] = "corre" /\ senales[p] # <<>> /\ Head(senales[p]) = "connected"
  /\ senales' = [senales EXCEPT ![p] = Tail(@)]
  /\ \E sella \in BOOLEAN :
       /\ dekSellada' = [dekSellada EXCEPT ![p] = sella]
       /\ RunVuelve(p, IF sella THEN "sella" ELSE "error")

RunFalla(p) ==
  /\ run[p] = "corre"
  /\ IF senales[p] = <<>> THEN cerrado[p] /\ UNCHANGED senales
                          ELSE Head(senales[p]) = "error" /\ senales' = [senales EXCEPT ![p] = Tail(@)]
  /\ RunVuelve(p, "error")
  /\ UNCHANGED dekSellada

(* The rest of Manager.Pair: the session is up, or it could not be. *)
PairAcaba(p) ==
  /\ run[p] = "sella"
  /\ \E como \in {"exito", "error"} : run' = [run EXCEPT ![p] = como]
  /\ UNCHANGED <<senales, dekSellada, conectorVars, controlVars, ctxHecho>>

(* The goroutine of start: the result under the lock, then the sink. *)
FijaResultado(p) ==
  /\ run[p] \in {"exito", "error"}
  /\ resultado' = [resultado EXCEPT ![p] = (run[p] = "exito")]
  /\ activo' = FALSE
  /\ run' = [run EXCEPT ![p] = "avisa"]
  /\ UNCHANGED <<senales, dekSellada, conectorVars, pares, sumidero, ctxHecho>>

Finish(p) ==
  /\ run[p] = "avisa"
  /\ run' = [run EXCEPT ![p] = "fin"]
  /\ sumidero' = [sumidero EXCEPT ![p] = IF resultado[p] THEN "success" ELSE "error"]
  /\ UNCHANGED <<senales, dekSellada, conectorVars, activo, pares, resultado, ctxHecho>>

-----------------------------------------------------------------------------
(* Connector.run, between two emissions. *)

VaDeA(p, de, a, emite) ==
  /\ conector[p] = Conector(de, NoEmite)
  /\ conector' = [conector EXCEPT ![p] = Conector(a, emite)]

Dial(p) ==
  /\ VaDeA(p, "dial", "qr", NoEmite) \/ VaDeA(p, "dial", "sale", "error")
  /\ UNCHANGED <<qrs, cerrado, device, manejador, parVars, controlVars, ctxHecho>>

LlegaQR(p) ==
  /\ qrs[p] < MaxQR /\ ~device[p]
  /\ VaDeA(p, "qr", "qr", "qr")
  /\ qrs' = [qrs EXCEPT ![p] = @ + 1]
  /\ UNCHANGED <<cerrado, device, manejador, parVars, controlVars, ctxHecho>>

(* The phone reads the code: the library stores the device. *)
Escanea(p) ==
  /\ conector[p].donde = "qr" /\ qrs[p] > 0 /\ ~device[p]
  /\ device' = [device EXCEPT ![p] = TRUE]
  /\ UNCHANGED <<conector, qrs, cerrado, manejador, parVars, controlVars, ctxHecho>>

(* "success", after which the library closes its channel: waitActivation.  *)
LlegaSuccess(p) ==
  /\ device[p] /\ VaDeA(p, "qr", "activa", NoEmite)
  /\ UNCHANGED <<qrs, cerrado, device, manejador, parVars, controlVars, ctxHecho>>

(* An error or a timeout of the library; its channel closed; or the end of *)
(* the context.                                                            *)
DejaDeEsperarQR(p) ==
  /\ \/ VaDeA(p, "qr", "sale", "error")
     \/ (ctxHecho[p] \/ (qrs[p] = MaxQR /\ ~device[p])) /\ VaDeA(p, "qr", "sale", NoEmite)
  /\ UNCHANGED <<qrs, cerrado, device, manejador, parVars, controlVars, ctxHecho>>

(* connectedCh, activationTimeout or the end of the context. *)
WaitActivation(p) ==
  /\ VaDeA(p, "activa", "sale", NoEmite)
  /\ UNCHANGED <<qrs, cerrado, device, manejador, parVars, controlVars, ctxHecho>>

(* The socket is closed, then the channel. *)
CierraSenales(p) ==
  /\ VaDeA(p, "sale", "fin", NoEmite)
  /\ cerrado' = [cerrado EXCEPT ![p] = TRUE]
  /\ UNCHANGED <<qrs, device, manejador, parVars, controlVars, ctxHecho>>

(* emit: whoever calls it waits for room in the channel or for the end of  *)
(* the context.                                                            *)
\* Mutant: emit only waits for room.
PoneSinCtx(p, s) == Len(senales[p]) < TamSenales /\ senales' = [senales EXCEPT ![p] = Append(@, s)]

Pone(p, s) ==
  \/ Len(senales[p]) < TamSenales /\ senales' = [senales EXCEPT ![p] = Append(@, s)]
  \/ ctxHecho[p] /\ UNCHANGED senales

Emite(p) ==
  /\ conector[p].emite # NoEmite
  /\ Pone(p, conector[p].emite)
  /\ conector' = [conector EXCEPT ![p] = Conector(@.donde, NoEmite)]
  /\ UNCHANGED <<qrs, cerrado, device, manejador, run, dekSellada, controlVars, ctxHecho>>

(* The handler, called once, while the client is there. *)
LlamaConnected(p) ==
  /\ device[p] /\ manejador[p] = "no" /\ conector[p].donde \in {"qr", "activa"}
  /\ manejador' = [manejador EXCEPT ![p] = "emite"]
  /\ UNCHANGED <<conector, qrs, cerrado, device, parVars, controlVars, ctxHecho>>

(* A send on the closed channel panics, and the library recovers. *)
EmiteConnected(p) ==
  /\ manejador[p] = "emite"
  /\ manejador' = [manejador EXCEPT ![p] = "fin"]
  /\ IF cerrado[p] THEN UNCHANGED senales ELSE Pone(p, "connected")
  /\ UNCHANGED <<conector, qrs, cerrado, device, run, dekSellada, controlVars, ctxHecho>>

RunSigue(p) ==
  RunVencido(p) \/ RunMuestraQR(p) \/ RunConectado(p) \/ RunFalla(p) \/ PairAcaba(p)
    \/ FijaResultado(p) \/ Finish(p)

ConectorSigue(p) == Dial(p) \/ DejaDeEsperarQR(p) \/ WaitActivation(p) \/ CierraSenales(p) \/ Emite(p)

NextPar ==
  \/ StartPair
  \/ \E p \in Pares :
       \/ Vence(p) \/ RunSigue(p) \/ ConectorSigue(p) \/ EmiteConnected(p)
       \/ LlegaQR(p) \/ Escanea(p) \/ LlegaSuccess(p) \/ LlamaConnected(p)

(* Goroutines run and deadlines come; the phone and WhatsApp owe nothing.  *)
FairPar ==
  \A p \in Pares :
    /\ WF_varsPar(Vence(p)) /\ WF_varsPar(RunSigue(p)) /\ WF_varsPar(EmiteConnected(p))
    /\ WF_varsPar(Dial(p) \/ WaitActivation(p) \/ CierraSenales(p) \/ Emite(p)
                   \/ (ctxHecho[p] /\ DejaDeEsperarQR(p)))

SpecPar == InitPar /\ [][NextPar]_varsPar /\ FairPar

-----------------------------------------------------------------------------
TipoPar ==
  /\ activo \in BOOLEAN /\ pares \in 0 .. MaxPares
  /\ \A p \in Pares :
       /\ run[p] \in {"no", "corre", "sella", "exito", "error", "avisa", "fin"}
       /\ conector[p].donde \in {"no", "dial", "qr", "activa", "sale", "fin"}
       /\ conector[p].emite \in Senales \cup {NoEmite}
       /\ qrs[p] \in 0 .. MaxQR /\ Len(senales[p]) <= TamSenales
       /\ \A i \in DOMAIN senales[p] : senales[p][i] \in Senales
       /\ manejador[p] \in {"no", "emite", "fin"} /\ sumidero[p] \in {"pending", "success", "error"}

(* A pairing always ends, for the web and for its goroutines, whoever has  *)
(* left the other end of the channel; and then another one can begin.      *)
EmparejaTermina ==
  \A p \in Pares :
    run[p] # "no" ~> sumidero[p] # "pending" /\ conector[p].donde = "fin" /\ manejador[p] # "emite"
=============================================================================
