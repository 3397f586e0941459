------------------------------- MODULE MCEdge -------------------------------
(***************************************************************************)
(* The components of the Edge that share no state with one another, model- *)
(* checked in one run: `componente` names the component of a behaviour, and the *)
(* others stay in their initial states.  Nothing fair is enabled there, so *)
(* the fairness of a component asks nothing of a behaviour of another.     *)
(***************************************************************************)
EXTENDS CloudDispatcher, CarrilInferencia, Correlador, ColaCajero, ParteCajero, PuertaEntrada,
        CicloEscucha, Emparejamiento, EdgeConfig, Migracion, Daemon

CONSTANTS l1, l2

VARIABLE componente

MCOrdenes == {<<l1, "envio">>, <<l1, "renueva">>, <<l1, "revoca">>}
MCCharlas == {{1, 2}, {3}}

nubeVars    == <<varsDispatcher, varsCarril, varsCorr>>
cajeroVars  == <<varsCajero, varsParte>>
escuchaVars == <<varsPuerta, varsEscucha, varsPar>>
localVars   == <<varsConfig, varsMig, varsD>>

Init ==
  /\ componente \in {"dispatcher", "carril", "correlador", "cola", "parte", "puerta", "escucha",
                     "par", "config", "migracion", "daemon"}
  /\ InitDispatcher /\ InitCarril /\ InitCorr /\ InitCajero /\ InitParte
  /\ InitPuerta /\ InitEscucha /\ InitPar /\ InitConfig /\ InitMig /\ InitDaemon
  /\ componente # "carril" => ~cajeroVivo
  /\ componente # "dispatcher" => "sin puerta" \notin Range(lease)
  /\ componente # "puerta" => desfase = 0
  /\ componente # "daemon" => pendientes = 0
  /\ componente # "migracion" => suyas = {} /\ TRUE \notin Range(caduca)

NextNube ==
  /\ \/ componente = "dispatcher" /\ NextDispatcher /\ UNCHANGED <<varsCarril, varsCorr>>
     \/ componente = "carril" /\ NextCarril /\ UNCHANGED <<varsDispatcher, varsCorr>>
     \/ componente = "correlador" /\ NextCorr /\ UNCHANGED <<varsDispatcher, varsCarril>>
  /\ UNCHANGED <<componente, cajeroVars, escuchaVars, localVars>>

NextCajeros ==
  /\ \/ componente = "cola" /\ NextCajero /\ UNCHANGED varsParte
     \/ componente = "parte" /\ NextParte /\ UNCHANGED varsCajero
  /\ UNCHANGED <<componente, nubeVars, escuchaVars, localVars>>

NextEscuchas ==
  /\ \/ componente = "puerta" /\ NextPuerta /\ UNCHANGED <<varsEscucha, varsPar>>
     \/ componente = "escucha" /\ NextEscucha /\ UNCHANGED <<varsPuerta, varsPar>>
     \/ componente = "par" /\ NextPar /\ UNCHANGED <<varsPuerta, varsEscucha>>
  /\ UNCHANGED <<componente, nubeVars, cajeroVars, localVars>>

NextLocal ==
  /\ \/ componente = "config" /\ NextConfig /\ UNCHANGED <<varsMig, varsD>>
     \/ componente = "migracion" /\ NextMig /\ UNCHANGED <<varsConfig, varsD>>
     \/ componente = "daemon" /\ NextDaemon /\ UNCHANGED <<varsConfig, varsMig>>
  /\ UNCHANGED <<componente, nubeVars, cajeroVars, escuchaVars>>

Next == NextNube \/ NextCajeros \/ NextEscuchas \/ NextLocal

Spec ==
  /\ Init /\ [][Next]_<<componente, nubeVars, cajeroVars, escuchaVars, localVars>>
  /\ FairDispatcher /\ FairCarril /\ FairEscucha /\ FairPar
=============================================================================
