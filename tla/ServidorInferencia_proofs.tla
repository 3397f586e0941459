---------------------- MODULE ServidorInferencia_proofs ----------------------
(***************************************************************************)
(* Theorems about the inference server, for every set of requests, every   *)
(* threshold and every number of places.                                   *)
(***************************************************************************)
EXTENDS ServidorInferencia, FiniteSetTheorems, TLAPS

(***************************************************************************)
(* The places of the aforo.                                                *)
(***************************************************************************)
\* TomaPlaza takes one place; no other step takes any.
LEMMA UnaPlazaCadaVez ==
  ASSUME TypeOK, [Next]_vars
  PROVE  \/ EnPlaza' \subseteq EnPlaza
         \/ Cardinality(EnPlaza) < Plazas /\ \E p \in Peticiones : EnPlaza' = EnPlaza \cup {p}
<1>1. ASSUME NEW p \in Peticiones, TomaPlaza(p)
      PROVE  /\ Cardinality(EnPlaza) < Plazas
             /\ EnPlaza' = EnPlaza \cup {p}
  BY <1>1 DEF TomaPlaza, Pasa, EnPlaza, TypeOK
<1>2. ASSUME NEW p \in Peticiones,
             pc' = [pc EXCEPT ![p] = "fuera"] \/ pc' = [pc EXCEPT ![p] = "estado"]
               \/ pc' = [pc EXCEPT ![p] = "pide"] \/ pc' = [pc EXCEPT ![p] = "espera"]
      PROVE  EnPlaza' \subseteq EnPlaza
  BY <1>2 DEF EnPlaza, TypeOK
<1>3. ASSUME NEW p \in Peticiones, pc[p] = "modelo",
             pc' = [pc EXCEPT ![p] = "servida"] \/ pc' = [pc EXCEPT ![p] = "fallida"]
      PROVE  EnPlaza' \subseteq EnPlaza
  BY <1>3 DEF EnPlaza, TypeOK
<1>4. ASSUME UNCHANGED pc
      PROVE  EnPlaza' \subseteq EnPlaza
  BY <1>4 DEF EnPlaza
<1>5. ASSUME NEW p \in Peticiones, Llega(p) \/ Cuelga(p) \/ NextServidor(p), ~TomaPlaza(p)
      PROVE  EnPlaza' \subseteq EnPlaza
  <2>1. CASE Llega(p)           BY <2>1, <1>2 DEF Llega, Pasa
  <2>2. CASE Cuelga(p)          BY <2>2, <1>4 DEF Cuelga
  <2>3. CASE LeeEstado(p)       BY <2>3, <1>2 DEF LeeEstado, Pasa
  <2>4. CASE BeginAttempt(p)    BY <2>4, <1>2 DEF BeginAttempt, Responde, Pasa
  <2>5. CASE SinPlaza(p)        BY <2>5, <1>2 DEF SinPlaza, Responde, Pasa
  <2>6. CASE Acierto(p)         BY <2>6, <1>3 DEF Acierto, Pasa
  <2>7. CASE Regimen(p)         BY <2>7, <1>2 DEF Regimen, Responde, Pasa
  <2>8. CASE Aborta(p)          BY <2>8, <1>2 DEF Aborta, Responde, Pasa
  <2>9. CASE Fallo(p)           BY <2>9, <1>3 DEF Fallo, Pasa
  <2>10. CASE RegistrarFallo(p) BY <2>10, <1>2 DEF RegistrarFallo, Responde, Pasa
  <2>11. QED
    BY <1>5, <2>1, <2>2, <2>3, <2>4, <2>5, <2>6, <2>7, <2>8, <2>9, <2>10 DEF NextServidor
<1>6. CASE Aviso \/ Tic \/ UNCHANGED vars
  BY <1>6, <1>4 DEF Aviso, Tic, vars
<1>7. QED BY <1>1, <1>5, <1>6 DEF Next

LEMMA AforoRespetado == TypeOK /\ [Next]_vars => (Cardinality(EnPlaza) <= Plazas)'
<1> SUFFICES ASSUME TypeOK, [Next]_vars PROVE Cardinality(EnPlaza') <= Plazas
  OBVIOUS
<1>1. /\ IsFiniteSet(EnPlaza) /\ Cardinality(EnPlaza) \in Nat
      /\ Cardinality(EnPlaza) <= Plazas /\ Plazas \in Nat
  <2>1. EnPlaza \subseteq Peticiones
    BY DEF EnPlaza
  <2>2. QED BY <2>1, PeticionesAssumption, PlazasAssumption, FS_Subset, FS_CardinalityType DEF TypeOK
<1>2. CASE EnPlaza' \subseteq EnPlaza
  <2>1. Cardinality(EnPlaza') \in Nat /\ Cardinality(EnPlaza') <= Cardinality(EnPlaza)
    BY <1>1, <1>2, FS_Subset, FS_CardinalityType
  <2>2. QED BY <1>1, <2>1
<1>3. CASE Cardinality(EnPlaza) < Plazas /\ \E p \in Peticiones : EnPlaza' = EnPlaza \cup {p}
  <2>1. PICK p \in Peticiones : EnPlaza' = EnPlaza \cup {p}
    BY <1>3
  <2>2. Cardinality(EnPlaza') \in {Cardinality(EnPlaza), Cardinality(EnPlaza) + 1}
    BY <1>1, <2>1, FS_AddElement
  <2>3. QED BY <1>1, <1>3, <2>2
<1>4. QED BY <1>2, <1>3, UnaPlazaCadaVez

(***************************************************************************)
(* Type correctness.                                                       *)
(***************************************************************************)
\* The variables of the breaker stay in range under each of its methods.
LEMMA CircuitoTipado ==
  ASSUME TypeOK, RecordSuccess \/ RecordFailure \/ UNCHANGED circuito
  PROVE  failures' \in 0 .. Umbral /\ ventana' \in 0 .. Ventana /\ probing' \in BOOLEAN
<1>1. /\ failures \in 0 .. Umbral /\ ventana \in 0 .. Ventana
      /\ Umbral \in Nat \ {0} /\ Ventana \in Nat \ {0}
  BY UmbralAssumption DEF TypeOK
<1>2. CASE RecordSuccess
  <2>1. failures' \in 0 .. Umbral /\ ventana' \in 0 .. Ventana
    BY <1>1, <1>2 DEF RecordSuccess
  <2>2. probing' \in BOOLEAN
    BY <1>2 DEF RecordSuccess
  <2>3. QED BY <2>1, <2>2
<1>3. CASE RecordFailure
  <2>1. failures' \in 0 .. Umbral
    BY <1>1, <1>3 DEF RecordFailure, Cerrado
  <2>2. ventana' \in 0 .. Ventana
    BY <1>1, <1>3 DEF RecordFailure
  <2>3. probing' \in BOOLEAN
    BY <1>3 DEF RecordFailure
  <2>4. QED BY <2>1, <2>2, <2>3
<1>4. CASE UNCHANGED circuito
  BY <1>4 DEF TypeOK, circuito
<1>5. QED BY <1>2, <1>3, <1>4

\* A handler that returns leaves the maps of the requests well formed.
LEMMA RespondeTipado ==
  ASSUME TypeOK, NEW p \in Peticiones, Responde(p)
  PROVE  /\ pc' \in [Peticiones -> {"fuera", "estado", "pide", "espera", "modelo", "servida", "fallida"}]
         /\ eraSondeo' \in [Peticiones -> BOOLEAN] /\ colgada' \in [Peticiones -> BOOLEAN]
         /\ sondea' \subseteq {q \in Peticiones : pc'[q] # "fuera"}
BY DEF TypeOK, Responde, Pasa

\* So does one that goes on to a step of its own.
LEMMA PasaTipado ==
  ASSUME TypeOK, NEW p \in Peticiones,
         NEW l \in {"estado", "pide", "espera", "modelo", "servida", "fallida"}, Pasa(p, l)
  PROVE  /\ pc' \in [Peticiones -> {"fuera", "estado", "pide", "espera", "modelo", "servida", "fallida"}]
         /\ sondea \subseteq {q \in Peticiones : pc'[q] # "fuera"}
         /\ sondea \cup {p} \subseteq {q \in Peticiones : pc'[q] # "fuera"}
BY DEF TypeOK, Pasa

\* And avisarPrefijoFrio, the guard of the notice.
LEMMA AvisoTipado ==
  ASSUME TypeOK, AvisarPrefijoFrio
  PROVE  avisado' \in BOOLEAN /\ avisando' \in 0 .. MaxAvisos /\ enterado' \in BOOLEAN
<1>1. avisando \in 0 .. MaxAvisos /\ MaxAvisos \in Nat
  BY PlazasAssumption DEF TypeOK
<1>2. avisando' \in 0 .. MaxAvisos
  BY <1>1 DEF AvisarPrefijoFrio
<1>3. avisado' \in BOOLEAN /\ enterado' \in BOOLEAN
  BY Zenon DEF TypeOK, AvisarPrefijoFrio
<1>4. QED BY <1>2, <1>3

LEMMA TipoInicial == Init => TypeOK
<1> SUFFICES ASSUME Init PROVE TypeOK
  OBVIOUS
<1>1. EnPlaza = {}
  BY DEF Init, EnPlaza
<1>2. Cardinality(EnPlaza) <= Plazas
  BY <1>1, FS_EmptySet, PlazasAssumption
<1>3. failures \in 0 .. Umbral /\ ventana \in 0 .. Ventana /\ avisando \in 0 .. MaxAvisos
  BY UmbralAssumption, PlazasAssumption DEF Init
<1>4. /\ pc \in [Peticiones -> {"fuera", "estado", "pide", "espera", "modelo", "servida", "fallida"}]
      /\ eraSondeo \in [Peticiones -> BOOLEAN] /\ colgada \in [Peticiones -> BOOLEAN]
      /\ sondea \subseteq {p \in Peticiones : pc[p] # "fuera"}
  BY DEF Init
<1>5. /\ probing \in BOOLEAN /\ avisado \in BOOLEAN /\ enterado \in BOOLEAN
      /\ enfermo \in BOOLEAN /\ rezagadas \subseteq Peticiones
  BY DEF Init
<1>6. QED BY <1>2, <1>3, <1>4, <1>5 DEF TypeOK

\* The conjuncts of TypeOK that are not about the aforo.
TipoSinAforo ==
  /\ failures \in 0 .. Umbral /\ ventana \in 0 .. Ventana /\ probing \in BOOLEAN
  /\ pc \in [Peticiones -> {"fuera", "estado", "pide", "espera", "modelo", "servida", "fallida"}]
  /\ eraSondeo \in [Peticiones -> BOOLEAN] /\ colgada \in [Peticiones -> BOOLEAN]
  /\ avisado \in BOOLEAN /\ avisando \in 0 .. MaxAvisos /\ enterado \in BOOLEAN
  /\ sondea \subseteq {p \in Peticiones : pc[p] # "fuera"}
  /\ enfermo \in BOOLEAN /\ rezagadas \subseteq Peticiones

LEMMA TipoDePaso == TypeOK /\ [Next]_vars => TipoSinAforo'
<1> SUFFICES ASSUME TypeOK, [Next]_vars PROVE TipoSinAforo'
  OBVIOUS
<1>1. TipoSinAforo
  BY DEF TypeOK, TipoSinAforo
<1>2. ASSUME NEW p \in Peticiones, Llega(p) PROVE TipoSinAforo'
  <2>1. PICK l \in {"estado", "espera"} : Pasa(p, l)
    BY <1>2 DEF Llega
  <2>2. QED BY <1>1, <1>2, <2>1, PasaTipado DEF Llega, TipoSinAforo, circuito, prefijo, historia
<1>3. ASSUME NEW p \in Peticiones, Cuelga(p) PROVE TipoSinAforo'
  BY <1>1, <1>3 DEF Cuelga, TipoSinAforo, circuito, prefijo, historia
<1>4. ASSUME NEW p \in Peticiones, LeeEstado(p) PROVE TipoSinAforo'
  <2>1. MedioAbierto \in BOOLEAN
    BY DEF MedioAbierto, Cerrado
  <2>2. QED BY <1>1, <1>4, <2>1, PasaTipado DEF LeeEstado, TipoSinAforo, circuito, prefijo, historia
<1>5. ASSUME NEW p \in Peticiones, BeginAttempt(p) PROVE TipoSinAforo'
  <2>1. CASE Pasa(p, "espera")
    BY <1>1, <1>5, <2>1, PasaTipado, RespondeTipado DEF BeginAttempt, TipoSinAforo, prefijo, historia
  <2>2. CASE Responde(p)
    BY <1>1, <1>5, <2>2, RespondeTipado DEF BeginAttempt, TipoSinAforo, prefijo, historia
  <2>3. QED BY <1>5, <2>1, <2>2 DEF BeginAttempt
<1>6. ASSUME NEW p \in Peticiones, TomaPlaza(p) PROVE TipoSinAforo'
  BY <1>1, <1>6, PasaTipado DEF TomaPlaza, TipoSinAforo, circuito, prefijo, historia
<1>7. ASSUME NEW p \in Peticiones, SinPlaza(p) \/ Aborta(p) PROVE TipoSinAforo'
  <2>1. CerrarSinIntentar(p) /\ Responde(p) /\ UNCHANGED <<prefijo, historia>>
    BY <1>7 DEF SinPlaza, Aborta
  <2>2. RecordFailure \/ UNCHANGED circuito
    BY <2>1 DEF CerrarSinIntentar
  <2>3. QED BY <1>1, <2>1, <2>2, RespondeTipado, CircuitoTipado DEF TipoSinAforo, prefijo, historia
<1>8. ASSUME NEW p \in Peticiones, Acierto(p) PROVE TipoSinAforo'
  <2>1. RecordSuccess \/ RecordFailure \/ UNCHANGED circuito
    BY <1>8 DEF Acierto, circuito
  <2>2. enfermo' \in BOOLEAN /\ rezagadas' \subseteq Peticiones
    BY <1>1, <1>8 DEF Acierto, TipoSinAforo, ModeloFalla, Indecisas, historia
  <2>3. QED BY <1>1, <1>8, <2>1, <2>2, PasaTipado, CircuitoTipado DEF Acierto, TipoSinAforo, prefijo
<1>9. ASSUME NEW p \in Peticiones, Regimen(p) PROVE TipoSinAforo'
  <2>1. avisado' \in BOOLEAN /\ avisando' \in 0 .. MaxAvisos /\ enterado' \in BOOLEAN
    BY <1>1, <1>9, AvisoTipado DEF Regimen, TipoSinAforo, prefijo, historia
  <2>2. QED BY <1>1, <1>9, <2>1, RespondeTipado DEF Regimen, TipoSinAforo, circuito, historia
<1>10. ASSUME NEW p \in Peticiones, Fallo(p) PROVE TipoSinAforo'
  <2>1. avisado' \in BOOLEAN /\ avisando' \in 0 .. MaxAvisos /\ enterado' \in BOOLEAN
    BY <1>1, <1>10, AvisoTipado DEF Fallo, TipoSinAforo, prefijo, historia
  <2>2. QED BY <1>1, <1>10, <2>1, PasaTipado DEF Fallo, TipoSinAforo, circuito, historia
<1>11. ASSUME NEW p \in Peticiones, RegistrarFallo(p) PROVE TipoSinAforo'
  <2>1. RecordFailure \/ UNCHANGED circuito
    BY <1>11 DEF RegistrarFallo, circuito
  <2>2. enfermo' \in BOOLEAN /\ rezagadas' \subseteq Peticiones
    BY <1>1, <1>11 DEF RegistrarFallo, TipoSinAforo, ModeloFalla, historia
  <2>3. QED BY <1>1, <1>11, <2>1, <2>2, RespondeTipado, CircuitoTipado DEF RegistrarFallo, TipoSinAforo, prefijo
<1>12. ASSUME Aviso PROVE TipoSinAforo'
  <2>1. avisando \in 0 .. MaxAvisos /\ MaxAvisos \in Nat
    BY <1>1, PlazasAssumption DEF TipoSinAforo
  <2>2. avisando' \in 0 .. MaxAvisos
    BY <1>12, <2>1 DEF Aviso
  <2>3. avisado' \in BOOLEAN /\ enterado' \in BOOLEAN
    BY <1>1, <1>12, Zenon DEF Aviso, TipoSinAforo, historia
  <2>4. QED BY <1>1, <1>12, <2>2, <2>3 DEF Aviso, TipoSinAforo, circuito, historia
<1>13. ASSUME Tic PROVE TipoSinAforo'
  BY <1>1, <1>13, UmbralAssumption DEF Tic, TipoSinAforo, prefijo, historia
<1>14. ASSUME UNCHANGED vars PROVE TipoSinAforo'
  BY <1>1, <1>14 DEF TipoSinAforo, vars, circuito, prefijo, historia
<1>15. QED
  BY <1>2, <1>3, <1>4, <1>5, <1>6, <1>7, <1>8, <1>9, <1>10, <1>11, <1>12, <1>13, <1>14
  DEF Next, NextServidor

\* The variables keep their types and no more requests are at the model than
\* the aforo has places (aforo.go), however many handlers compete for them.
THEOREM TipoCorrecto == Spec => []TypeOK
<1>1. Init => TypeOK
  BY TipoInicial
<1>2. TypeOK /\ [Next]_vars => TypeOK'
  BY TipoDePaso, AforoRespetado DEF TypeOK, TipoSinAforo
<1>3. QED BY <1>1, <1>2, PTL DEF Spec

(***************************************************************************)
(* The breaker.                                                            *)
(***************************************************************************)
\* What FalloConCausa needs to be inductive: on a closed circuit there is still one
\* cause for each failure counted and for each request that may add one; a circuit
\* that is not closed has had a cause for each of the failures that opened it.
CircuitoInv ==
  ~enfermo => IF Cerrado THEN failures + Cardinality(Indecisas) <= Cardinality(rezagadas)
                         ELSE Umbral <= Cardinality(rezagadas)

\* The sets of requests that the invariant counts.
LEMMA Contables ==
  ASSUME TypeOK, NEW S, S \subseteq Peticiones
  PROVE  IsFiniteSet(S) /\ Cardinality(S) \in Nat
BY PeticionesAssumption, FS_Subset, FS_CardinalityType

\* A handler that has returned, or has not begun, remembers nothing of the breaker.
SinMemoria == \A p \in Peticiones : pc[p] = "fuera" => ~eraSondeo[p]

LEMMA SinMemoriaDePaso == TypeOK /\ SinMemoria /\ [Next]_vars => SinMemoria'
<1> SUFFICES ASSUME TypeOK, SinMemoria, [Next]_vars PROVE SinMemoria'
  OBVIOUS
<1> USE DEF SinMemoria
<1>1. ASSUME NEW p \in Peticiones, Responde(p) PROVE SinMemoria'
  BY <1>1 DEF Responde, Pasa, TypeOK
<1>2. ASSUME NEW p \in Peticiones, UNCHANGED eraSondeo,
             NEW l \in {"estado", "pide", "espera", "modelo", "servida", "fallida"}, Pasa(p, l)
      PROVE  SinMemoria'
  BY <1>2 DEF Pasa, TypeOK
<1>3. ASSUME NEW p \in Peticiones, Llega(p) PROVE SinMemoria'
  <2>1. PICK l \in {"estado", "espera"} : Pasa(p, l)
    BY <1>3 DEF Llega
  <2>2. QED BY <1>2, <1>3, <2>1 DEF Llega
<1>4. ASSUME NEW p \in Peticiones, LeeEstado(p) PROVE SinMemoria'
  BY <1>4 DEF LeeEstado, Pasa, TypeOK
<1>5. ASSUME NEW p \in Peticiones, BeginAttempt(p) PROVE SinMemoria'
  BY <1>1, <1>2, <1>5 DEF BeginAttempt
<1>6. ASSUME NEW p \in Peticiones, TomaPlaza(p) \/ Acierto(p) \/ Fallo(p) PROVE SinMemoria'
  BY <1>2, <1>6 DEF TomaPlaza, Acierto, Fallo
<1>7. ASSUME NEW p \in Peticiones, SinPlaza(p) \/ Regimen(p) \/ Aborta(p) \/ RegistrarFallo(p)
      PROVE  SinMemoria'
  BY <1>1, <1>7 DEF SinPlaza, Regimen, Aborta, RegistrarFallo
<1>8. CASE UNCHANGED <<pc, eraSondeo>>
  BY <1>8
<1>9. ASSUME NEW p \in Peticiones, Cuelga(p) PROVE SinMemoria'
  BY <1>8, <1>9 DEF Cuelga
<1>10. CASE Aviso \/ Tic \/ UNCHANGED vars
  BY <1>8, <1>10 DEF Aviso, Tic, vars
<1>11. QED
  BY <1>3, <1>4, <1>5, <1>6, <1>7, <1>9, <1>10 DEF Next, NextServidor

LEMMA CuentaEnOrden == TypeOK /\ CircuitoInv => FalloConCausa
<1> SUFFICES ASSUME TypeOK, CircuitoInv PROVE FalloConCausa
  OBVIOUS
<1>1. Indecisas \subseteq Peticiones /\ rezagadas \subseteq Peticiones
  BY DEF Indecisas, TypeOK
<1>2. Cardinality(Indecisas) \in Nat /\ Cardinality(rezagadas) \in Nat
  BY <1>1, Contables
<1>3. failures \in 0 .. Umbral /\ Umbral \in Nat
  BY UmbralAssumption DEF TypeOK
<1>4. QED BY <1>2, <1>3 DEF CircuitoInv, FalloConCausa, Cerrado

\* A step that counts nothing and makes nobody indecisive keeps the invariant.
LEMMA NadaQueContar ==
  ASSUME TypeOK, TypeOK', CircuitoInv, UNCHANGED <<failures, historia>>,
         Cerrado => Indecisas' \subseteq Indecisas
  PROVE  CircuitoInv'
<1>1. Indecisas \subseteq Peticiones /\ rezagadas \subseteq Peticiones
  BY DEF Indecisas, TypeOK
<1>2. /\ IsFiniteSet(Indecisas) /\ Cardinality(Indecisas) \in Nat
      /\ Cardinality(rezagadas) \in Nat
  BY <1>1, Contables
<1>3. failures \in 0 .. Umbral /\ Umbral \in Nat
  BY UmbralAssumption DEF TypeOK
<1>4. Cerrado' = Cerrado /\ enfermo' = enfermo /\ rezagadas' = rezagadas /\ failures' = failures
  BY DEF Cerrado, historia
<1>5. CASE Cerrado
  <2>1. Cardinality(Indecisas') \in Nat /\ Cardinality(Indecisas') <= Cardinality(Indecisas)
    BY <1>2, <1>5, FS_Subset, FS_CardinalityType
  <2>2. QED BY <1>2, <1>3, <1>4, <1>5, <2>1 DEF CircuitoInv
<1>6. CASE ~Cerrado
  BY <1>4, <1>6 DEF CircuitoInv
<1>7. QED BY <1>5, <1>6

\* A handler that returns is no longer indecisive; nobody else changes.
LEMMA RespondeQuita ==
  ASSUME TypeOK, NEW p \in Peticiones, Responde(p)
  PROVE  Indecisas' = Indecisas \ {p}
BY DEF TypeOK, Indecisas, Responde, Pasa

LEMMA CircuitoDePaso ==
  TypeOK /\ TypeOK' /\ SinMemoria /\ CircuitoInv /\ [Next]_vars => CircuitoInv'
<1> SUFFICES ASSUME TypeOK, TypeOK', SinMemoria, CircuitoInv, [Next]_vars PROVE CircuitoInv'
  OBVIOUS
<1>1. failures \in 0 .. Umbral /\ Umbral \in Nat \ {0} /\ enfermo \in BOOLEAN
  BY UmbralAssumption DEF TypeOK
<1>2. Indecisas \subseteq Peticiones /\ rezagadas \subseteq Peticiones
  BY DEF Indecisas, TypeOK
<1>3. /\ IsFiniteSet(Indecisas) /\ Cardinality(Indecisas) \in Nat
      /\ Cardinality(rezagadas) \in Nat
  BY <1>2, Contables
<1>4. ASSUME ModeloFalla
      PROVE  CircuitoInv'
  BY <1>4 DEF ModeloFalla, CircuitoInv
<1>5. ASSUME NEW p \in Peticiones, LeeEstado(p) PROVE CircuitoInv'
  <2>1. Cerrado => ~MedioAbierto
    BY DEF MedioAbierto
  <2>2. Cerrado => Indecisas' \subseteq Indecisas
    BY <1>5, <2>1 DEF LeeEstado, Pasa, Indecisas, TypeOK
  <2>3. QED BY <1>5, <2>2, NadaQueContar DEF LeeEstado, circuito
<1>6. ASSUME NEW p \in Peticiones, SinPlaza(p) \/ Aborta(p) PROVE CircuitoInv'
  <2>1. /\ pc[p] \in {"espera", "modelo"}
        /\ CerrarSinIntentar(p) /\ Responde(p) /\ UNCHANGED historia
    BY <1>6 DEF SinPlaza, Aborta
  <2>2. Indecisas' = Indecisas \ {p}
    BY <2>1, RespondeQuita
  <2>3. CASE eraSondeo[p] /\ Cerrado
    <3>1. p \in Indecisas
      BY <2>1, <2>3 DEF Indecisas
    <3>2. Cardinality(Indecisas') = Cardinality(Indecisas) - 1
      BY <1>3, <2>2, <3>1, FS_RemoveElement
    <3>3. failures' = failures + 1
      BY <2>1, <2>3 DEF CerrarSinIntentar, RecordFailure
    <3>4. CASE enfermo
      BY <2>1, <3>4 DEF CircuitoInv, historia
    <3>5. CASE ~enfermo
      <4>1. failures' + Cardinality(Indecisas') <= Cardinality(rezagadas)
        BY <1>1, <1>3, <2>3, <3>2, <3>3, <3>5 DEF CircuitoInv
      <4>2. Cardinality(Indecisas') \in Nat /\ failures' \in Nat
        BY <1>1, <1>2, <1>3, <2>2, <3>3, Contables
      <4>3. failures' <= Cardinality(rezagadas)
        BY <1>3, <4>1, <4>2
      <4>4. ~Cerrado' => Umbral <= failures'
        BY <1>1, <4>2 DEF Cerrado
      <4>5. rezagadas' = rezagadas
        BY <2>1 DEF historia
      <4>6. QED BY <1>1, <1>3, <4>1, <4>2, <4>3, <4>4, <4>5 DEF CircuitoInv
    <3>6. QED BY <3>4, <3>5
  <2>4. CASE ~eraSondeo[p] \/ ~Cerrado
    <3>1. failures' = failures
      BY <2>1, <2>4 DEF CerrarSinIntentar, RecordFailure, circuito
    <3>2. QED BY <2>1, <2>2, <3>1, NadaQueContar
  <2>5. QED BY <2>3, <2>4
<1>7. ASSUME NEW p \in Peticiones, Acierto(p) PROVE CircuitoInv'
  <2>1. pc[p] = "modelo" /\ Pasa(p, "servida") /\ UNCHANGED eraSondeo
    BY <1>7 DEF Acierto
  <2>2. Indecisas' = Indecisas \ {p}
    BY <2>1 DEF Indecisas, Pasa, TypeOK
  <2>3. CASE RecordSuccess /\ enfermo' = FALSE /\ rezagadas' = Indecisas \ {p}
    <3>1. failures' = 0 /\ rezagadas' = Indecisas'
      BY <2>2, <2>3 DEF RecordSuccess
    <3>2. Cardinality(Indecisas') \in Nat
      BY <1>2, <2>2, Contables
    <3>3. Cerrado'
      BY <1>1, <3>1 DEF Cerrado
    <3>4. QED BY <3>1, <3>2, <3>3 DEF CircuitoInv
  <2>4. CASE UNCHANGED <<circuito, historia>>
    BY <2>2, <2>4, NadaQueContar DEF circuito
  <2>5. QED BY <1>4, <1>7, <2>3, <2>4 DEF Acierto
<1>8. ASSUME NEW p \in Peticiones, RegistrarFallo(p) PROVE CircuitoInv'
  <2>1. CASE Cuenta(p)
    BY <1>4, <1>8, <2>1 DEF RegistrarFallo
  <2>2. CASE ~Cuenta(p)
    <3>1. Indecisas' = Indecisas \ {p}
      BY <1>8, RespondeQuita DEF RegistrarFallo
    <3>2. QED BY <1>8, <2>2, <3>1, NadaQueContar DEF RegistrarFallo, circuito
  <2>3. QED BY <2>1, <2>2
<1>9. ASSUME NEW p \in Peticiones, Regimen(p) PROVE CircuitoInv'
  <2>1. Indecisas' = Indecisas \ {p}
    BY <1>9, RespondeQuita DEF Regimen
  <2>2. QED BY <1>9, <2>1, NadaQueContar DEF Regimen, circuito
<1>10. ASSUME NEW p \in Peticiones, BeginAttempt(p) PROVE CircuitoInv'
  <2>1. CASE Pasa(p, "espera") /\ UNCHANGED eraSondeo
    <3>1. Indecisas' = Indecisas
      BY <1>10, <2>1 DEF BeginAttempt, Pasa, Indecisas, TypeOK
    <3>2. QED BY <1>10, <3>1, NadaQueContar DEF BeginAttempt
  <2>2. CASE Responde(p)
    BY <1>10, <2>2, RespondeQuita, NadaQueContar DEF BeginAttempt
  <2>3. QED BY <1>10, <2>1, <2>2 DEF BeginAttempt
<1>11. ASSUME NEW p \in Peticiones, Llega(p) PROVE CircuitoInv'
  <2>1. Indecisas' \subseteq Indecisas
    BY <1>11 DEF Llega, Pasa, Indecisas, TypeOK, SinMemoria
  <2>2. QED BY <1>11, <2>1, NadaQueContar DEF Llega, circuito
<1>12. ASSUME NEW p \in Peticiones, Cuelga(p) \/ TomaPlaza(p) \/ Fallo(p) PROVE CircuitoInv'
  <2>1. Indecisas' \subseteq Indecisas
    BY <1>12 DEF Cuelga, TomaPlaza, Fallo, Pasa, Indecisas, TypeOK
  <2>2. QED BY <1>12, <2>1, NadaQueContar DEF Cuelga, TomaPlaza, Fallo, circuito
<1>13. CASE Aviso \/ Tic \/ UNCHANGED vars
  <2>1. Indecisas' = Indecisas /\ UNCHANGED <<failures, historia>>
    BY <1>13 DEF Aviso, Tic, vars, circuito, Indecisas
  <2>2. QED BY <2>1, NadaQueContar
<1>14. QED
  BY <1>5, <1>6, <1>7, <1>8, <1>9, <1>10, <1>11, <1>12, <1>13 DEF Next, NextServidor

\* Requests that are abandoned, that find no place or that are warm-ups add no
\* failure to the breaker (cerrarSinIntentar, Inferir): while the model has not
\* failed since its last success, each failure counted is of a different one of the
\* requests that had read half-open before that success and had still to try.
THEOREM SoloRezagadasCuentan == Spec => []FalloConCausa
<1>1. Init => CircuitoInv
  <2> SUFFICES ASSUME Init PROVE CircuitoInv
    OBVIOUS
  <2>1. Indecisas = {} /\ rezagadas = {} /\ failures = 0
    BY DEF Init, Indecisas
  <2>2. Cerrado
    BY <2>1, UmbralAssumption DEF Cerrado
  <2>3. QED BY <2>1, <2>2, FS_EmptySet DEF CircuitoInv
<1>2. Init => SinMemoria
  BY DEF Init, SinMemoria
<1>3. QED
  BY <1>1, <1>2, CircuitoDePaso, SinMemoriaDePaso, CuentaEnOrden, TipoCorrecto, PTL DEF Spec

(***************************************************************************)
(* The notice of the cold prefix.                                          *)
(***************************************************************************)
LEMMA AvisoDePaso == TypeOK /\ AvisoNoSeCalla /\ [Next]_vars => AvisoNoSeCalla'
<1> SUFFICES ASSUME TypeOK, AvisoNoSeCalla, [Next]_vars PROVE AvisoNoSeCalla'
  OBVIOUS
<1> USE DEF AvisoNoSeCalla
<1>1. avisado \in BOOLEAN /\ avisando \in 0 .. MaxAvisos /\ MaxAvisos \in Nat
  BY PlazasAssumption DEF TypeOK
<1>2. ASSUME UNCHANGED prefijo
      PROVE  AvisoNoSeCalla'
  BY <1>2 DEF prefijo
<1>3. ASSUME AvisarPrefijoFrio
      PROVE  AvisoNoSeCalla'
  <2>1. CASE avisado
    BY <1>2, <1>3, <2>1 DEF AvisarPrefijoFrio, prefijo
  <2>2. CASE ~avisado
    <3>1. avisando' = avisando + 1
      BY <1>3, <2>2 DEF AvisarPrefijoFrio
    <3>2. avisando' # 0
      BY <1>1, <3>1
    <3>3. QED BY <3>2
  <2>3. QED BY <2>1, <2>2
<1>4. ASSUME NEW p \in Peticiones, Regimen(p) PROVE AvisoNoSeCalla'
  BY <1>2, <1>3, <1>4 DEF Regimen
<1>5. ASSUME NEW p \in Peticiones, Fallo(p) PROVE AvisoNoSeCalla'
  BY <1>2, <1>3, <1>5 DEF Fallo
<1>6. ASSUME Aviso PROVE AvisoNoSeCalla'
  BY <1>1, <1>6 DEF Aviso
<1>7. ASSUME NEW p \in Peticiones, Llega(p) \/ Cuelga(p) \/ NextServidor(p), ~Regimen(p), ~Fallo(p)
      PROVE  UNCHANGED prefijo
  BY <1>7 DEF NextServidor, Llega, Cuelga, LeeEstado, BeginAttempt, TomaPlaza, SinPlaza,
              Acierto, Aborta, RegistrarFallo
<1>8. CASE Tic \/ UNCHANGED vars
  BY <1>2, <1>8 DEF Tic, vars
<1>9. QED BY <1>2, <1>4, <1>5, <1>6, <1>7, <1>8 DEF Next

\* A notice that fails arms the guard again (avisarPrefijoFrio), so an episode of
\* cold prefix is never left without a notice, sent or on its way.
THEOREM AvisoNoSePierde == Spec => []AvisoNoSeCalla
<1>1. Init => AvisoNoSeCalla
  BY DEF Init, AvisoNoSeCalla
<1>2. QED BY <1>1, AvisoDePaso, TipoCorrecto, PTL DEF Spec
=============================================================================
