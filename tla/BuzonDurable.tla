---------------------------- MODULE BuzonDurable ----------------------------
(***************************************************************************)
(* What the inbox of the Edge promises to those who use it, with no table, *)
(* no order column, no cap, no statement and no crash: messages are        *)
(* numbered as they are admitted; each session hands its own to the cloud  *)
(* in that order, never going back behind one it has handed over and never *)
(* leaving an earlier one behind; what is given up is written down, and    *)
(* what leaves otherwise leaves one message at a time.                     *)
(*                                                                         *)
(* ColaEntrantes implements it: a restart of the process, the statements   *)
(* of an Enqueue and the work of the dispatchers between a delivery and    *)
(* its seal are all steps that this module does not see.                   *)
(***************************************************************************)
EXTENDS Naturals

CONSTANT Sesiones

VARIABLES
  total,        \* messages admitted so far
  pendientes,   \* pairs <<session, number>> that are still to be handled
  ultima,       \* per session: the number it last handed over
  sacrificadas  \* the numbers that were given up

vars == <<total, pendientes, ultima, sacrificadas>>

\* An inbox may be opened with work that was left in it.
Init ==
  /\ total \in Nat
  /\ pendientes \subseteq Sesiones \X (0 .. total)
  /\ ultima = [s \in Sesiones |-> 0]
  /\ sacrificadas = {}

Admite(s) ==
  /\ total' = total + 1
  /\ pendientes' = pendientes \cup {<<s, total + 1>>}
  /\ UNCHANGED <<ultima, sacrificadas>>

\* k is the oldest of its session, the last one again, or one that was given up
\* after the session had taken it.
Entrega(s) ==
  \E k \in ultima[s] .. total :
    /\ \A x \in pendientes : x[1] = s => k <= x[2]
    /\ ultima' = [ultima EXCEPT ![s] = k]
    /\ UNCHANGED <<total, pendientes, sacrificadas>>

\* One message is done with.
Retira ==
  \E x \in pendientes :
    /\ pendientes' = pendientes \ {x}
    /\ UNCHANGED <<total, ultima, sacrificadas>>

\* Messages are given up, and it is written down which.
Sacrifica ==
  /\ pendientes' \subseteq pendientes
  /\ sacrificadas' = sacrificadas \cup {x[2] : x \in pendientes \ pendientes'}
  /\ UNCHANGED <<total, ultima>>

Next == (\E s \in Sesiones : Admite(s) \/ Entrega(s)) \/ Retira \/ Sacrifica

Spec == Init /\ [][Next]_vars
=============================================================================
