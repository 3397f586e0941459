--------------------------- MODULE MCColaEntrantes ---------------------------
(***************************************************************************)
(* Small instances of ColaEntrantes.                                       *)
(***************************************************************************)
EXTENDS ColaEntrantes

CONSTANTS s1, s2, c1, c2, w1, w2, w3

M(s, c, w) == [sesion |-> s, chat |-> c, wa |-> w]

\* Two sessions, two messages for one and one for the other: a cap of one row
\* can be exceeded by two of them.
DosSesiones == {s1, s2}
DosYUno == {M(s1, c1, w1), M(s1, c1, w2), M(s2, c1, w3)}

\* One session, one conversation of two messages and another of one.
UnaSesion == {s1}
DosChats == {M(s1, c1, w1), M(s1, c1, w2), M(s1, c2, w3)}

Vacia == {{}}

\* What an older process left: rows an old cajero had claimed or classified,
\* more rows than a cap the operator has since lowered, or a single row.
F(i, m, e) == [id |-> i, seq |-> i, n |-> i, msg |-> m, estado |-> e, sello |-> 0]
Heredadas ==
  { {F(1, M(s1, c1, w1), "nuevo"), F(2, M(s1, c2, w3), "clasificado"), F(3, M(s1, c1, w2), "tomado")},
    {F(1, M(s1, c2, w3), "despachado"), F(2, M(s1, c1, w1), "nuevo"), F(3, M(s1, c1, w2), "tomado")},
    {F(1, M(s1, c1, w1), "nuevo"), F(2, M(s1, c2, w3), "clasificado")} }
=============================================================================
