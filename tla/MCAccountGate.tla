--------------------------- MODULE MCAccountGate ---------------------------
(* A request of any kind beside a plain one, on a route that asks for the    *)
(* status: the plain one reads and fills the cache as any other would.       *)
EXTENDS AccountGate

CONSTANT Plain

Plainly == ask[Plain] \in {NoAsk, [plane |-> "route", status |-> TRUE, challenge |-> FALSE]}

MCSpec == GateInit /\ [][GateNext /\ Plainly']_gateVars

\* Nothing depends on how the last request was answered, nor on the age of the
\* last change once no stale status is left: states that differ only there have
\* the same future and one of them is explored.
StaleStatus ==
    \/ us.value \notin {None, user.status}
    \/ \E r \in Request : gate[r] \in Waiting /\ got[r].status # user.status
View ==
    <<conf, user, writer, IF StaleStatus THEN since ELSE SinceCap, cache, local, settled, current,
      [r \in Request |-> IF Running(r) THEN gate[r] ELSE "idle"]>>
=============================================================================
