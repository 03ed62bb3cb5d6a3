------------------------- MODULE MCWorkbookAdapter -------------------------
(* Clients of one operation key, and a session that the workbook may lose   *)
(* or exchange while they wait for list_sessions.                           *)
EXTENDS WorkbookAdapter, TLC

CONSTANTS c1, c2, e1, e2, r1, k1, s1

TwoClients   == {c1, c2}
OneExecutor  == {e1}
TwoExecutors == {e1, e2}
OneRequest   == {r1}
OneKey       == {k1}
KeyOfAll     == [r \in Requests |-> k1]
OneSession   == {s1}

Symmetry == Permutations(Clients) \cup Permutations(Executors)
=============================================================================
