--------------------------- MODULE MCRefreshQueue ---------------------------
(* Instances of RefreshQueue for TLC.                                       *)
EXTENDS RefreshQueue, TLC

CONSTANTS p1, p2, r1, r2, web, worker
TwoPasses == {p1, p2}
TwoRows == {r1, r2}
Hosts == {web, worker}
\* Two requests of the web host, or one and the worker.
SharedOrNot ==
    {f \in [TwoPasses -> Hosts] : \E p \in TwoPasses : f[p] = web}
AnyRowAnyPass == Permutations(Rows) \cup Permutations(Passes)
=============================================================================
