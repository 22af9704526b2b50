--------------------------- MODULE MCClosureProof ---------------------------
EXTENDS ClosureProof, TLC

CONSTANTS c1, c2, p1, p2

\* Two checks share a path; each passes on some of the trees it can see.
MCPlan == <<c1, c2>>
MCScope == c1 :> {p1} @@ c2 :> {p1, p2}
MCGood == c1 :> {t \in Tree : t[p1] # 0} @@ c2 :> {t \in Tree : t[p1] = t[p2]}
=============================================================================
