--------------------------- MODULE MCReplayProxy ---------------------------
(* Requests and connections for TLC: one question, a drift of it the ladder *)
(* meets on rung 2, and a stranger to both.                                 *)
EXTENDS ReplayProxy, TLC

CONSTANTS c1, c2, c3

Base == [ask |-> 0, out |-> 0, count |-> 1, drift |-> 0, salt |-> 0]
Drifted == [Base EXCEPT !.drift = 1]
Stranger == [Base EXCEPT !.ask = 9]

MCRequests == {Base, Drifted, Stranger}
MCPair == {Base, Stranger}
MCClose == {Base, Drifted}

\* Connections are interchangeable: requests, not they, carry meaning.
ConnSymmetry == Permutations(Conns)
=============================================================================
