-------------------------- MODULE MCRequestMatcher --------------------------
(* Requests for TLC: one question and its drifts.  The last two are strangers to *)
(* each other: rung 4.                                                           *)
EXTENDS RequestMatcher

Base == [ask |-> 0, out |-> 0, count |-> 1, drift |-> 0, salt |-> 0]

MCRequests ==
  { Base,
    [Base EXCEPT !.salt = 1],    \* equal after the fold: rung 2, distance 0
    [Base EXCEPT !.drift = 1],   \* a small difference around it: rung 2
    [Base EXCEPT !.count = 2],   \* a compacted history: rung 3
    [Base EXCEPT !.out = 9] }    \* the world answered differently: rung 3
=============================================================================
