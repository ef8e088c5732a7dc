---------------------------- MODULE MCTlsIntercept ----------------------------
(* Two calls, over at most two sessions to the origin. *)
EXTENDS TlsIntercept

CONSTANTS one, two, s1, s2

Ask(model, big) == [model |-> model, big |-> big]
Start(mode_, k, r) ==
  [mode |-> mode_,
   kind |-> [c \in Calls |-> IF c = one THEN k[1] ELSE k[2]],
   request |-> [c \in Calls |-> IF c = one THEN r[1] ELSE r[2]]]

Model == Ask(TRUE, FALSE)
Big == Ask(TRUE, TRUE)
Other == Ask(FALSE, FALSE)

AllStarts ==
  {Start("record", k, <<Model, Model>>) :
     k \in {<<"h1", "h2">>, <<"h2", "h2">>, <<"tunnel", "h1">>}}
  \union {Start("record", <<"h1", "h2">>, <<Big, Other>>)}
  \union {Start(m, <<"h1", "h2">>, r) :
            m \in {"strict", "hybrid"}, r \in {<<Model, Model>>, <<Big, Other>>, <<Other, Big>>}}

TwoStreams == {Start("record", <<"h2", "h2">>, <<Model, Model>>)}
=============================================================================
