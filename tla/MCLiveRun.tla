------------------------------ MODULE MCLiveRun ------------------------------
(***************************************************************************)
(* What goes on around a live agent: its turns with a model of another     *)
(* provider (ForkTurns), the frames its shells and its interpreter write   *)
(* for a command to read (Transports), and the adapters that write for the *)
(* interpreter (AgentSpans).  They share no state, so each behaviour moves *)
(* one of the three and the others stay where they began.                  *)
(***************************************************************************)
EXTENDS ForkTurns, Transports, AgentSpans, TLC

CONSTANTS r1, r2, ls, git, node, tool, py1, py2

Wanted(first, second) == r1 :> first @@ r2 :> second
\* A recording and a second one beside it, which may sweep what the first left.
MCPlans == {Wanted({"shell"}, {}), Wanted({"spans"}, {}), Wanted({"shell", "spans"}, {}), Wanted({}, {"shell"})}
Alike == Permutations(Commands) \union Permutations(Nodes) \union Permutations(Pythons)

\* What a provider may say, in three turns: prose, calls side by side, a call
\* between two texts, reasoning, nothing at all, and a call cut short.
CallsOf(t) == <<Use(10 * t + 1, "object"), Use(10 * t + 2, "none")>>

MCContent ==
  [t \in 0..2 |->
     {<<Text(<<"a", "b">>)>> \o CallsOf(t),
      <<Thinking(<<"x">>), Text(<<"a">>), Use(10 * t + 1, "object"), Text(<<"b">>)>>,
      <<Thinking(<<"x">>), Text(<<"c">>), Use(10 * t + 1, "raw")>>,
      << >>}]

\* Those the default list of dialects takes, and one a list in another order would.
MCRoutes ==
  {<<"anthropic", "openai">>, <<"openai", "anthropic">>, <<"responses", "anthropic">>,
   <<"anthropic", "codex">>, <<"codex", "openai">>, <<"anthropic", "responses">>}
CodexRoute == {<<"codex", "anthropic">>}

\* Both frameworks with each adapter installed or not, and an agent with a
\* module of its own named agents.
OneOf(adapters, provided) == [adapter |-> adapters, dist |-> provided, named |-> Frameworks]
MCMachines ==
  {OneOf(a, Frameworks) : a \in [Frameworks -> {"missing", "here"}]}
    \union {OneOf([f \in Frameworks |-> IF f = "agents" THEN "missing" ELSE "here"], {"langgraph"})}
MCDoings == {<<"trace", 0>>, <<"AgentSpanData", 1>>, <<"LangGraphNode", 1>>}

VARIABLE part    \* which of the three this behaviour is about

liveVars == <<part, forkVars, transportVars, spansVars>>

LiveInit ==
  /\ part \in {"turns", "transports", "spans"}
  /\ ForkInit /\ TransportsInit /\ SpansInit
  /\ part = "turns" \/ (route = <<"anthropic", "openai">> /\ got.content = << >>)
  /\ part = "transports" \/ (wants = Wanted({"shell"}, {}) /\ apart)
  /\ part = "spans" \/ machine = CHOOSE m \in MCMachines : TRUE

LiveNext ==
  /\ UNCHANGED part
  /\ \/ part = "turns" /\ ForkNext /\ UNCHANGED <<transportVars, spansVars>>
     \/ part = "transports" /\ TransportsNext /\ UNCHANGED <<forkVars, spansVars>>
     \/ part = "spans" /\ SpansNext /\ UNCHANGED <<forkVars, transportVars>>

LiveSpec == LiveInit /\ [][LiveNext]_liveVars
=============================================================================
