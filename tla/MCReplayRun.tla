----------------------------- MODULE MCReplayRun -----------------------------
(***************************************************************************)
(* A command of the CLI, and the two kinds of call a replay answers beside *)
(* the model's: embeddings and reranking, and MCP.  They share no state,   *)
(* so each behaviour moves one of the three and the others stay where they *)
(* began.                                                                  *)
(***************************************************************************)
EXTENDS RunSession, RetrievalReplay, McpReplay

CONSTANTS x1, x2, a, b, p1, p2

\* Three texts with a repetition in two orders, the same set of texts in other
\* numbers, and a call that has no batch key.
Embed(input) == [rule |-> "openai-embeddings", input |-> input]
MCTexts == {a, b}
MCRequests ==
  {Embed(<<a, a, b>>), Embed(<<a, b, a>>), Embed(<<a, b, b>>), [rule |-> "rerank", input |-> <<a>>]}

\* A tool that is called with two sets of arguments.
MCCalls == {[method |-> "tools/call", args |-> "a"], [method |-> "tools/call", args |-> "b"]}
MCNoCall == [method |-> "", args |-> "null"]

VARIABLE part    \* which of the three this behaviour is about

Parts == {"session", "retrieval", "mcp"}
replayRunVars == <<part, sessionVars, retrievalVars, mcpVars>>

\* One state for a part that stays where it began.
Still ==
  /\ part = "session" \/ (command = "replay")
  /\ part = "retrieval" \/ config = CHOOSE c \in Configs : c.mode = "record" /\ ~ c.loose

ReplayRunInit == part \in Parts /\ SessionInit /\ RetrievalInit /\ McpInit /\ Still

ReplayRunNext ==
  /\ UNCHANGED part
  /\ \/ part = "session" /\ SessionNext /\ UNCHANGED <<retrievalVars, mcpVars>>
     \/ part = "retrieval" /\ RetrievalNext /\ UNCHANGED <<sessionVars, mcpVars>>
     \/ part = "mcp" /\ McpNext /\ UNCHANGED <<sessionVars, retrievalVars>>

\* Fairness is the session's: behaviours of the other two are not asked for liveness.
ReplayRunSpec ==
  ReplayRunInit /\ [][ReplayRunNext]_replayRunVars /\ SessionFairness
=============================================================================
