----------------------------- MODULE ForkTurns -----------------------------
(***************************************************************************)
(* A conversation whose model a fork has moved to another provider: goLive *)
(* in packages/proxy/src/server.ts, over the translators of Translation.   *)
(* The agent speaks its own dialect throughout; every request crosses to   *)
(* the provider's and every reply comes back, streamed or whole.  The      *)
(* agent and the provider are external: what they write is what their      *)
(* dialect lets them.                                                      *)
(***************************************************************************)
EXTENDS Translation

CONSTANTS
  Routes,    \* the pairs <<agent's dialect, provider's dialect>> to look at
  Content,   \* what a provider may say: content of a turn, the ids by turn
  MaxTurns   \* bound: requests of a conversation

ASSUME ForkAssumption == Routes \subseteq Dialects \X Dialects /\ MaxTurns \in Nat

VARIABLES
  route,     \* <<agent, provider>>
  turn,      \* requests made
  history,   \* the items of the agent's conversation, in its dialect
  story,     \* the same as blocks, as the agent had it
  phase,     \* "agent", "asking", "asked", "streaming" or "over"
  sent,      \* the request the provider was sent
  reply,     \* what the provider is saying
  out,       \* how much of each block it has streamed, -1 before it begins
  asm,       \* the proxy's assembler of that stream
  got        \* the reply the agent read

forkVars == <<route, turn, history, story, phase, sent, reply, out, asm, got>>

Agent == route[1]
Provider == route[2]

System == <<"sys">>
NoReply == Reply(<< >>, "none", NoUsage)
Cost == Usage(2, 1, 1)

-----------------------------------------------------------------------------
(* The agent. *)

\* Words of the user, or of a system message in the middle of a conversation.
Says(role) ==
  IF Agent \in {"responses", "codex"}
    THEN <<[type |-> "message", role |-> role, parts |-> <<<<role>>>>]>>
  ELSE IF Agent = "openai"
    THEN <<IF role = "system" THEN [role |-> role, text |-> <<role>>]
           ELSE [role |-> role, text |-> <<role>>, calls |-> << >>]>>
  ELSE <<Message(role, <<Text(<<role>>)>>)>>

\* The results of its tools, in the order they were asked for.
Answers(calls) ==
  LET Out(c) == [type |-> "function_call_output", call |-> c.id, text |-> <<"result">>] IN
  CASE calls = << >> -> << >>
    [] Agent = "anthropic" -> <<Message("user", Map(LAMBDA c : Result(c.id, <<"result">>), calls))>>
    [] Agent = "openai" ->
         Map(LAMBDA c : [role |-> "tool", id |-> c.id, text |-> <<"result">>], calls)
    [] OTHER -> Map(Out, calls)

\* How it keeps a reply.
Keeps(content) ==
  CASE Agent = "anthropic" -> <<Message("assistant", content)>>
    [] Agent = "openai" ->
         <<[role |-> "assistant", text |-> TextOf("text", content),
            calls |-> Map(Call, OfType("tool_use", content))]>>
    [] OTHER -> Output(content)

\* Anthropic takes one user turn for the results and what is said with them.
Joins(items, more) ==
  IF Agent = "anthropic" /\ items # << >> /\ more # << >> /\ Last(items).role = "user"
    THEN AppendTo(items, more[1].content) ELSE items \o more

Request ==
  IF Agent = "openai"
    THEN [system |-> << >>, items |-> <<[role |-> "system", text |-> System]>> \o history]
    ELSE [system |-> System, items |-> history]

\* The proxy's half of it: through canonical, whenever the providers differ.
Translated(request) ==
  FromCanonicalRequest(Provider, ToCanonicalRequest(Agent, request))

\* The agent answers the calls of the last reply, or says something, or both.
Asks(role) ==
  /\ phase = "agent" /\ turn < MaxTurns
  /\ LET calls == OfType("tool_use", got.content) IN
       /\ role = "nobody" => calls # << >>
       /\ role = "system" => Agent # "anthropic"
       /\ history' = Joins(history \o Answers(calls), IF role = "nobody" THEN << >> ELSE Says(role))
       /\ story' = story \o Map(LAMBDA c : Result(c.id, <<"result">>), calls)
                   \o (IF role = "user" THEN <<Text(<<role>>)>> ELSE << >>)
  /\ phase' = "asking" /\ turn' = turn + 1
  /\ UNCHANGED <<route, sent, reply, out, asm, got>>

\* goLive() translates and forwards.
Forwards ==
  /\ phase = "asking"
  /\ sent' = Translated(Request) /\ phase' = "asked"
  /\ UNCHANGED <<route, turn, history, story, reply, out, asm, got>>

-----------------------------------------------------------------------------
(* The provider. *)

\* One text, then calls, is all a chat completion holds.
Expressible(content) ==
  Provider = "openai" =>
    \A j \in DOMAIN content : content[j].type # "tool_use" =>
      \A i \in 1..(j - 1) : content[i].type = "thinking" /\ content[j].type = "text"

ProviderBody(r) ==
  IF Provider = "codex"
    THEN [status |-> IF r.stop = "max_tokens" THEN "incomplete" ELSE "completed",
          output |-> Output(r.content), usage |-> ToPrompt(r.usage)]
    ELSE Body(Provider, r)

StopOf(content) ==
  IF ~ HasType("tool_use", content) THEN "end_turn"
  ELSE IF \E b \in ToSet(OfType("tool_use", content)) : b.input = "raw" THEN "max_tokens"
  ELSE "tool_use"

Begins(content) ==
  /\ phase = "asked" /\ Expressible(content)
  /\ reply' = Reply(content, StopOf(content),
                    IF Provider = "anthropic" THEN Cost ELSE [Cost EXCEPT !.write = 0])
  /\ out' = [i \in DOMAIN content |-> -1]
  /\ asm' = NewAssembler /\ phase' = "streaming"
  /\ UNCHANGED <<route, turn, history, story, sent, got>>

Block(i) == reply.content[i]
Place(i) ==
  IF Provider = "openai" /\ Block(i).type = "tool_use"
    THEN Cardinality({j \in 1..i : Block(j).type = "tool_use"}) ELSE i
Size(i) == Len(Fragments(Block(i)))
IsDone(i) == out[i] > Size(i)

Emits(frame) == asm' = Handle(Provider, asm, frame)

\* Anthropic and codex stream a block at a time, the others any that have begun.
Announces(i) ==
  /\ phase = "streaming" /\ out[i] = -1
  /\ \A j \in 1..(i - 1) : IF Provider \in {"anthropic", "codex"} THEN IsDone(j) ELSE out[j] >= 0
  /\ out' = [out EXCEPT ![i] = 0]
  /\ Emits([frame |-> "start", at |-> Place(i), block |-> Block(i)])
  /\ UNCHANGED <<route, turn, history, story, phase, sent, reply, got>>

Streams(i) ==
  /\ phase = "streaming" /\ out[i] \in 0..(Size(i) - 1)
  /\ out' = [out EXCEPT ![i] = @ + 1]
  /\ Emits([frame |-> "delta", at |-> Place(i), type |-> Block(i).type,
            word |-> Fragments(Block(i))[out[i] + 1]])
  /\ UNCHANGED <<route, turn, history, story, phase, sent, reply, got>>

Completes(i) ==
  /\ phase = "streaming" /\ out[i] = Size(i)
  /\ out' = [out EXCEPT ![i] = @ + 1]
  /\ Emits([frame |-> "done", at |-> Place(i), block |-> Block(i)])
  /\ UNCHANGED <<route, turn, history, story, phase, sent, reply, got>>

-----------------------------------------------------------------------------
(* The reply on its way back. *)

\* As the agent reads it: in its dialect, as the body or the stream it asked for.
Read(canonical, streamed) ==
  IF streamed THEN ReadFrames(Agent, Frames(Agent, canonical))
  ELSE ReadBody(Agent, Body(Agent, canonical))

\* An agent that was told of an error does not go on.
HandsOver(canonical, streamed) ==
  /\ got' = Read(canonical, streamed)
  /\ IF canonical.stop = "error"
       THEN phase' = "over" /\ UNCHANGED <<history, story>>
       ELSE /\ phase' = "agent"
            /\ history' = history \o Keeps(got'.content)
            /\ story' = story \o got'.content
  /\ UNCHANGED <<route, turn, sent, reply, out>>

FinishesStream(streamed) ==
  /\ phase = "streaming" /\ \A i \in DOMAIN out : IsDone(i)
  /\ Emits([frame |-> "finish", body |-> ProviderBody(reply)])
  /\ HandsOver(Assembled(Provider, asm'), streamed)

\* The provider does not stream.
AnswersWhole(streamed) ==
  /\ phase = "streaming" /\ \A i \in DOMAIN out : out[i] = -1
  /\ HandsOver(ReadBody(Provider, ProviderBody(reply)), streamed)
  /\ UNCHANGED asm

\* The call fails in the middle of the stream.
Fails(streamed) ==
  /\ phase = "streaming"
  /\ Emits([frame |-> "error", text |-> <<"error">>])
  /\ HandsOver(Assembled(Provider, asm'), streamed)

-----------------------------------------------------------------------------
\* The fork takes over behind a turn that was replayed from the recording.
ForkInit ==
  /\ route \in Routes
  /\ got \in {Reply(content, StopOf(content), NoUsage) : content \in Content[0]}
  /\ history = Says("user") \o Keeps(got.content)
  /\ story = <<Text(<<"user">>)>> \o got.content
  /\ turn = 0 /\ phase = "agent"
  /\ sent = [system |-> << >>, items |-> << >>]
  /\ reply = NoReply /\ out = << >> /\ asm = NewAssembler

ForkNext ==
  \/ \E role \in {"nobody", "user", "system"} : Asks(role)
  \/ Forwards
  \/ \E content \in Content[turn] : Begins(content)
  \/ \E i \in DOMAIN out : Announces(i) \/ Streams(i) \/ Completes(i)
  \/ \E streamed \in BOOLEAN :
       FinishesStream(streamed) \/ AnswersWhole(streamed) \/ Fails(streamed)

ForkSpec == ForkInit /\ [][ForkNext]_forkVars

-----------------------------------------------------------------------------
(* Properties.  Blocks are compared by what they say: the words of their   *)
(* texts in order, the calls in order, and the results in order.           *)

Words(type, blocks) ==
  SelectSeq(FlattenSeq(Map(LAMBDA b : b.text, OfType(type, blocks))), LAMBDA w : w # Newline)
Uses(blocks) == Map(LAMBDA b : <<b.id, b.input>>, OfType("tool_use", blocks))
Results(blocks) == Map(LAMBDA b : b.id, OfType("tool_result", blocks))

\* What a provider makes of the items of a request.
Meant(item) ==
  IF Provider = "anthropic" THEN item.content
  ELSE IF Provider = "openai"
    THEN IF item.role = "system" THEN << >>
         ELSE IF item.role = "tool" THEN <<Result(item.id, item.text)>>
         ELSE OpenaiMessage(item).content
  ELSE ItemTurn(item).blocks
Received == FlattenSeq(Map(Meant, sent.items))

Asked == phase = "asked"
IdsOf(type, blocks) == {b.id : b \in ToSet(OfType(type, blocks))}

\* No word, call or result is lost, doubled or reordered, over all the turns.  Only
\* text crosses into codex.
StoryIsWhole ==
  Asked =>
    /\ Words("text", Received) = Words("text", story)
    /\ Provider # "codex" =>
         Uses(Received) = Uses(story) /\ Results(Received) = Results(story)

\* An Anthropic turn of calls is followed by the one turn of its results, a chat
\* completion's by one tool message each, and a Responses output comes behind its
\* call.  (A codex agent's calls are a message each.)
CallsOfItem(i) ==
  LET item == sent.items[i] IN
  IF Provider = "anthropic" THEN IdsOf("tool_use", item.content)
  ELSE IF item.role = "assistant" THEN {c.id : c \in ToSet(item.calls)} ELSE {}
ResultsOfItem(i) ==
  LET item == sent.items[i] IN
  IF Provider = "anthropic" THEN IdsOf("tool_result", item.content)
  ELSE IF item.role = "tool" THEN {item.id} ELSE {}
Behind(i) ==
  IF Provider = "anthropic" THEN {i + 1} ELSE (i + 1)..(i + Cardinality(CallsOfItem(i)))

ResultsBehindCalls ==
  Asked /\ Agent # "codex" =>
    IF Provider \in {"anthropic", "openai"}
    THEN \A i \in DOMAIN sent.items :
           /\ CallsOfItem(i) # {} =>
                /\ Behind(i) \subseteq DOMAIN sent.items
                /\ UNION {ResultsOfItem(j) : j \in Behind(i)} = CallsOfItem(i)
           /\ ResultsOfItem(i) # {} => \E j \in 1..i : i \in Behind(j) /\ CallsOfItem(j) # {}
    ELSE \A i \in DOMAIN sent.items :
           sent.items[i].type = "function_call_output" =>
             \E j \in 1..(i - 1) : /\ sent.items[j].type = "function_call"
                                  /\ sent.items[j].call = sent.items[i].call

(***************************************************************************)
(* Whatever the pair of dialects, the provider is told the conversation as *)
(* the agent had it, in turns the provider can take.                       *)
(***************************************************************************)
KeepsTheStory == StoryIsWhole /\ ResultsBehindCalls

\* The same words, reasoning and calls, why it stopped, and no token of its cost counted
\* twice; and a failed call is a failed call.
ReplyIsWhole ==
  reply # NoReply /\ Agent # "codex" /\ Provider # "codex" =>
    /\ phase = "agent" =>
         /\ \A type \in {"text", "thinking"} :
              Words(type, got.content) = Words(type, reply.content)
         /\ Uses(got.content) = Uses(reply.content)
         /\ got.stop = reply.stop
         /\ got.usage.input = reply.usage.input /\ got.usage.read = reply.usage.read
    /\ phase = "over" =>
         got.stop = "error" /\ "error" \in ToSet(Words("text", got.content))

\* A stream that is cut off is worth what arrived of it: at every moment the assembler
\* holds the beginning of every block that has begun, each fragment in its own block
\* however the provider interleaves them.
Arrived(i) ==
  IF out[i] = -1 THEN << >>
  ELSE SubSeq(Fragments(Block(i)), 1, IF IsDone(i) THEN Size(i) ELSE out[i])
Begun == SelectSeq([i \in DOMAIN out |-> i], LAMBDA i : out[i] >= 0)

CutOffIsABeginning ==
  phase = "streaming" /\ Provider # "codex" =>
    LET heard == Assembled(Provider, asm).content IN
    /\ \A type \in {"text", "thinking"} :
         Words(type, heard) =
           FlattenSeq([k \in DOMAIN Begun |->
                         IF Block(Begun[k]).type = type THEN Arrived(Begun[k]) ELSE << >>])
    /\ Uses(heard) =
         LET calls == SelectSeq(Begun, LAMBDA i : Block(i).type = "tool_use") IN
         [k \in DOMAIN calls |-> <<Block(calls[k]).id, ParseInput(Arrived(calls[k]))>>]

(***************************************************************************)
(* A reply that crosses two dialects, streamed or whole on either side, or *)
(* cut off on its way, says what the provider said.                        *)
(***************************************************************************)
ReplySurvives == ReplyIsWhole /\ CutOffIsABeginning

-----------------------------------------------------------------------------
(* What a comment says and the code does not do. *)

\* "A message per item produced `assistant, assistant` - which Anthropic rejects
\* outright, so forking a Codex or Agents-SDK run onto Claude ... failed on its first
\* turn" (openai-responses.ts): the turns of such a fork alternate.
ForkAlternates ==
  Asked /\ Provider = "anthropic" /\ Agent \in {"codex", "responses"} =>
    \A i \in 1..(Len(sent.items) - 1) : sent.items[i].role # sent.items[i + 1].role
=============================================================================
