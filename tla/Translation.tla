---------------------------- MODULE Translation ----------------------------
(***************************************************************************)
(* The four wire dialects and the canonical form between them              *)
(* (packages/providers/src/translate/ and packages/proxy/src/dialects.ts): *)
(* what a request becomes on its way to another provider, and a reply on   *)
(* its way back, whole or as the frames of a stream.                       *)
(*                                                                         *)
(* A text is a sequence of words, as a stream may deliver it; Newline is   *)
(* the separator texts are joined with.  Tool arguments are the fragments  *)
(* of a JSON string.  Images, schemas, sampling fields, names and the      *)
(* parked metadata are left out.                                           *)
(***************************************************************************)
EXTENDS Integers, Sequences, FiniteSets, SequencesExt

Dialects == {"anthropic", "openai", "responses", "codex"}
Newline == "nl"

\* util.ts: arguments as canonical holds them, and as a JSON string.
StringifyInput(input) ==
  CASE input = "object" -> <<"{", "}">> [] input = "raw" -> <<"{">>
    [] input = "string" -> <<"quoted">> [] OTHER -> <<"{}">>
ParseInput(args) ==
  IF args \in {<< >>, <<"{}">>} THEN "none" ELSE IF args = <<"{", "}">> THEN "object" ELSE "raw"

\* Blocks of canonical content.
NoId == 0
Text(t) == [type |-> "text", text |-> t]
Thinking(t) == [type |-> "thinking", text |-> t]
Use(id, input) == [type |-> "tool_use", id |-> id, input |-> input]
Result(id, t) == [type |-> "tool_result", id |-> id, text |-> t]

Map(F(_), s) == [i \in DOMAIN s |-> F(s[i])]
OfType(type, blocks) == SelectSeq(blocks, LAMBDA b : b.type = type)
Without(type, blocks) == SelectSeq(blocks, LAMBDA b : b.type # type)
HasType(type, blocks) == \E i \in DOMAIN blocks : blocks[i].type = type

\* join('\n') of the texts that are not empty.
Joined(texts) ==
  FoldLeft(LAMBDA acc, t : IF acc = << >> \/ t = << >> THEN acc \o t
                           ELSE acc \o <<Newline>> \o t, << >>, texts)
TextOf(type, blocks) == Joined(Map(LAMBDA b : b.text, OfType(type, blocks)))

-----------------------------------------------------------------------------
(* Requests to canonical.  A request is its system prompt and its items;   *)
(* canonical is [system, messages], a message [role, content].             *)

Message(role, content) == [role |-> role, content |-> content]
AppendTo(messages, blocks) ==
  [messages EXCEPT ![Len(messages)].content = @ \o blocks]

\* The canonical form is this dialect's own, block for block.
AnthropicRequest(req) == [system |-> req.system, messages |-> req.items]

OpenaiMessage(m) ==
  Message(m.role, (IF m.text = << >> THEN << >> ELSE <<Text(m.text)>>)
                  \o Map(LAMBDA c : Use(c.id, ParseInput(c.args)), m.calls))

\* Results that follow each other share one user turn; a system message does
\* not end the batch.
OpenaiRequest(req) ==
  LET Step(acc, m) ==
        CASE m.role = "system" -> [acc EXCEPT !.system = Joined(<<@, m.text>>)]
          [] m.role = "tool" ->
               [acc EXCEPT !.batch = TRUE,
                           !.messages = IF acc.batch THEN AppendTo(@, <<Result(m.id, m.text)>>)
                                        ELSE Append(@, Message("user", <<Result(m.id, m.text)>>))]
          [] OTHER -> [acc EXCEPT !.batch = FALSE, !.messages = Append(@, OpenaiMessage(m))]
      end == FoldLeft(Step, [system |-> << >>, messages |-> << >>, batch |-> FALSE], req.items)
  IN  [system |-> end.system, messages |-> end.messages]

\* Fault: a message for every item.
PushAlone(messages, role, blocks) ==
  IF blocks = << >> THEN messages ELSE Append(messages, Message(role, blocks))

\* Blocks join the open turn when its role matches.
PushTurn(messages, role, blocks) ==
  IF blocks = << >> THEN messages
  ELSE IF messages # << >> /\ Last(messages).role = role THEN AppendTo(messages, blocks)
  ELSE Append(messages, Message(role, blocks))

\* Fault: a call is known by the id of its item.
ItemTurnById(item) ==
  IF item.type = "function_call"
    THEN [role |-> "assistant", blocks |-> <<Use(item.id, ParseInput(item.args))>>]
    ELSE IF item.type = "function_call_output"
    THEN [role |-> "user", blocks |-> <<Result(item.call, item.text)>>]
    ELSE [role |-> item.role, blocks |-> Map(Text, item.parts)]

\* Role and blocks an item stands for.
ItemTurn(item) ==
  CASE item.type = "function_call" ->
         [role |-> "assistant", blocks |-> <<Use(item.call, ParseInput(item.args))>>]
    [] item.type = "function_call_output" ->
         [role |-> "user", blocks |-> <<Result(item.call, item.text)>>]
    [] item.type = "reasoning" ->
         [role |-> "assistant", blocks |-> IF item.text = << >> THEN << >> ELSE <<Thinking(item.text)>>]
    [] OTHER ->
         [role |-> item.role,
          blocks |-> Map(Text, SelectSeq(item.parts, LAMBDA t : t # << >>))]

\* An item of the system role is part of the system prompt.
IsSystem(item) == item.type = "message" /\ item.role = "system"
SystemItems(items) ==
  Joined(FlattenSeq(Map(LAMBDA item : item.parts, SelectSeq(items, IsSystem))))
Spoken(items) == SelectSeq(items, LAMBDA item : ~ IsSystem(item))

ResponsesRequest(req) ==
  [system |-> Joined(<<req.system, SystemItems(req.items)>>),
   messages |-> FoldLeft(LAMBDA ms, item : PushTurn(ms, ItemTurn(item).role, ItemTurn(item).blocks),
                         << >>, Spoken(req.items))]

\* Arguments that do not parse stay a string, which is JSON of its own.
CodexInput(args) == IF ParseInput(args) = "raw" THEN "string" ELSE ParseInput(args)

\* One message for every item; a reasoning item is an empty one of the user.
CodexTurn(item) ==
  CASE item.type = "function_call" ->
         Message("assistant", <<Use(item.call, CodexInput(item.args))>>)
    [] item.type = "function_call_output" -> Message("user", <<Result(item.call, item.text)>>)
    [] item.type = "reasoning" -> Message("user", << >>)
    [] OTHER -> Message(item.role, Map(Text, item.parts))
\* Instructions stand for every system item.
CodexRequest(req) ==
  [system |-> IF req.system # << >> THEN req.system ELSE SystemItems(req.items),
   messages |-> Map(CodexTurn, Spoken(req.items))]

ToCanonicalRequest(d, req) ==
  CASE d = "anthropic" -> AnthropicRequest(req) [] d = "openai" -> OpenaiRequest(req)
    [] d = "responses" -> ResponsesRequest(req) [] d = "codex" -> CodexRequest(req)

-----------------------------------------------------------------------------
(* Requests from canonical. *)

Call(block) == [id |-> block.id, args |-> StringifyInput(block.input)]

\* The results of a turn come first, each a message of its own.
ToOpenaiMessages(m) ==
  LET results == Map(LAMBDA b : [role |-> "tool", id |-> b.id, text |-> b.text],
                     OfType("tool_result", m.content))
      calls == Map(Call, OfType("tool_use", m.content))
      empty == ~ HasType("text", m.content)
      text == TextOf("text", m.content)
  IN  results \o
      (IF m.role = "assistant"
         THEN IF empty /\ calls = << >> THEN << >>
              ELSE <<[role |-> "assistant", text |-> text, calls |-> calls]>>
         ELSE IF empty THEN << >>
              ELSE <<[role |-> "user", text |-> text, calls |-> << >>]>>)

ToOpenaiRequest(req) ==
  [system |-> << >>,
   items |-> (IF req.system = << >> THEN << >>
                ELSE <<[role |-> "system", text |-> req.system]>>)
             \o FlattenSeq(Map(ToOpenaiMessages, req.messages))]

\* Tool traffic and reasoning as items, and the prose of a turn behind them.
ToItem(block) ==
  CASE block.type = "tool_use" ->
         [type |-> "function_call", call |-> block.id, id |-> NoId,
          args |-> StringifyInput(block.input)]
    [] block.type = "tool_result" ->
         [type |-> "function_call_output", call |-> block.id, text |-> block.text]
    [] block.type = "thinking" -> [type |-> "reasoning", text |-> block.text]
ProseItem(m) ==
  IF HasType("text", m.content)
    THEN <<[type |-> "message", role |-> m.role,
            parts |-> Map(LAMBDA b : b.text, OfType("text", m.content))]>>
    ELSE << >>
ToResponsesRequest(req) ==
  [system |-> req.system,
   items |-> FlattenSeq(Map(LAMBDA m : Map(ToItem, Without("text", m.content)) \o ProseItem(m),
                            req.messages))]

\* Only text crosses into this dialect.
ToCodexRequest(req) ==
  [system |-> req.system, items |-> FlattenSeq(Map(ProseItem, req.messages))]

FromCanonicalRequest(d, req) ==
  CASE d = "anthropic" -> [system |-> req.system, items |-> req.messages]
    [] d = "openai" -> ToOpenaiRequest(req)
    [] d = "responses" -> ToResponsesRequest(req)
    [] d = "codex" -> ToCodexRequest(req)

-----------------------------------------------------------------------------
(* Replies.  Canonical is [content, stop, usage]; usage counts input apart *)
(* from what a cache gave or took.                                         *)

Usage(input, read, write) == [input |-> input, read |-> read, write |-> write]
NoUsage == Usage(0, 0, 0)
Reply(content, stop, usage) == [content |-> content, stop |-> stop, usage |-> usage]
ErrorReply(text) == Reply(<<Text(text)>>, "error", NoUsage)

\* Fault: cached tokens are counted twice.
FromPromptTwice(u) == Usage(u.prompt, u.cached, 0)

\* The OpenAI shapes count cached tokens inside their input.
ToPrompt(usage) == [prompt |-> usage.input + usage.read, cached |-> usage.read]
FromPrompt(u) ==
  Usage(IF u.prompt > u.cached THEN u.prompt - u.cached ELSE 0, u.cached, 0)

OpenaiFinish(stop) ==
  CASE stop = "tool_use" -> "tool_calls" [] stop = "max_tokens" -> "length" [] OTHER -> "stop"
OpenaiStop(finish) ==
  CASE finish = "tool_calls" -> "tool_use" [] finish = "length" -> "max_tokens"
    [] OTHER -> "end_turn"

\* Why a turn ended, where the wire says only completed or incomplete.
ResponsesStop(status, called) ==
  IF status = "incomplete" THEN "max_tokens" ELSE IF called THEN "tool_use" ELSE "end_turn"

\* Canonical content as output items, empty texts included.
OutputItem(block) ==
  IF block.type = "text"
    THEN [type |-> "message", role |-> "assistant", parts |-> <<block.text>>]
    ELSE ToItem(block)
Output(content) == Map(OutputItem, Without("tool_result", content))
ItemsRead(items) == FlattenSeq(Map(LAMBDA item : ItemTurn(item).blocks, items))

\* canonicalToXResponse.
Body(d, r) ==
  CASE d = "codex" -> [status |-> "completed", output |-> r.content]
    [] r.stop = "error" -> [error |-> TextOf("text", r.content)]
    [] d = "anthropic" -> r
    [] d = "openai" ->
         [thinking |-> TextOf("thinking", r.content), text |-> TextOf("text", r.content),
          calls |-> Map(Call, OfType("tool_use", r.content)),
          finish |-> OpenaiFinish(r.stop), usage |-> ToPrompt(r.usage)]
    [] d = "responses" ->
         [status |-> IF r.stop = "max_tokens" THEN "incomplete" ELSE "completed",
          output |-> Output(r.content), usage |-> ToPrompt(r.usage)]

CodexStop(status) ==
  CASE status = "incomplete" -> "max_tokens" [] status = "failed" -> "error"
    [] OTHER -> "end_turn"
CodexItems(items) ==
  FlattenSeq(Map(LAMBDA item : CodexTurn(item).content,
                 SelectSeq(items, LAMBDA i : i.type \in {"function_call", "message"})))

NotEmpty(block) == block.type \notin {"text", "thinking"} \/ block.text # << >>

\* xToCanonicalResponse.  What the code writes for codex is canonical blocks,
\* which its own reader passes over.
ReadBody(d, body) ==
  CASE "error" \in DOMAIN body -> ErrorReply(body.error)
    [] d = "anthropic" -> body
    [] d = "openai" ->
         Reply(SelectSeq(<<Thinking(body.thinking), Text(body.text)>>, NotEmpty)
                 \o Map(LAMBDA c : Use(c.id, ParseInput(c.args)), body.calls),
               OpenaiStop(body.finish), FromPrompt(body.usage))
    [] d = "responses" ->
         Reply(ItemsRead(body.output),
               ResponsesStop(body.status, HasType("function_call", body.output)),
               FromPrompt(body.usage))
    [] d = "codex" ->
         Reply(CodexItems(body.output),
               CodexStop(body.status),
               IF "usage" \in DOMAIN body THEN Usage(body.usage.prompt, 0, 0) ELSE NoUsage)

-----------------------------------------------------------------------------
(* Streams.  A frame is                                                    *)
(*   [frame |-> "start", at, block]       a block is announced, empty      *)
(*   [frame |-> "delta", at, type, word]  one more fragment of it          *)
(*   [frame |-> "done", at, block]        it is whole                      *)
(*   [frame |-> "usage", usage]           what it costs so far             *)
(*   [frame |-> "finish", body]           why the turn ended, what it cost *)
(*   [frame |-> "error", text]            the call failed                  *)
(* An assembler keeps the blocks it has seen by their place, the order it  *)
(* reads them in, and what the end of the stream told it.                  *)

NewAssembler ==
  [items |-> << >>, order |-> << >>, stop |-> "end_turn", usage |-> NoUsage,
   error |-> << >>, whole |-> << >>]

\* A block while it is assembled: its fragments, whatever they are of.
Opened(block) ==
  [type |-> block.type, id |-> IF block.type = "tool_use" THEN block.id ELSE NoId, got |-> << >>]
Closed(item) ==
  IF item.type = "tool_use" THEN Use(item.id, ParseInput(item.got))
  ELSE [type |-> item.type, text |-> item.got]

Fragments(block) ==
  IF block.type = "tool_use" THEN StringifyInput(block.input) ELSE block.text

Has(asm, at) == at \in DOMAIN asm.items
Put(asm, at, item) ==
  [asm EXCEPT !.items = (at :> item) @@ @]
\* A fragment of a block that was never announced announces it.
Grow(asm, at, f) ==
  IF Has(asm, at) THEN [asm EXCEPT !.items[at].got = Append(@, f.word)]
  ELSE Put(asm, at, [type |-> f.type, id |-> NoId, got |-> <<f.word>>])

\* AnthropicStreamAssembler: blocks by index, read in the order they began.
AnthropicHandle(asm, f) ==
  CASE f.frame = "start" ->
         [Put(asm, f.at, Opened(f.block)) EXCEPT !.order = Append(@, f.at)]
    [] f.frame = "delta" ->
         [Grow(asm, f.at, f) EXCEPT !.order = IF Has(asm, f.at) THEN @ ELSE Append(@, f.at)]
    [] f.frame = "usage" -> [asm EXCEPT !.usage = f.usage]
    [] f.frame = "finish" -> [asm EXCEPT !.stop = f.body.stop, !.usage = f.body.usage]
    [] f.frame = "error" -> [asm EXCEPT !.stop = "error", !.error = f.text]
    [] OTHER -> asm

\* OpenAiStreamAssembler: one reasoning, one text, calls by their index.
\* Fault: calls share a place.
OpenaiPlaceOfType(type, at) ==
  CASE type = "thinking" -> 0 [] type = "text" -> 1 [] OTHER -> 2
OpenaiPlace(type, at) ==
  CASE type = "thinking" -> 0 [] type = "text" -> 1 [] OTHER -> 1 + at
OpenaiHandle(asm, f) ==
  CASE f.frame = "start" /\ f.block.type = "tool_use" ->
         Put(asm, OpenaiPlace("tool_use", f.at), Opened(f.block))
    [] f.frame = "delta" -> Grow(asm, OpenaiPlace(f.type, f.at), f)
    [] f.frame = "usage" -> [asm EXCEPT !.usage = FromPrompt(f.usage)]
    [] f.frame = "finish" ->
         [asm EXCEPT !.stop = OpenaiStop(f.body.finish), !.usage = FromPrompt(f.body.usage)]
    [] f.frame = "error" -> [asm EXCEPT !.stop = "error", !.error = f.text]
    [] OTHER -> asm

\* parseResponsesSse: items by output index, and the terminal event in place of
\* all of them when it comes.
ResponsesHandle(asm, f) ==
  CASE f.frame = "start" -> Put(asm, f.at, Opened(f.block))
    [] f.frame = "delta" -> Grow(asm, f.at, f)
    [] f.frame = "finish" -> [asm EXCEPT !.whole = <<ReadBody("responses", f.body)>>]
    [] f.frame = "error" -> [asm EXCEPT !.whole = <<ErrorReply(f.text)>>]
    [] OTHER -> asm

\* parseCodexSse: one text of every delta, then the items that were done.  An
\* end other than response.completed is passed over.
CodexHandle(asm, f) ==
  CASE f.frame = "delta" /\ f.type = "text" -> Grow(asm, 0, f)
    [] f.frame = "done" /\ f.block.type # "thinking" ->
         Put(asm, 1 + Cardinality(DOMAIN asm.items \ {0}),
             [Opened(f.block) EXCEPT !.got = Fragments(f.block)])
    [] f.frame = "finish" /\ f.body.status = "completed" ->
         [asm EXCEPT !.usage = ReadBody("codex", f.body).usage]
    [] OTHER -> asm

Handle(d, asm, f) ==
  CASE d = "anthropic" -> AnthropicHandle(asm, f) [] d = "openai" -> OpenaiHandle(asm, f)
    [] d = "responses" -> ResponsesHandle(asm, f) [] d = "codex" -> CodexHandle(asm, f)

\* result(): complete or cut off, whatever has arrived.
Assembled(d, asm) ==
  LET order == IF d = "anthropic" THEN asm.order
               ELSE SetToSortSeq(DOMAIN asm.items, <)
      blocks == Map(LAMBDA at : Closed(asm.items[at]), order)
      called == HasType("tool_use", blocks)
  IN  IF asm.whole # << >> THEN asm.whole[1]
      ELSE Reply((IF d = "anthropic" THEN blocks ELSE SelectSeq(blocks, NotEmpty))
                   \o (IF asm.error = << >> THEN << >> ELSE <<Text(asm.error)>>),
                 IF d = "responses" THEN ResponsesStop("none", called) ELSE asm.stop,
                 asm.usage)

\* canonicalToXSse: every block announced, filled by one delta and done.
Frames(d, r) ==
  LET content ==
        IF d = "openai"
          THEN SelectSeq(<<Thinking(TextOf("thinking", r.content)),
                           Text(TextOf("text", r.content))>>, NotEmpty)
               \o OfType("tool_use", r.content)
          ELSE r.content
      At(i) == IF d = "openai" THEN Cardinality({j \in 1..i : content[j].type = "tool_use"}) ELSE i
      Fill(i) == Map(LAMBDA w : [frame |-> "delta", at |-> At(i), type |-> content[i].type, word |-> w],
                     Fragments(content[i]))
      Block(i) == <<[frame |-> "start", at |-> At(i), block |-> content[i]]>> \o Fill(i)
                  \o <<[frame |-> "done", at |-> At(i), block |-> content[i]]>>
      Costs == CASE d = "anthropic" -> <<[frame |-> "usage", usage |-> r.usage]>>
                 [] d = "openai" /\ r.stop = "error" ->
                      <<[frame |-> "usage", usage |-> ToPrompt(r.usage)]>>
                 [] OTHER -> << >>
  IN  Costs \o
      IF r.stop = "error" /\ d # "codex"
        THEN <<[frame |-> "error", text |-> TextOf("text", r.content)]>>
      ELSE (IF d = "codex" THEN << >> ELSE FlattenSeq([i \in DOMAIN content |-> Block(i)]))
           \o <<[frame |-> "finish", body |-> Body(d, r)]>>

ReadFrames(d, frames) ==
  Assembled(d, FoldLeft(LAMBDA asm, f : Handle(d, asm, f), NewAssembler, frames))
=============================================================================
