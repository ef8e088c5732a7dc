------------------------------ MODULE CausalGraph ------------------------------
(***************************************************************************)
(* What a recording says produced what (packages/core/src/graph.ts).       *)
(*                                                                         *)
(* A harness talks to a model, runs the tools it calls for and delegates   *)
(* to conversations it waits for.  The recorder writes each exchange some  *)
(* time after it ended, looks at the workspace then, and reads the shell   *)
(* frames when the agent is gone (cli's record.ts, exchange-events.ts).    *)
(* What the trace never says, which call an effect came from, is inferred  *)
(* by runGraph from names and turns.                                       *)
(***************************************************************************)
EXTENDS Naturals, Sequences, FiniteSets

CONSTANTS
  Changed,    \* paths the tools edit
  Commands,   \* commands they run
  Wishes,     \* the sets of calls a response may make
  MaxTurns,   \* bound: exchanges
  MaxDepth,   \* bound: conversations waiting for one another
  MaxLost     \* bound: appends that are rejected

ASSUME CausalGraphAssumption ==
  /\ IsFiniteSet(Changed) /\ Changed \intersect Commands = {}
  /\ "subagent" \notin Changed \union Commands
  /\ \A w \in Wishes : IsFiniteSet(w) /\
       w \subseteq [does : {"edit", "run", "name"}, what : Changed \union Commands]
                   \union [does : {"delegate"}, what : {"subagent"}]
  /\ MaxTurns \in Nat \ {0} /\ MaxDepth \in Nat \ {0} /\ MaxLost \in Nat

VARIABLES
  talks,     \* the conversations, each waiting for the next
  calls,     \* history: every call, with the seq it was written at (0: not yet)
  ended,     \* exchanges that ended and are not written
  written,   \* events.jsonl
  turnNow,   \* record's turn
  looking,   \* persist is before its snapshot
  dirty,     \* what the next snapshot will find changed, and the call that did it
  frames,    \* the shell frames
  lost       \* appends rejected so far

graphVars == <<talks, calls, ended, written, turnNow, looking, dirty, frames, lost>>

Talk(by) == [by |-> by, open |-> {}, done |-> {}]

GraphInit ==
  /\ talks = <<Talk(0)>> /\ calls = << >> /\ ended = << >> /\ written = << >>
  /\ turnNow = 0 /\ looking = FALSE
  /\ dirty = [p \in Changed |-> 0] /\ frames = << >> /\ lost = 0

Last(s) == s[Len(s)]
Rest(s) == SubSeq(s, 1, Len(s) - 1)
Exchanges == Len(ended) + turnNow
Ascending(S) == [i \in 1..Cardinality(S) |-> CHOOSE x \in S : Cardinality({y \in S : y <= x}) = i]

-----------------------------------------------------------------------------
(* The harness. *)

\* An exchange carries what the tools returned and brings the next calls.  One
\* that brings none ends its conversation, which is the delegation's result.
Ends(wish) ==
  /\ talks # << >> /\ Last(talks).open = {} /\ Exchanges < MaxTurns
  /\ LET t == Last(talks)
         n == Len(calls)
         brought == (n + 1)..(n + Cardinality(wish))
     IN /\ \E order \in [brought -> wish] :
             /\ {order[i] : i \in brought} = wish
             /\ calls' = calls \o [i \in 1..Cardinality(wish) |->
                  [does |-> order[n + i].does, what |-> order[n + i].what, seq |-> 0,
                   turn |-> 0, early |-> FALSE]]
        /\ ended' = Append(ended, [by |-> t.by, carries |-> Ascending(t.done), brings |-> brought])
        /\ talks' =
             IF wish # {} THEN Append(Rest(talks), [t EXCEPT !.open = brought, !.done = {}])
             ELSE IF Len(talks) = 1 THEN << >>
             ELSE LET up == Last(Rest(talks))
                  IN Append(Rest(Rest(talks)),
                            [up EXCEPT !.open = @ \ {t.by}, !.done = @ \union {t.by}])
  /\ UNCHANGED <<written, turnNow, looking, dirty, frames, lost>>

\* A tool does its work and returns.
Runs(c) ==
  /\ talks # << >> /\ c \in Last(talks).open /\ calls[c].does # "delegate"
  /\ talks' = Append(Rest(talks), [Last(talks) EXCEPT !.open = @ \ {c}, !.done = @ \union {c}])
  /\ calls' = [calls EXCEPT ![c].early = calls[c].seq = 0]
  /\ dirty' = IF calls[c].does = "edit" THEN [dirty EXCEPT ![calls[c].what] = c] ELSE dirty
  /\ frames' = IF calls[c].does = "run"
               THEN Append(frames, [what |-> calls[c].what, call |-> c, at |-> turnNow]) ELSE frames
  /\ UNCHANGED <<ended, written, turnNow, looking, lost>>

\* A delegation begins once nothing else of its turn is left to do.
Delegates(c) ==
  /\ talks # << >> /\ Last(talks).open = {c} /\ calls[c].does = "delegate"
  /\ Len(talks) < MaxDepth
  /\ talks' = Append(talks, Talk(c))
  /\ UNCHANGED <<calls, ended, written, turnNow, looking, dirty, frames, lost>>

-----------------------------------------------------------------------------
(* The recorder. *)

Entry(type, turn, causes, what, of) ==
  [type |-> type, turn |-> turn, causes |-> causes, what |-> what, of |-> of]

\* derive: results, the request they came with, the response, its calls.  of: the
\* call an event is of or, of a request or a response, the exchange.
Derived(x, turn) ==
  LET k == Len(x.carries)
      at == Len(written)
      news == Ascending(x.brings)
  IN [i \in 1..k |-> Entry("tool.result", turn, {calls[x.carries[i]].seq} \ {0}, "", x.carries[i])]
     \o <<Entry("model.request", turn, (at + 1)..(at + k), "", <<turn, x.by>>),
          Entry("model.response", turn, {at + k + 1}, "", <<turn, x.by>>)>>
     \o [i \in 1..Len(news) |->
          Entry("tool.call", turn, {at + k + 2}, calls[news[i]].what, news[i])]

\* persist.  A rejected append takes the rest of the task with it.
Writes(kept) ==
  /\ ended # << >> /\ ~looking
  /\ LET batch == Derived(Head(ended), turnNow + 1)
         whole == kept = Len(batch)
         at == [c \in DOMAIN calls |->
                  {i \in 1..kept : batch[i].type = "tool.call" /\ batch[i].of = c}]
     IN /\ kept <= Len(batch) /\ (whole \/ lost < MaxLost)
        /\ lost' = IF whole THEN lost ELSE lost + 1
        /\ written' = written \o SubSeq(batch, 1, kept)
        /\ calls' = [c \in DOMAIN calls |->
             IF at[c] = {} THEN calls[c]
             ELSE [calls[c] EXCEPT !.seq = Len(written) + (CHOOSE i \in at[c] : TRUE),
                                   !.turn = turnNow + 1]]
        /\ looking' = whole
  /\ turnNow' = turnNow + 1
  /\ ended' = Tail(ended)
  /\ UNCHANGED <<talks, dirty, frames>>

Dirty == {p \in Changed : dirty[p] # 0}

\* appendSnapshot: one fs.change for each path.
Looks ==
  /\ looking
  /\ \E order \in [1..Cardinality(Dirty) -> Dirty] :
       /\ {order[i] : i \in DOMAIN order} = Dirty
       /\ written' = written \o [i \in DOMAIN order |->
            Entry("fs.change", turnNow, {}, order[i], dirty[order[i]])]
  /\ looking' = FALSE
  /\ dirty' = [p \in Changed |-> 0]
  /\ UNCHANGED <<talks, calls, ended, turnNow, frames, lost>>

\* Fault: a frame is filed under the turn the drain happens in.
TurnOfTheDrain(frame) == turnNow
\* turnAt: the last turn that had begun when the command was started.
TurnAt(frame) == frame.at

\* The drain of the shell frames, when the agent is gone and the queue is empty.
Drains ==
  /\ talks = << >> /\ ended = << >> /\ ~looking /\ frames # << >>
  /\ written' = written \o
       <<Entry("shell.exec", TurnAt(Head(frames)), {}, Head(frames).what, Head(frames).call),
         Entry("shell.result", TurnAt(Head(frames)), {Len(written) + 1}, "", Head(frames).call)>>
  /\ frames' = Tail(frames)
  /\ UNCHANGED <<talks, calls, ended, turnNow, looking, dirty, lost>>

GraphNext ==
  \/ \E wish \in Wishes : Ends(wish)
  \/ \E c \in DOMAIN calls : Runs(c) \/ Delegates(c)
  \/ \E kept \in 0..(MaxTurns * 4) : Writes(kept)
  \/ Looks \/ Drains
GraphSpec == GraphInit /\ [][GraphNext]_graphVars

-----------------------------------------------------------------------------
(* graph.ts.  What a reader skipped (reader.ts) is not there: the operators *)
(* take the seqs that are.                                                  *)

Seqs == DOMAIN written
\* stream, over a file of n whole lines and what a kill left of another: the torn
\* line is reported and passed over.
ReadUpTo(n) == 1..n
Effects == {s \in Seqs : written[s].type \in {"shell.exec", "fs.change"}}

RecordedEdges(present) ==
  {edge \in present \X present : edge[1] \in written[edge[2]].causes}

TurnReach == 1

\* Fault: an effect and its call are of one turn.
WithinOneTurn(call, effect) ==
  /\ call < effect /\ written[call].turn = written[effect].turn
  /\ written[call].what = written[effect].what
\* Fault: a distance in turns, whichever comes first.
WithinATurn(call, effect) ==
  /\ written[call].turn <= written[effect].turn + TurnReach
  /\ written[effect].turn <= written[call].turn + TurnReach
  /\ written[call].what = written[effect].what
\* soleMatchingCall's candidates.
WithinReach(call, effect) ==
  /\ call < effect
  /\ written[call].turn <= written[effect].turn
  /\ written[effect].turn - written[call].turn <= TurnReach
  /\ written[call].what = written[effect].what

\* Of the candidates those of the nearest turn, and no guess between two.
SoleMatchingCall(present, effect) ==
  LET candidates == {s \in present : written[s].type = "tool.call" /\ WithinReach(s, effect)}
      nearest == {s \in candidates : \A r \in candidates : written[r].turn <= written[s].turn}
  IN IF Cardinality(nearest) = 1 THEN nearest ELSE {}

InferredEdges(present) ==
  {edge \in present \X (present \intersect Effects) : edge[1] \in SoleMatchingCall(present, edge[2])}

RunGraph(present) == RecordedEdges(present) \union InferredEdges(present)

\* chainTo: the seq and everything behind it.  An edge points forward.
ChainTo(edges, seq) ==
  LET behind[s \in Seqs] == {s} \union UNION {behind[e[1]] : e \in {d \in edges : d[2] = s}}
  IN behind[seq]

CausalChain(present, seq) == ChainTo(RecordedEdges(present), seq)

Delegations(upto) ==
  {s \in 1..upto : written[s].type = "tool.call" /\ written[s].what = "subagent"}
\* Fault: a delegation that returned is still open.
StillOpenAlways(s, seq) == TRUE
StillOpen(s, seq) ==
  \A r \in Seqs : written[r].type = "tool.result" /\ s \in written[r].causes => r >= seq

\* enclosingDelegation: the last one still open at seq; 0 for none.
EnclosingDelegation(seq) ==
  LET open == {s \in Delegations(seq) : StillOpen(s, seq)}
  IN IF open = {} THEN 0 ELSE CHOOSE s \in open : \A r \in open : r <= s

\* loadExchanges (replay.ts): the i-th request and the i-th response.
Nth(type, i) ==
  LET S == {s \in Seqs : written[s].type = type}
  IN CHOOSE s \in S : Cardinality({r \in S : r <= s}) = i
Count(type) == Cardinality({s \in Seqs : written[s].type = type})
Paired(i) ==
  IF i <= Count("model.response") THEN <<Nth("model.request", i), Nth("model.response", i)>>
  ELSE <<Nth("model.request", i), 0>>

-----------------------------------------------------------------------------
(* Properties. *)

\* The history and the recorder agree about what has been written.
GraphTypeOK ==
  /\ Len(talks) <= MaxDepth /\ turnNow <= MaxTurns /\ lost <= MaxLost
  /\ \A c \in DOMAIN calls : calls[c].seq # 0 =>
       /\ calls[c].seq \in Seqs /\ written[calls[c].seq].of = c
       /\ written[calls[c].seq].type = "tool.call"
  /\ \A s \in Seqs : written[s].causes \subseteq 1..(s - 1)

\* Whichever snapshot found a change and whenever a frame was read, the chain that
\* leads to the effect holds the call that made it and everything behind that call,
\* unless the recorder was late (the tool ran before its call was written) or another
\* call within reach names the same thing (soleMatchingCall, TURN_REACH, turnAt), as
\* long as the trace holds what the run did.
EffectsAreTraced ==
  lost = 0 =>
  \A e \in Effects :
    LET c == written[e].of
        rivals == {s \in 1..(e - 1) : /\ written[s].type = "tool.call" /\ s # calls[c].seq
                                      /\ written[s].what = written[e].what
                                      /\ written[s].turn + TurnReach >= written[e].turn}
    IN calls[c].seq # 0 /\ ~calls[c].early /\ rivals = {} =>
         CausalChain(Seqs, calls[c].seq) \subseteq ChainTo(RunGraph(Seqs), e)

\* A replay that halts at a request blames the delegation that request was made
\* under, whether or not that one has ended since, and none if it was under none,
\* over delegations in turn and within one another (enclosingDelegation, and
\* replay's onUnmatched), as long as nothing was lost.
NamesTheDelegate ==
  lost = 0 =>
  \A s \in Seqs : written[s].type = "model.request" =>
    LET by == written[s].of[2]
    IN EnclosingDelegation(s) = IF by = 0 THEN 0 ELSE calls[by].seq

\* What the graph says of a run that is still being written, or that a crash cut
\* short in a line, the graph of the whole run says: no later event withdraws an edge
\* or moves it to another call (runGraph on what TraceReader.stream yields).
EdgesStand ==
  ended = << >> /\ ~looking =>
  \A n \in 0..Len(written) :
    RunGraph(ReadUpTo(n)) = {edge \in RunGraph(Seqs) : edge[2] <= n}

\* What a debugger reads of a trace is so, and stays so.
GraphIsTrue == EffectsAreTraced /\ NamesTheDelegate /\ EdgesStand

\* "Picking either would produce an edge indistinguishable from a true one and
\* wrong half the time, and a wrong edge is worse than a missing one" (graph.ts,
\* soleMatchingCall).
GuessesAreTrue ==
  \A e \in InferredEdges(Seqs) : written[e[1]].of = written[e[2]].of

\* "The raw request and response bodies are the authoritative record - they are what
\* makes exact replay exact" (replay.ts, loadExchanges): a request is replayed with
\* the response it got.
RepliesAreTheirOwn ==
  \A i \in 1..Count("model.request") :
    Paired(i)[2] # 0 => written[Paired(i)[1]].of = written[Paired(i)[2]].of
=============================================================================
