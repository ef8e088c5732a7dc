-------------------------- MODULE RetrievalReplay --------------------------
(***************************************************************************)
(* Embedding and rerank calls, recorded and replayed by their own body:    *)
(* packages/proxy/src/retrieval.ts, serveRetrieval and forwardRetrieval in *)
(* server.ts, loadRetrievals and persistNetExchange in the commands.       *)
(*                                                                         *)
(* A run is recorded, then replayed or forked, so every recording that is  *)
(* served from here is one the recorder made.  A request is the rule that  *)
(* claims it and its texts; the vector of a text is modelled by the text.  *)
(***************************************************************************)
EXTENDS Integers, Sequences, FiniteSets, Functions

CONSTANTS
  Texts,      \* what an agent embeds
  Requests,   \* what it asks
  MaxCalls    \* bound: retrieval calls of the recording, and of the replay

\* "rerank" stands for every rule whose answers are not reordered: rerank,
\* cohere-embed, a plugin's own.
Rules == {"openai-embeddings", "rerank"}

ASSUME RetrievalAssumption ==
  /\ Requests \subseteq [rule : Rules, input : Seq(Texts)] /\ Requests # {}
  /\ MaxCalls \in Nat

VARIABLES
  config,     \* ProxyOptions: mode, loose, retrievalStore
  recorded,   \* options.retrievals, as loadRetrievals found them in the trace
  byKey,      \* retrievalIndex.byKey: the positions its queues still hold
  byBatch,    \* retrievalIndex.byBatch, likewise
  pending,    \* requests forwarded and not answered yet, by call number
  captured,   \* the keyed net.* pairs of the recording, in the order of the log
  answer,     \* the last answer that was not the origin's
  used,       \* how often each recorded position was given as an answer
  retrievalTotal, retrievalServed, retrievalReordered, retrievalLive, unmatched,
  calls       \* calls made in this run

servedVars == <<byKey, byBatch, used, retrievalServed, retrievalReordered>>
liveVars == <<pending, retrievalTotal, retrievalLive>>
retrievalVars ==
  <<config, recorded, servedVars, liveVars, captured, answer, unmatched, calls>>

Configs ==
  [mode : {"record", "replay", "hybrid"}, loose : BOOLEAN, store : {"full", "digest"}]
Strict == config.mode = "replay" /\ ~ config.loose

-----------------------------------------------------------------------------
(* Keys.  The exact key digests the whole body, so it is the request.      *)

\* The batch as a multiset (its texts, sorted), for two texts or more and a
\* rule whose contract is that data[i] answers input[i].
HasBatchKey(request) == request.rule = "openai-embeddings" /\ Len(request.input) >= 2
Copies(input, text) == Cardinality({i \in DOMAIN input : input[i] = text})
BatchKey(request) == [text \in Texts |-> Copies(request.input, text)]

SameBatch(a, b) == HasBatchKey(a) /\ HasBatchKey(b) /\ BatchKey(a) = BatchKey(b)

-----------------------------------------------------------------------------
(* Bodies.  A good one lists an item per text, in any order, with the      *)
(* index of its text.  "error" is a body that is no list of vectors,       *)
(* "failed" a fetch that failed (status 0), "absent" no body in the trace. *)

Kinds == {"good", "error", "failed", "absent"}
Items == [index : Nat, vector : Texts]
Orders(n) == {f \in [1..n -> 1..n] : IsInjective(f)}
GoodBodies(request) ==
  LET n == Len(request.input) IN
  { [k \in 1..n |-> [index |-> order[k], vector |-> request.input[order[k]]]] :
      order \in Orders(n) }

\* The number of times the text at i occurs in a sequence up to i.
Occurrence(seq, i) == Cardinality({j \in 1..i : seq[j] = seq[i]})

\* Fault: the recorded items in live order, by position instead of index.
ReorderByPosition(input, data, live) ==
  [i \in DOMAIN live |->
     [data[CHOOSE k \in DOMAIN input :
             input[k] = live[i] /\ Occurrence(input, k) = Occurrence(live, i)]
        EXCEPT !.index = i]]

\* batch.reorder: the text at i of the live batch takes the next of the items
\* that answer it in the recorded one, under its new index.
TextsOf(input, data) == [k \in DOMAIN data |-> input[data[k].index]]
ItemFor(input, data, live, i) ==
  LET texts == TextsOf(input, data) IN
  data[CHOOSE k \in DOMAIN data :
         texts[k] = live[i] /\ Occurrence(texts, k) = Occurrence(live, i)]
Reorder(input, data, live) ==
  [i \in DOMAIN live |-> [ItemFor(input, data, live, i) EXCEPT !.index = i]]

-----------------------------------------------------------------------------
(* The index.  A queue is filled in recorded order and only ever loses     *)
(* calls, so it is the set of its positions and its head the least.        *)

\* Fault: the queues are stacks.
Latest(queue) == CHOOSE p \in queue : \A q \in queue : q <= p

Earliest(queue) == CHOOSE p \in queue : \A q \in queue : p <= q

ByKey(request) == {p \in byKey : recorded[p].request = request}
ByBatch(request) == {p \in byBatch : SameBatch(recorded[p].request, request)}

KeyHead(request) == Earliest(ByKey(request))
BatchHead(request) == Earliest(ByBatch(request))

\* indexRetrievals
Index(trace) ==
  /\ recorded' = trace
  /\ byKey' = DOMAIN trace
  /\ byBatch' = {p \in DOMAIN trace : HasBatchKey(trace[p].request)}
  /\ used' = [p \in DOMAIN trace |-> 0]

\* Fault: a call is dropped from one map only.
ConsumeByKey(p) ==
  /\ byKey' = byKey \ {p}
  /\ UNCHANGED byBatch
  /\ used' = [used EXCEPT ![p] = @ + 1]

\* consume(), and the call is answered for.
Consume(p) ==
  /\ byKey' = byKey \ {p}
  /\ byBatch' = byBatch \ {p}
  /\ used' = [used EXCEPT ![p] = @ + 1]

-----------------------------------------------------------------------------
(* serveRetrieval runs without an await until it forwards: each way        *)
(* through it is one step.                                                 *)

Give(how, request, data) ==
  answer' = [how |-> how, request |-> request, data |-> data]

\* Byte for byte.  On a recorded status 0 writeHead() throws, after the call
\* was consumed and counted, and the catch-all answers.
ServeExact(request) ==
  /\ ByKey(request) # {}
  /\ LET p == KeyHead(request) IN
       /\ recorded[p].kind # "absent"
       /\ Consume(p)
       /\ Give(recorded[p].kind, request, recorded[p].data)
  /\ retrievalServed' = retrievalServed + 1
  /\ UNCHANGED <<retrievalReordered, liveVars, unmatched>>

\* The batch is looked up only if the exact key finds nothing.
UsesBatch(request) == ByKey(request) = {} /\ ByBatch(request) # {}

ServeRebuilt(request) ==
  /\ UsesBatch(request)
  /\ LET p == BatchHead(request) IN
       /\ recorded[p].kind = "good"
       /\ Consume(p)
       /\ Give("rebuilt", request,
               Reorder(recorded[p].request.input, recorded[p].data, request.input))
  /\ retrievalServed' = retrievalServed + 1
  /\ retrievalReordered' = retrievalReordered + 1
  /\ UNCHANGED <<liveVars, unmatched>>

\* The call is known and its body is not.
OnlyDigest(request) ==
  \/ ByKey(request) # {} /\ recorded[KeyHead(request)].kind = "absent"
  \/ UsesBatch(request) /\ recorded[BatchHead(request)].kind = "absent"

\* No recorded call, or one at the head of its batch that cannot be reordered.
NoMatch(request) ==
  /\ ByKey(request) = {}
  /\ ByBatch(request) # {} => recorded[BatchHead(request)].kind \in {"error", "failed"}

\* Fault: the call is dropped before its body is found missing.
HaltConsuming(request) ==
  /\ Strict
  /\ \/ /\ OnlyDigest(request) /\ Give("only a digest", request, << >>)
        /\ byKey' = byKey \ ByKey(request) /\ byBatch' = byBatch \ ByKey(request)
     \/ NoMatch(request) /\ Give("no match", request, << >>) /\ UNCHANGED <<byKey, byBatch>>
  /\ unmatched' = unmatched + 1
  /\ UNCHANGED <<used, retrievalServed, retrievalReordered, liveVars>>

\* A strict replay halts, and keeps the call it could not serve.
Halt(request) ==
  /\ Strict
  /\ \/ OnlyDigest(request) /\ Give("only a digest", request, << >>)
     \/ NoMatch(request) /\ Give("no match", request, << >>)
  /\ unmatched' = unmatched + 1
  /\ UNCHANGED <<servedVars, liveVars>>

\* forwardRetrieval, up to the await of its fetch.
Forward(request) ==
  /\ ~ Strict
  /\ OnlyDigest(request) \/ NoMatch(request)
  /\ pending' = pending \union {[call |-> calls, request |-> request]}
  /\ IF config.mode = "record"
       THEN retrievalTotal' = retrievalTotal + 1 /\ UNCHANGED retrievalLive
       ELSE retrievalLive' = retrievalLive + 1 /\ UNCHANGED retrievalTotal
  /\ UNCHANGED <<servedVars, unmatched, answer>>

Ask(request) ==
  /\ calls < MaxCalls
  /\ calls' = calls + 1
  /\ ServeExact(request) \/ ServeRebuilt(request) \/ Halt(request) \/ Forward(request)
  /\ UNCHANGED <<config, recorded, captured>>

\* A body that is not JSON has no key.  A replay halts, loose or not; otherwise
\* it is passed through and leaves no keyed pair.
AskUnkeyed ==
  /\ calls < MaxCalls
  /\ calls' = calls + 1
  /\ unmatched' = unmatched + (IF config.mode = "replay" THEN 1 ELSE 0)
  /\ UNCHANGED <<config, recorded, servedVars, liveVars, captured, answer>>

-----------------------------------------------------------------------------
(* What was forwarded ends, in any order.  Only `orca record` gives the    *)
(* proxy an onNetExchange for plaintext calls.                             *)

\* persistNetExchange; under "digest" no body is kept, of an answer.
Capture(request, kind, data) ==
  captured' =
    IF config.mode # "record" THEN captured
    ELSE Append(captured,
           IF config.store = "digest" /\ kind # "failed"
             THEN [request |-> request, kind |-> "absent", data |-> << >>]
             ELSE [request |-> request, kind |-> kind, data |-> data])

CallEnds(call, kind, data) ==
  /\ pending' = pending \ {call}
  /\ Capture(call.request, kind, data)
  /\ UNCHANGED <<config, recorded, servedVars, retrievalTotal, retrievalLive,
                 answer, unmatched, calls>>

ForwardAnswers(call) ==
  \/ \E data \in GoodBodies(call.request) : CallEnds(call, "good", data)
  \/ CallEnds(call, "error", << >>)
  \/ CallEnds(call, "absent", << >>)    \* an empty body reads like a digest

\* Fault: a failed call leaves no pair.
ForwardFailsUnrecorded(call) ==
  /\ pending' = pending \ {call}
  /\ UNCHANGED <<config, recorded, servedVars, retrievalTotal, retrievalLive,
                 answer, unmatched, calls, captured>>

ForwardFails(call) == CallEnds(call, "failed", << >>)

(***************************************************************************)
(* The recording is over, or was killed with calls in flight and perhaps   *)
(* between the two lines of its last pair; it is replayed or forked.       *)
(***************************************************************************)
Traces ==
  {captured} \union
  { [captured EXCEPT ![Len(captured)].kind = "absent", ![Len(captured)].data = << >>] :
      c \in {captured} \ {<< >>} }

Replay ==
  /\ config.mode = "record"
  /\ \E mode \in {"replay", "hybrid"}, loose \in BOOLEAN :
       /\ mode = "hybrid" => ~ loose
       /\ config' = [config EXCEPT !.mode = mode, !.loose = loose]
  /\ \E trace \in Traces : Index(trace) /\ retrievalTotal' = Len(trace)
  /\ pending' = {} /\ calls' = 0
  /\ UNCHANGED <<captured, answer, retrievalServed, retrievalReordered, retrievalLive,
                 unmatched>>

RetrievalInit ==
  /\ config \in {c \in Configs : c.mode = "record" /\ ~ c.loose}
  /\ recorded = << >> /\ byKey = {} /\ byBatch = {} /\ used = << >>
  /\ pending = {} /\ captured = << >>
  /\ answer = [how |-> "none", request |-> CHOOSE r \in Requests : TRUE, data |-> << >>]
  /\ retrievalTotal = 0 /\ retrievalServed = 0 /\ retrievalReordered = 0
  /\ retrievalLive = 0 /\ unmatched = 0
  /\ calls = 0

RetrievalNext ==
  \/ \E request \in Requests : Ask(request)
  \/ AskUnkeyed
  \/ \E call \in pending : ForwardAnswers(call) \/ ForwardFails(call)
  \/ Replay

RetrievalSpec == RetrievalInit /\ [][RetrievalNext]_retrievalVars

-----------------------------------------------------------------------------
(* Properties. *)

Positions == DOMAIN recorded
Bodies == [request : Requests, kind : Kinds, data : Seq(Items)]

RetrievalTypeOK ==
  /\ config \in Configs
  /\ recorded \in Seq(Bodies) /\ captured \in Seq(Bodies)
  /\ byKey \subseteq Positions /\ byBatch \subseteq Positions
  /\ used \in [Positions -> Nat]
  /\ pending \subseteq [call : Nat, request : Requests]
  /\ answer.request \in Requests /\ answer.data \in Seq(Items)
  /\ <<retrievalTotal, retrievalServed, retrievalReordered, retrievalLive, unmatched,
       calls>> \in Nat \X Nat \X Nat \X Nat \X Nat \X Nat

\* Whichever of the two maps a call is found in, it answers once, and of equal requests
\* the earlier recorded answers first.
OnceEarliestFirst ==
  \A p, q \in Positions :
    /\ used[p] <= 1
    /\ p < q /\ recorded[p].request = recorded[q].request => used[q] <= used[p]

\* An answer from the trace that is a list of vectors has, for each text of the request
\* it is given to, one item with that text's index, and that item is its vector.
VectorsAreRight ==
  answer.how \in {"good", "rebuilt"} =>
    /\ Len(answer.data) = Len(answer.request.input)
    /\ \A i \in 1..Len(answer.request.input) :
         \E k \in 1..Len(answer.data) :
           answer.data[k] = [index |-> i, vector |-> answer.request.input[i]]

Unused(p) == used[p] = 0

\* Told that nothing matches: no unused call asked the same, and, unless an unused call
\* with the same texts has an answer that is no list of vectors, none asked the same
\* texts.
NoMatchIsTrue ==
  answer.how = "no match" =>
    \A p \in Positions :
      Unused(p) =>
        /\ recorded[p].request # answer.request
        /\ SameBatch(recorded[p].request, answer.request) =>
             \E q \in 1..p : Unused(q) /\ recorded[q].kind \in {"error", "failed"}

\* A recording holds a pair for every call that ended, and a replay accounts for each
\* call as served, live or unmatched.
EveryCallCounted ==
  /\ config.mode = "record" => retrievalTotal = Len(captured) + Cardinality(pending)
  /\ retrievalServed = Cardinality({p \in Positions : ~ Unused(p)})
  /\ config.mode = "replay" => calls = retrievalServed + retrievalLive + unmatched

(***************************************************************************)
(* Embeddings and rerank calls, asked again in any order and in batches of *)
(* another order: "a recorded call is consumed once, earliest first", no   *)
(* vector is filed under another text, "no recorded retrieval call matches *)
(* this request" is true when it is said, and "retrieval=N/N means every   *)
(* recorded call was reused" (serveRetrieval, reorder).                    *)
(***************************************************************************)
RecordedAnswersOnly ==
  OnceEarliestFirst /\ VectorsAreRight /\ NoMatchIsTrue /\ EveryCallCounted
=============================================================================
