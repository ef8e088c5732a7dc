# A TLA+ model of OrcaReplay

OrcaReplay records what an AI agent does (its model calls, its embedding calls, its shells, tools and
file changes) into a *run*, and replays the run later: exactly and offline, loosely, or as a *fork*
that goes live from a chosen point. A run is `events.jsonl` + `blobs/` + `manifest.json`; a proxy
between the agent and its providers records the calls and answers them again.

These modules model the parts of `packages/` whose correctness depends on order: who is answered
from which recorded call, what is on disk when a process dies, what a command leaves behind when one
of its steps fails, what becomes of the user's files around a replay, where a key may go, and what
arrives when a run is shared. TLC checks each on small instances, TLAPS proves the most important
properties for all values of the constants. Paths below are relative to `packages/` unless they say
otherwise.

- [The system](#the-system) · [The modules](#the-modules) · [The runs](#the-runs) ·
  [Fairness](#fairness) · [The proofs](#the-proofs) ·
  [Where the code and its documents disagree](#where-the-code-and-its-documents-disagree) ·
  [Not modelled](#not-modelled) · [Plan](#plan)

## The system

```
   agent ──HTTP──▶ proxy (server.ts) ──asks──▶ RequestMatcher (matching.ts)
     │    └─TLS──▶ intercept.ts │  └───asks──▶ retrieval index (retrieval.ts)
     │               │  │       └──fetch──▶ provider, gateway (upstream.ts, forward.ts, translate/)
     │ shells, MCP,  │ onExchange / onNetExchange / onDivergence
     │ frameworks    ▼
     │ (shims) ─▶ command (record.ts, replay.ts, attach.ts) ◀──▶ the workspace (fs-capture)
     ▼               │
   files         SerialQueue (serial.ts) ──append()──▶ TraceWriter + Redactor ──▶ run directory
                                                                     ▲    ▲      ▲
                               scrub (scrub.ts), gc (gc.ts) ─────────┘    │      │
                               push, pull (sync.ts, archive.ts) ──────────┘      │
                               graph, checkpoints (graph.ts) read it ────────────┘
```

Everything in one process runs on Node's event loop: code between two awaits is atomic, and every
`await` is a point where other handlers, callbacks and the queue run, and where a kill can fall.
Several processes meet only in the file system.

| Component | State | What is hard | What makes it correct |
|---|---|---|---|
| **Request matcher** `proxy/src/matching.ts` | cursor, deferred positions | a replayed worker pool asks in another order, with drift; exact and approximate rungs compete; the look-ahead window | each recorded answer is used once and none is lost; exact beats approximate; out of place only if close |
| **Trace writer, blobs** `core/src/writer.ts`, `blobs.ts` | `#tail`, `#seq`, bracket flags, three kinds of file | callers that do not await each other, rejected and short writes, a kill at any await, an append racing `close()` | dense order of calls; resolved ⇔ on disk; no dangling blob; the seal is true |
| **Replay proxy** `proxy/src/server.ts` | in-flight count and peak, counters, captured exchanges | concurrent handlers over one matcher; clients that leave, upstreams that fail or break off; back-pressure | strict is offline; distinct answers; each forwarded call recorded once and in the end; counters are the fates |
| **TLS interception** `proxy/src/intercept.ts` | sockets, streams, one HTTP/2 session per origin | abandonment racing the end of an answer; sessions shared by streams | each exchange recorded as what happened to it; strict stays offline; nobody waits for an origin whose failure came as an error |
| **Translation** `providers/src/translate/`, `proxy/src/dialects.ts` | the assembler of a stream | four dialects that group turns, calls and results differently; streams cut off | no word, call or result lost, doubled or reordered, in either direction |
| **Destinations** `cli/src/config.ts`, `upstream.ts`, `setup.ts`, `proxy/src/forward.ts` | the config file and the plan made of it | two setups at once, two reads of the config, one run with calls to several places | a key goes only to whom it was configured for; a run only to whom the user named |
| **Retrieval replay** `proxy/src/retrieval.ts`, `server.ts` | two maps of queues over one list of calls | hundreds of equal calls from a pool; batches in another order with repeated texts; recordings that were cut off | consumed once, earliest first; each vector under its own text |
| **MCP capture and replay** `mcp-shim/src` | frames on disk, ids of a session | ids numbered anew by every session, answers out of order, servers that ask | the n-th question gets the n-th answer to it |
| **Run lifecycle** `cli/src/commands/record.ts`, `replay.ts`, `attach.ts`, `serial.ts` | the queue and its errors, proxy, key, writer | exchanges that outlive the child; a throw at any step of the teardown | nothing lost but what failed; brackets; nothing left listening or on disk; the command ends |
| **Transports** `shell-shim`, `cli/src/agent-spans.ts` | directories outside the run, written by other processes | torn lines, sweeps of other recordings, kills | each frame in the trace once, what is missing is told; a live transport stays, a dead one goes |
| **Agent frameworks** `python-langgraph`, `python-openai-agents`, `agent-spans.ts` | import finders, open spans and counters of each process | finders that remove themselves while they are walked, failing appends, shutdown called twice | every span is in the trace or in a warning |
| **Workspace restore** `cli/src/commands/replay.ts` | the user's tree, a safety copy, files set aside | kills and failures at every file; other writers; directories, links, nested repositories | each of the user's files is somewhere at every instant, and back at the end |
| **Checkpoints, derived events** `fs-capture/src`, `cli/src/exchange-events.ts`, `core/src/graph.ts` | shadow index, pending calls, the trace | snapshots of a workspace nobody holds still; resent conversations; retries | causes are true; no checkpoint lags its conversation; changes add up |
| **Causal graph** `core/src/graph.ts` | none (over a trace) | a late recorder; a trace still written; nested delegations | an inferred cause is the true one where it can be; edges stand |
| **Redaction** `core/src/redaction.ts` | the rules' hits | serialised text and leaves, invisible characters, a second scrub, pictures | no credential's shape is left; a replay still recognises the request |
| **Scrub, garbage collection** `cli/src/commands/scrub.ts`, `gc.ts` | runs and their blobs | kills between two renames; blobs that move; runs that descend from others | every line of a run nothing is removing resolves at every instant; the all-clear is true; no fork without its parent |
| **Push and pull** `cli/src/commands/sync.ts`, `cli/src/archive.ts` | `<run>.lock` and files held aside; `<run>`, `.incoming`, `.replaced`; the gateway's copy | two pulls, stale locks, stalled holders; a run written while it is packed; a copy damaged or serialised anew | a live lock is never removed; one whole copy survives; what arrives is what was, or is refused, or said to differ |

`PROJECT.json` lists every component with its status, and every hazard at the line where it bites.

## The modules

Each system module declares its bounds as CONSTANTS (the comments mark them `bound:`), its parameters
with a named ASSUME, one action per operation or stretch between two awaits, and its properties at
the end, each with the behaviour of the code it is about. An operator marked `\* Fault:` is not part
of the specification: it is the same definition with a plausible mistake, and each checked property
has one that it must catch.

### Answering

**RequestMatcher** — `class RequestMatcher`. `match()` is synchronous, so a call is one action, with
one action for each return: the cursor exactly, a held position exactly, exactly ahead, the nearest
held, the nearest ahead, a miss. A request is a record of what the ladder can tell apart: the trailing
question, the tool output, the number of messages, the surrounding drift, and the salt that rung 2
folds away. The text distances become differences of numbers, and the weights of `rank()` are
constants. `served` and `last` are history.

**ReplayProxy** — EXTENDS RequestMatcher, whose actions its handlers take. A connection is one
request, in phase reading, fetching, translating, piping, blocked or done; `Decide` is everything
`handle()` does between the end of the body and the first await: refuse, pass through, go live, serve,
halt, or go live on a miss. Record, strict and loose replay and fork, with or without a change of
provider, are initial states.

**TlsIntercept** — CONNECT and what follows: each call is an HTTP/1.1 exchange, a stream of an HTTP/2
session to the origin that others share, or a tunnel. Client, origin and proxy act on their own, and
what one does reaches the other as an event later (`HearsOrigin`, `HearsClose`, `SessionCloses`), so
that an end, a close and an error may meet in any order. `events` is what `onNetExchange` was told; `up`
keeps how the request to the origin ended. An origin that goes leaves an error to hear, but over HTTP/2 a
stream closed with CANCEL or NO_ERROR leaves none (`Ways`): after the header its `end` may come, and the
piece of an answer there is is recorded as whole (`HearsQuietEnd`); before the header `forwardH2` listens
for nothing that will come (`intercept.ts:800-841` has no `close` of the upstream stream), so its client
waits until it leaves. The comment at `intercept.ts:1097` counts on `upstream.on('error')` here.

**RetrievalReplay** — the recorder and the replay of embedding and rerank calls in one module, so that
every recording the replay is given is one the recorder can make, cut off anywhere: `loadRetrievals`
turns the log into positions, `indexRetrievals` into the two maps. The key of a call is its request; a
batch key is the multiset of its texts; a vector is named by the text it belongs to.

**McpReplay** — the shim beside a real server, which copies both directions into frames, and the shim
that answers from them (`indexFrames`, `keyOf`, `runMock`). Sessions number their requests anew,
servers answer out of order, complete an answer in two writes, and ask requests of their own. A replay
may launch the server several times (`Shims`): `runMock` keeps its counts in the process, so each session
is answered from the first recorded answer on, also where the recording had moved on.

**Translation**, **ForkTurns** — the four wire formats to and from the canonical one as operators over
blocks, items and stream fragments, and over them a conversation of several turns whose model a fork
has moved: request across, reply back, streamed fragment by fragment, cut off or failed.

### Recording

**TraceLog** — the abstract specification: a log that takes each accepted call at most once, in call
order, and never changes once sealed.

**TraceWriter** — `append()` with its synchronous checks, then `#write` of the head of the `#tail`
chain: `Spill` (temporary file and rename), `IssueWrite`, `WriteReturns` with the whole line or a part
of it, `WriteFails`, `FailBeforeWrite` (validation, redaction, a blob that cannot be written), and
`close()` await by await from the tail to the rewritten manifest, retried if it failed. `Crash` may
come at any point. `calls[i].behind` is history: which calls were unsettled when call *i* was made.

**RunSession** — the four commands that own a run as plans, sequences of what they await
(`run.start`, the child, `drain`, `frames`, closing the proxy, disposing of the key, `run.end`, seal),
with what each does on a throw: `abandon()` where the step is guarded, the `finally` where it is not.
The order of the steps, which differs between the four, is the content of the module. The proxy is
reduced to exchanges that end with a queued write.

**Transports** — two recordings that share a temporary directory: minting, writing (shell frames by
several processes at once, spans by one interpreter with its cap and its losses), touching, draining,
unlinking, and the sweep with which the second begins. Lines may be torn, processes killed, clocks
moved a day.

**AgentSpans** — the bootstrap of the Python adapters: the finders on `sys.meta_path` walked by
position while they remove themselves, the lazy installer, the warnings for a framework used without
its adapter; and what handler and processor count, drop and report, over processes that end or die.

**Checkpoints** — an exchange that ended becomes a task of the queue: its derived events with their
causes, then a snapshot of a workspace that is edited meanwhile (`snapshotWithRetry`, the shadow index,
forced artifact paths, nested repositories). Checkpoints and the tree a replay starts from are derived
from the trace.

**CausalGraph** — the trace of a harness that edits, runs commands, names files and delegates, written
by a recorder that may lag behind it, and over every such trace `runGraph`, `chainTo`,
`enclosingDelegation`, and the pairing of `loadExchanges`.

**Redactor** — a text is a sequence of stretches of characters that the rules tell apart (ten random
characters, a prefix, an invisible character, an escape, PEM marks, a picture's base64, an id's field).
What `redactString` makes of a payload as it is serialised, what a scrub makes of that, what is read
back, and what a replay makes of the live leaf.

### The directories

**RunStore** — the runs of a workspace: a recording, `scrub` step by step (plan, new blobs, files by
rename, stale blobs last) and `gc` (seal, events, blobs, then removals), each killed between two steps.
A blob is named by its contents, so scrubbing one moves it. The `rm` of a run goes file by file, in any
order (`Torn`, `GcRemovesFile`); from its first file on the run is a *ruin*, and stays one when the gc is
killed there. A ruin is still listed, scrubbed, collected again, and refused as a parent once its manifest
or its events are gone; one without a manifest has no parent, no seal and no worktree for gc and is dated
by its directory (`Dates`). A recorder or a scrub that writes into a directory that is gone makes it again
(`Remade`), and what a recorder appends to an unlinked file is lost without an error.

**Checkout** — `replayWorkspace` and its release: what is refused, what is copied first, each file git
writes, each removal (rename aside, judge, remove or put back) and the put-back as steps of their own,
with the agent, the user and other programs writing in between. A directory that goes is emptied first,
path by path (`Resets`, in the order of `rm -r`); `Declared` is what the reset removes, the declared
paths and what is in them. The agent writes where the recording says it does, but neither through a link
nor over what another program has just written (`Direct`); it strays within a bound; and it also writes
where no snapshot looks, clearing no file away to make a directory (`AgentWritesUnseen`). Of the tree it
is assumed that only a directory has anything in it.

**RunLock** — the lock of `withRunLock`: O_EXCL creation, breaking a stale lock (rename aside, ask the
age again, remove or link back), release (probe, rename aside, compare, remove or link back), the
heartbeat's read and `utimes`, ageing and kills. A lock file is named by the session whose token is in
it; `aside[p]` is the file that *p* has renamed away.

**RunPull** — EXTENDS RunLock with everything under the lock: `recoverInterruptedSwap` (the plan from
the three `stat`s, then each mutation with its own probe), staging block by block, verification, the
two renames of the swap, the undo inside `swapStagedRun`, `revertStagedSwap` and the last `rm`. `rm -r`
and staging take a step per block, so a kill leaves half a directory. `had` and `orderly` are history:
that there was a run to lose, and that nobody's recovery was cut short and no two sessions worked at
once.

**RunExchange** — a run on its way: `runEntries` listing and reading file by file while a recorder
writes or a scrub rewrites the run, `writeArchive` and `readArchive` with the entry count of a zip
trailer, what a gateway may make of the copy (as it came, serialised anew, short of something with or
without saying so), and `pull`'s reading, `verifyStaged` and `reportAgainstLocal`. A checksum is the
fact that a byte was lost, a digest the events it is of.

**Gateway** — `setup`'s write of the config (a staging file of its own, the second write after the
probe), the plan a command makes of config, flags and environment, and for each call of a live run
which origin it goes to and which headers along; `push` and `pull` likewise; and what of an origin is
written down. A URL is a host and a form: plain, with userinfo, with a query, or not one at all.

### Instances

The `MC*` modules give the constants their values; `*Proofs` hold the theorems. Where components share
no state, one MC module EXTENDS several and a variable `part` says which of them a behaviour moves, the
others standing still: MCReplayRun (RunSession, RetrievalReplay, McpReplay), MCLiveRun (ForkTurns,
Transports, AgentSpans), MCWorkspace (Checkout, Checkpoints, CausalGraph), MCRunStore (RunStore,
Redactor, RunExchange), MCRunPull (RunPull, Gateway). Their joint state space is the union of the
parts', and nothing that is reachable in one is lost: a product would only repeat it. Components that
do interact are composed as modules: ReplayProxy over RequestMatcher, RunPull over RunLock, ForkTurns
over Translation.

## The runs

| Run | Question | Bounds | Distinct states |
|---|---|---|---|
| `matcher` | what is served, held and left, and which candidate wins | recordings up to 4 over 5 kinds of request, window 1, reported peak up to 2 | 47 000 |
| `writer` | what is on disk whatever fails or dies; refinement of TraceLog; nothing wedges | 3 accepted calls, brackets and spilled events | 238 000 |
| `proxy` | who is answered, what is recorded, the counters; in the end; refinement of RequestMatcher | 2 connections whose clients may leave, 2 requests, recordings up to 2, every mode | 81 000 |
| `intercept` | recorded as what happened, offline, nobody left waiting after an error | 2 calls of each kind, 2 pieces of which 1 is kept, 2 sessions, 2 connections dropped or wound down | 448 000 |
| `replay_run` | what the trace holds and what is left when a command ends; embeddings and reranking; MCP | 4 commands, 2 exchanges of 2 events, 2 failing appends; 2 recorded and 2 replayed calls over 4 requests with a repeated text; 4 frames, 3 questions of two sessions | 640 000 |
| `live_run` | another provider's model; shells and spans through files; the Python adapters | 6 pairs of dialects, 3 turns; 2 recordings, 2 commands, 2 nodes, 2 faults; 2 interpreters, 5 machines, 1 mishap | 1 544 000 |
| `workspace` | the user's files around a replay; what a trace says of causes, snapshots and effects | 32 workspaces of 5 paths, 3 writes, 2 faults; 2 conversations of 2 exchanges, 1 edit; a harness of 3 exchanges, 3 deep | 287 000 |
| `pull` | locks, directories and what the user is told; destinations and keys | 3 sessions, 2 blocks, 1 trouble beside a session killed long ago; 2 setups, 1 live run or 1 push or pull | 1 458 000 |
| `store` | scrub, gc and a recording; redaction; what is pushed and pulled | 3 runs in 8 histories, 1 kill; every text of up to 3 of 11 stretches, longer ones in pairs; a run of up to 10 files, a trailer that counts to 7 | 907 000 |
| `mcp_serverasks` | *violated:* a question is answered with its answer though the server asks too | as `replay_run` | |
| `graph_pairs` | *violated:* a request is replayed with its own response | 1 lost append | |
| `redact_rejects` | *violated:* redaction cannot make a line unparseable | as `store` | |

Why the bounds are enough for the cases that matter:

- *matcher*: with window 1 and four positions there is a cursor, something held behind it, something in
  the window and something beyond it, so that each return of `match()` has competitors of every other
  kind. The five requests differ from one another in each way the ladder can tell, and no other.
- *writer*: three calls are a rejected one between two that succeed, a bracket with something in it,
  and an append that arrives after `close()` took the tail. One blob content is enough: a second would
  be another name.
- *proxy*: two handlers race for one recorded answer, and `StatsTellFates` needs all the ways out of a
  handler, each of which occurs. A third connection makes the peak exceed the window; that instance
  (333 000 states, clients that stay) was checked as well.
- *intercept*: two streams share a session and a third party closes it; a session that is replaced
  while its close is still to come needs the second. A response of two pieces may be whole, begun, or
  not begun, and longer than what is kept.
- *replay_run*: `<<a, a, b>>`, `<<a, b, a>>` and `<<a, b, b>>` are the smallest batches in which a
  position, a multiset and a set disagree. One exchange that has ended and one that outlives the child;
  two faults are one in the command and one in what cleans up after it. Four frames hold two questions
  and two answers in any order, or an answer cut by the end of its session and asked again; three
  questions are one past the recording in one session of the replay, or a second session beside a first.
- *live_run*: three turns are a call, its result beside another call, and an answer to that; each
  turn's content has prose, calls side by side, a call between two texts, reasoning, nothing, or a call
  cut short. Two recordings are one that lives and one that sweeps. The interpreters of `AgentSpans`
  run one after the other (they share nothing but the file, which is kept as a set), and its machines
  have each adapter installed or not.
- *workspace*: the thirty-two are every way in which a path can differ between what the user has and two
  recorded trees: absent, a file, a directory, a link, ignored, sensitive, another repository. Two
  faults are one in the replay and one in putting things back. The harness's three turns are a
  delegation with a call inside of it; an instance of four turns (1 170 000 states) was checked once.
  In the passing run no append is lost (`MaxLost = 0`): `graph_pairs` shows what one costs.
- *pull*: the dead session's lock, the one that breaks it and a second waiter are the race that
  `breakStaleRunLock` is written against; two blocks are the smallest archive that can be a blend. In
  the initial states one session may have died at any of its steps, so one more trouble is the second
  failure, not the first. A live command and a sync command both only read the config, so each has
  behaviours of its own, the one beside one setup, the other beside two.
- *store*: six histories hold material in every place a run has (a line, a line whose scrubbed form
  the schema rejects, blobs that scrub to the same contents or to a blob already there, the manifest, a
  partial write, snapshots, other files) and each relation two runs may have; in the two others a run is
  recorded beside a gc that removes a fork, or sweeps an orphan. Of texts, three stretches
  are a secret between any two neighbours; the longer ones are the shapes three cannot make. A finished
  run has at most as many files as the trailer counts; with `--fs`, or half-way through a scrub, the
  count is the reserved one, wraps to nothing, or wraps to one.

Deadlock is not checked anywhere: each of these systems ends (all requests answered, the run sealed,
the process dead), and ending is a deadlock to TLC. What must not get stuck is stated as liveness.

Several small statements about one artifact are one property of its run (`KeepsTheStory`,
`ReplySurvives`, `FramesAccounted`, `TransportsComeAndGo`, `TraceIsTrue`, `GraphIsTrue`, `WhatArrives`);
each conjunct has a name, a comment and a mutant of its own. Type invariants and properties that are
proved for all constants (`NoQuietMiss`, `StrictStaysOffline`, `AnswersAreDistinct`, `DenseInCallOrder`,
`WrittenIsOnDisk`, `BracketsIfAwaited`, `KeepsOut`, and the types of Gateway,
TlsIntercept and Checkout) are left to the proofs.

What some properties except, and why:

- `GraphIsTrue`: an effect is traced to its call unless the recorder wrote the call after its tool had
  run, or another call within `TURN_REACH` names the same thing. Then nothing in the trace tells the two
  apart. Delegations begin within one another and are never side by side; an edge never points backward,
  so `ChainTo` needs no guard against cycles.
- `SpansAccounted`: adapters that are broken, or that a framework loaded before `sitecustomize`, are
  outside of it; the SDK can be imported when the interpreter starts; a user's `set_trace_processors`
  replaces orca's processor, whose drops then go unreported. Only python-langgraph signs its report: what
  the SDK's processor dropped is in the total the warning gives, and under nobody's name
  (`processor.py:283`).
- `KeysStayHome`, `GoesWhereNamed`: what `url_source` calls "default" is what setup wrote. A flag beats
  the environment before the plan is made. An exported but empty `ORCA_UPSTREAM_*` leaves its provider
  to the vendor, and the key then stays at home. With one configured origin every passthrough call goes
  there by design. `KeysStayHome` excepts a URL without a scheme that a push, pull or list was itself
  given: nothing there asks whether it is one, and the error of its fetch quotes it. Once the plan is
  made the calls of a run are independent: one is enough.
- `Whole` excepts ruins: a gc killed inside the `rm` of a run leaves lines without their blobs
  (`gc.ts:141`). `Provenance` does not except them: a ruin costs no other run its parent.
- `StillMatches` speaks of payloads that are `Plain`; see the redactor's notes below.
- `WhatArrives`: `PackedWhole` is of a push nobody wrote beside. push takes no lock, so beside a scrub or
  a recording it can ship old events without their blobs, unnoticed when the digest matches. The digest
  covers the events only: a blob the gateway lost is not missed by a pull. A run without a digest is
  not checked, and of a local copy whose own digest is stale only the digests are compared.

## Fairness

- **TraceWriter**: weak fairness of the two chains, *some* outcome of the operation under way: Node
  settles every promise of an I/O operation. Nothing says that it succeeds, or that anybody closes.
- **ReplayProxy**: weak fairness of each handler's own steps (the event loop runs what is ready), of
  fetch (undici's header and body timeouts reject), of translation, and of `Drained`, which is enabled
  only while the client is there: a client that stays reads. Strong fairness of `UpstreamEnds`, which
  is disabled each time the socket fills up: an answer has an end, however often it waits. No fairness
  for arrivals or for clients that leave.
- **TlsIntercept**: weak fairness of hearing: an event that happened on a socket is delivered. None for
  what client and origin do.
- **RunSession**: weak fairness of the command, the queue and of the end of an exchange. That the child
  exits is assumed: the command awaits it without a bound of its own, and it is the user's to end.
- **All others**: safety only. Nothing in the lock promises progress: sixty attempts may all fail; a
  scrub, a replay or a setup is a sequence that ends or is killed.

## The proofs

Each theorem holds for every value of the constants that satisfies the named assumptions of its module.

**ReplayProxyProofs**, of the matcher. Inductive invariant `IInv`: the type, `AnsweredOrOwed` (below the cursor a
position is either used once or held; at or past it, neither) and `HeldInOrder` (the held positions
ascend and lie behind the cursor). The order is needed because removing "the" held position is only
then removing all of it, and because `#skipTo` appends a stretch that must not meet what is there.
From it: no answer served twice, none lost, and `ExactOutranksApproximate`, by showing that the three
exact attempts together look at every unused position. `RerunExact`: a rerun that asks what was
recorded, in any order, is answered at rung 1 throughout. `OwnAnswerFirst` compares ranks: a recorded
request equal up to salt is a candidate on rung 2 at least, so what differs cannot outrank it unless
nearness weighs more than distance, which `DistanceLeads` excludes: `rank()` gives a unit of distance
the weight of a thousand positions. `OutOfPlaceClose` reads the candidates of `#nearest`.

*Of the proxy.* `ProxyIInv` adds to the matcher's `IInv`, over any number of connections, that
the counters fit in their types, that the recording is the replayable prefix, `Offline`, `Quiet` and
`Distinct` (a connection answered from the trace has a position that was used exactly once).
`MatcherMoves` shows that each step of a handler is a step of the matcher or leaves it alone, so what is
proved of RequestMatcher holds in the proxy (`ProxyDrivesMatcher`). `Written` says what an exchange that
was recorded tells about its connection (it was forwarded, it is done, it went the way the record says)
and that no connection has two; `WrittenDownOnce` is that at the end of each connection. `Fates` pairs
every counter with the set of connections it counts: one lemma for each way out of a handler shows that
the set gains one connection exactly when the counter is raised (`CountersTellFates`).

**TraceWriterProofs**. `IInv` is six parts: the shape of the chain, the order of lines and `#seq` while
the process lives, resolved ⇔ written, referenced blobs, the stages of the seal, and what the checks of
`append()` knew of the calls in flight (`Brackets`). `ResolvedIsWritten` counts the lines of each append
(`OneLineEach`): one, whole or as far as a short write took it, if it resolved; none if it rejected; and
after a kill at most one more, at the end (`AtMostCurrent`). `LogOrder` restricts what is known of `#seq` to a
living process, since a kill may separate the line from the increment. `SealIsTrue` rests on
`Sealing`: once the handle is closed no write can be under way, so a late append fails before it
changes the digested file. `LogRefined` maps each step to a step of TraceLog or a stutter: only
`WriteReturns`, the short writes and a kill in mid-write can extend the log, only the last rename of
`close()` seals.

*Of the transports.* `TransportBooks` says of each command on its own what `TransportsComeAndGo` says of
all of them: `MadeBy`, a transport is listed once it is made, and the plan of what comes next is in the
order of the kinds; `HeldFor`, what a living command has still to read is there, is its own and was
touched within the day, which is all a sweep looks at; `RemovedBy`, each kind is settled (gone, reported,
or kept with something in it by a command that failed) or still due. A sweep is a step of another command
and disturbs `HeldFor` alone; that it cannot is the property.

**TlsInterceptProofs**. `EventsAreTrue` says which end each recorded exchange had. It needs an argument
because `close` records an abandonment of whatever it takes to be unfinished. `Settled` is why it may:
when an answer is finished, the exchange is in the trace, its client is gone, or its origin is lost; what
is under way is not recorded yet, and what its origin ended is. So nothing comes after the record, no
piece, no header and no second end, and it stays true (`Forwards`, `InterceptTellsTheTruth`). A request
over the capture limit is recorded by HTTP/1.1 as abandoned although it was refused: that is what
`upstream.destroy(error)` before any header leads to.

**ReplayRunProofs**, of the session. `Progress` says where in its plan each of the four commands has
`run.end` written, the run sealed, the proxy closed and the key removed (`InPlan`), and the same of
`abandon()` (`InAbandon`); an error has a fault behind it, or came after the seal. That is what
`LeavesNothingBehind` needs of a command half-way. `RecordBooks` is about the events: a task on the queue
knows what it still owes (`QueueBooks`), who has left stays gone and a closed proxy holds nobody
(`ClientBooks`), each lost exchange is paid for by a fault of its own and none is lost when the command
returns (`LostBooks`), and from the last drain on nothing is left to be written but what no client waits
for (`QuietInTime`, `NothingBehind`). Where the last drain is differs between the plans: `Drained`.
`SessionAssumption` asks that no exchange is named as one of the command's own events.

*Of the retrieval index.* `RetrievalBooks`: the two queues hold the positions that have not answered, each
once (`QueuesAreUnused`: a position leaves both when it leaves one), of two equal requests the earlier
answers first (`EarlierFirst`), and a body that is a list of vectors has one for each text (`GoodOnly`).
The rest is about sequences: the k-th occurrence of a text in a permuted batch exists, and taking it
for each position of the live call uses each recorded vector once. The replay's starting point is any
recording, whole or without its last body, so the proof carries `GoodOnly` through the recorder too.

*Of the MCP mock.* `McpBooks`: the call that is open under an id is the last one asked under it among the
frames, and a frame is filed under a call exactly when the server answered that call with it
(`FrameBooks`). `RecordedMore` says what a frame must be for this to stand when it is written; half an
answer, another server's frame and a notification are filed under nothing, and a request of the server is
filed under nothing because what its client answered under that id asks nothing: that is where
`ServerId \notin Id` is needed, and the run `mcp_serverasks` is the history in which it fails. From there
the index is what the server said (`AnswersAreSaid`), and the counters of each `runMock` are the number
of earlier requests of its session for the call, or for calls of the method that were never answered
(`Counted`).

**RunPullProofs**. `LockInv`: a file is held aside exactly by those who are claiming one (or died doing
so), a session that has not created its lock has no file anywhere, no file is in two places. From it
`LiveLockIsKept`: no step of any number of sessions removes a lock file that is younger than
STALE_LOCK_MS, except the releasing session its own, whatever is killed, fails or stalls. What is done
under the lock changes no lock file (`WorkLeavesLocks`). `PullTypeAlways` needs `BlockLeft`, that there
is a block to write for whoever has not written the last.

`RunInv` is about the directories, and is needed because `RunSurvives` alone says nothing of what a
session at some step may do next. In an orderly history one session is under the lock, so what it found
is what is there: `Fits` gives for each of its steps how the three directories stand before it
(`PlanFits` for what is left of a recovery's plan), `Kept` what any step may leave to the next session
should it be the last one, `Honest` that the copy of a session that has not installed it stands neither
at `<run>` nor where the next recovery would take it from. There is a lemma per action (`TidyFits`,
`InstallFits`, ...), one for the lock changing hands (`HandsOver`), and one for the initial states,
which are what a killed pull may have left at any of its steps. `RunAlwaysSurvives`, `FailuresAreTrue`
and `SuccessesAreTrue` follow, and `OrderlyRunIsWhole`: the blend that `MCRunPull_blend.cfg` finds needs
two sessions at once or a recovery cut short. `Ahead`, what a session has not done yet, holds of any
history.

*Of the exchange.* `ExchangeBooks` follows the bytes. `StillTo` says of the writes a recorder or a scrub has
still to make that a blob comes before the events that refer to it, and goes after the events that did;
so the run refers to blobs it has at every step of its writer, and wherever he dies (`RunStands`). A push
is compared with the run as it stood when the walk began: a file is as it was then, or was edited since
and will not be again (`Same`, `Walked`). What is as it was has been read so or is still to be listed, so
a push that ends with the run as it began has read all of it; and what a scrub removed is in no file a
push can still read once the scrub is through (`NothingRaw`). The archive is a sequence in the order of
`Order`, which holds each file once: `UnpacksTo` takes it back to the set of files, for any
number of them, and `ReadsBack` and `ArrivesOrNot` show that a count below the sentinel is the number of
entries. From there each copy has what the last had (`Packed`, `Stored`, `Fetched`), with the gateway free
to serialise the events anew, and a sealed copy holds the events it was sealed over (`SealHolds`).
`ExchangeAssumption` is the layout of a run directory: no name twice, `blobs` and `fs` directories and the
three other names files, events that refer to blobs and, while they are recorded, only grow.

**RunStoreProofs**. Four inductive invariants. `Types`. `Order`: who can be at work at once, in which
order runs come into being, what a gc has listed. `Trust` (with `Whole`): what a scrub plans follows what
was recorded and resolves among the blobs that will be there, and a gc sweeps sealed runs alone and
nothing their lines refer to. `Descent` (with `Provenance`): what a gc has read of the runs no `rm` has
begun on is still true, no such run that it keeps descends from one it dooms, and of a run and its parent
the date it sorts by tells the order, so a fork goes before its parent though ruins lie among them.
`Clear` (with `ClearMeansClear`): whatever holds material in the run a scrub is at work in is on the list
of what it will rewrite. The last three are theorems of `~ Overlap /\ StoreSpec`: no scrub and no new
fork beside a gc or a recording, which the commands do not enforce and their documentation asks for.
`HistoriesAssumption` is what recordings, forks and replays leave: a line after its blob, a run after its
parent, and a run named by its first event has one that can be read.

**WorkspaceProofs**, of the checkout. All rests on what `assertResettable` and `assertOverwritable` have settled before the
first file is removed (`Vetted`): a file the recording writes or the reset removes is in the copy, or is
nowhere yet and will be taken away again, or lies under a file that the copy has. So three kinds of path
never meet: what is copied may be written over and comes back, what the recording introduces is beside
no file of the user's, the rest no write reaches. `World` says so of the tree at any step (`Shaped`: only
a directory has something in it; `Spared`, `Accounted`, `Filled`), `Steps` what the step has done so far,
`Removal` where a removal stands, `Ended` what the user is left with. `NothingIsLost`,
`OnlyItsOwnIsTaken` and `TheTreeComesBack` are read off. The attempt changed the model twice: as it was, the modelled agent could turn
another program's new file into a directory, and a reset that removed a directory left its contents
standing without one. Neither is anything the code or `rm -r` can do.

*Of the recorder.* `RecorderBooks` carries each part of `TraceIsTrue` back to what the recorder held when
it wrote a line. `Answers`, `Called` and `Returned`: a queued exchange is one the conversation is past,
two of them never bring the same result, what has not come yet is in no event, and an open call is the
event `pending` names; so an event's causes are the events it came from, and a result is in the trace
once. `Asked`, `Looked` and `InTurn`: the workspace only moves on, so no request asked with more than it
holds now, nor with more than what a snapshot under way has read of it, nor (once it is written) than
any later snapshot; a conversation therefore resumes at no tree older than its last request. The request
lines carry that tree as history (`asked`). `Compared`: as long as no append was lost, what `FsCapture`
compares with is the last tree in the trace. The derived events of one exchange are written in one step;
`RankIs`, `DeriveIs` and `PersistKeeps` say at which place in the trace each of them stands.

**CausalGraphProofs**. `GraphBooks` says in what order harness and recorder work, for the graph is right by
nothing else. `Stack`: a conversation waits for the next one alone, on the call that one began with, and
what it has run itself is no delegation unless it is back at the top. `CallBooks`: calls are written in
the order they were made, by the exchanges that brought them. `EffectBooks`: a change or a shell frame
that is not read yet is of a call that has run, within a turn of it unless the tool was quicker than the
recorder, and an effect in the trace is of the call it says. `DelegateBooks`: an exchange still to be
written is of the latest delegation that will be open when it is (`OpenAt`), carries results of calls
that will be known (`KnownAt`), and a delegation that has returned is in nobody's hands. From there each
conjunct of `GraphIsTrue` follows: `EffectsDoTrace` (the call is the only candidate, so the edge is
there, and a chain holds the chains of what it reaches), `NamesTheDelegate`, which is inductive with the
books, and `EdgesDoStand` (both kinds of edge look backward alone), which needs the types only. A chain is
a recursive function on seqs; `ChainIs` shows, from the least seq at which it would fail, that it is what the edges say.
`WritesBooks` is the long one: a task moves from the queue into the trace, and what was said of the queue
must be said of one exchange fewer and of the trace as it has grown, however many of its events were kept.

**RunPullProofs**, of Gateway. What is promised of a request that left, the command must already know of the one it
is about to send. `Sound` follows each command from what it was given: a setup holds a gateway as it was
typed (`SetupRight`), a live command a plan whose key belongs to the gateway the plan is for
(`LiveRight`), a sync command a destination the user typed, by flag or environment if it has no
scheme, and a key for it (`SyncRight`), the file what a
setup leaves, and what has left stays right (`WentRight`). One step is one command's (`OneMoves`).
`GatewayAssumption` says of a config that was there before that it is as setup leaves one: its URL
usable, its key homed at that URL, and none typed only for OrcaRouter. A config edited by hand is outside
of it.

Only model-checked: liveness (`NothingWedges`, `LiveCallsGetRecorded`, `NotLeftHanging`,
`EveryCommandEnds`) and what rests on ENABLED, which the prover cannot do; `RemainingIsUnanswered`, a
count by recursion over the recording, which would need induction over data; what rests on folds and
recursive functions over sequences, and so on induction over data: `FramesAccounted` (a drained file is
filtered line by line), `KeepsTheStory` and `ReplySurvives` (the translations), `StillMatches` and
`NoShapeIsLeft` (rules applied one after another over a text); and `SpansAccounted`.

## Where the code and its documents disagree

Three have a run that ends in a counterexample; `PROJECT.json` quotes both sides under "findings".

1. A request a server sends its client is filed as the answer to the client's request of that id, and
   served in its place (`mcp-shim/src/mock.ts:121`; `mcp_serverasks`).
2. One response missing from a trace gives every later request its successor's response
   (`cli/src/commands/replay.ts:96`; `graph_pairs`).
3. A line that redaction made unparseable is never written (`core/src/writer.ts:285`;
   `redact_rejects`).

These have a `.cfg` of their own that ends in a counterexample too (`tlc -config <cfg> <module>`):

| Configuration | What the code does |
|---|---|
| `MCTraceWriter_opens.cfg` | `close()` rewrites `manifest.json` in place: a kill in between takes away the readable manifest (`core/src/writer.ts:258`) |
| `MCReplayProxy_leaves.cfg` | `pipeThrough` waits for a `drain` that never comes when the client has left (`proxy/src/server.ts:1663`) |
| `MCReplayProxy_breaks.cfg` | an upstream that breaks off after the headers ends the process (`server.ts:668`) |
| `MCTlsIntercept_closes.cfg` | the close of a replaced HTTP/2 session forgets its successor, which `close()` then leaves open (`intercept.ts:500`) |
| `MCReplayRun_listens.cfg` | one failed queued write makes `drain()` throw outside `abandon()`: the run stays unsealed and the proxy listens on (`cli/src/commands/record.ts:534`) |
| `MCReplayRun_attach.cfg` | an attached session drains before it closes its proxy and not after: an exchange its client heard out may be missing (`attach.ts:331`) |
| `MCRunPull_blend.cfg` | a recovery that was skipped or failed is followed by a pull that stages over what it should have recovered (`sync.ts:1375`) |
| `MCLiveRun_codex.cfg` | a Codex agent's calls become a turn each on their way to Anthropic, so turns do not alternate |

Two more end in one when the property takes the place of the run's own in its `.cfg`:
`DetectorsAreIdempotent` in `MCRunStore.cfg` (redacting a redacted text again changes it: a picture that
runs on into a token), and `GuessesAreTrue` in `MCWorkspace.cfg` (an edge the graph infers leads to a
call that did not cause the effect, `core/src/graph.ts:227`).

Met while modelling and visible in the models, without a configuration of their own:

- **Matcher.** `match()` tries the cursor before the held positions, so of two byte-identical recorded
  requests the later can be served first (`matching.ts:684`; the comment at `:888` says in the order the
  recording got them). What `RecordedAnswersOnly` says of retrieval calls, earliest first, does not hold
  here. In a recording of more than a thousand requests nearness can outweigh a small distance
  (`matching.ts:371`; `OwnAnswerFirst` is about shorter ones).
- **Writer.** Two `run.start` or two `run.end` called without awaiting both land (`writer.ts:190`);
  `BracketsIfAwaited` states what is left. A short write is taken for a written line
  (`writer.ts:291`). An append made after `close()` took the tail may spill a blob after the blobs were
  counted (`writer.ts:230`): `SealDescribesLog` is about the digest and the event count only.
- **Proxy.** A fork takes its decision from the cursor, which a reordered match moves past requests that
  were never asked: they go live when they come (`server.ts:1840`); `NoQuietMiss` says "played or
  stepped over". A loose replay refuses a path that no dialect claims (`server.ts:1509`; `README.md:115`)
  and retrieval calls it has no key for. An answer of another provider that cannot be translated is
  reported to the agent and not recorded (`server.ts:1102`); `RecordedOnce` excepts it.
- **Translation.** `canonicalToCodexRequest` drops calls and results; `canonicalToCodexResponse` writes
  blocks its own reader skips; `parseCodexSse` doubles a text and passes over `failed` and `incomplete`.
  A `responses` stream's `error` event is not handled, and one cut off before its end reads as
  `end_turn`. In the default order of dialects a fork never picks `responses` for its model.
- **Retrieval.** A permuted batch is refused when a failed recording of the same texts stands before a
  good one; `RecordedAnswersOnly` excepts it. What a fork or a loose replay fetches live is not kept
  (`server.ts:1323`).
- **Session.** A fork writes `run.end` and seals before it closes its proxy (`replay.ts:1201`), so an
  exchange may land behind `run.end` or be refused. An exact replay has no drain behind `proxy.close()`
  (`replay.ts:743`). A fork's key stays on disk after a throw outside the guard. `attach` writes
  `run.start` before its port is bound and its adapter prepared, and if either fails the run is never
  sealed; `LeavesNothingBehind` says of which commands and cases it is true.
- **Agent frameworks.** The comment at `MAX_OPEN` in `handler.py` says that over the ceiling "the start
  is still written and the end is not"; the code returns before it writes the start.
- **Gateway.** `resolveGateway` does not ask whether a destination is a URL, as setup and the live
  commands do (`sync.ts:130`). What has no scheme reaches fetch, whose error quotes it, and
  `withoutCredentials` leaves `gw?key=…` as it is when the host has no dot (`main.ts:290`, whose comment
  says it covers every command).
- **Redactor.** A newline's `\n` in front of a token, and a PEM block without an end, make a serialised
  line unparseable (3 above); the response is then missing from the trace, which is where 2 begins. A
  leaf under the key `id` is exempt as it is serialised but swept in the live request if it holds an
  invisible character. The mark of a binary body exempts the whole line it stands in.
- **Scrub.** What `commit()` says of a scrub killed part-way, that running the command again fixes it,
  fails of the digest: if the events landed and the manifest did not, the next run finds nothing to
  rewrite and leaves the stale digest (`RerunFinishes` in RunStore).
- **Collection.** A gc killed inside the `rm` of a run leaves a ruin that the next gc finds and removes,
  if its flags still doom it; but without its manifest a fork no longer names its worktree, which then
  stays for good, and an `rm` that a recorder is writing into fails (`gc.ts:141`, `:258`).
- **Pull.** The last `rm` of the retired copy is unguarded: it can report an installed pull as failed
  (`sync.ts:1431`; comment at `:922`). If the undo inside `swapStagedRun` fails, the revert still removes
  `.incoming`; killed there, both siblings are present and recovery promotes what is left of it
  (`sync.ts:1173`, `:945`). With a third live waiter two sessions can be under one lock without any
  stall: a fresh lock held aside by one waiter leaves the path free for the other (`sync.ts:549`,
  "Serialise everything"). A lock that is linked back after its session has left blocks the run until
  it is stale. `RunSurvives`, `FailureIsTrue` and `SuccessIsTrue` are therefore stated of histories that
  are `orderly`; `LiveLockKept` is not so restricted.

## Not modelled

- `proxy/src/ca.ts`, `der.ts`, `tls-hosts.ts`: certificates and host lists, pure functions whose results
  the models take as inputs. `providers/src/index.ts`, `pricing.ts`: single requests and tables.
- `schema`, `viewer`, `compare`, `inspect`, the Python reader: they read sealed runs.
- `adapters`, `plugin-api`, `doctor`, `quickstart`, `mcp-server.ts`: tables, printing and sequential
  commands over the parts above. `capture/` and `scripts/`: demonstrations and release tooling.
- `private-files.ts`, `paths.ts`: permissions and name checks that the operating system carries out.
- `tls-capture.ts`: how an intercepted exchange becomes an event; it is the `Emit` of TlsIntercept.
- Inside modelled parts: in the writer `create()`, `setGit` and two overlapping calls of `close()`; in
  the intercepted route refused upgrades and handshakes; in retrieval how a body is digested (the key
  *is* the request) and plugins' own rules, for which "rerank" stands; in a session choosing the
  adapter, and a replay under `--no-trace`; in translation images, schemas, sampling fields and the
  parked metadata; in the graph the choice of a card's subject and the clamping of attributes; in a
  pull file modes, a heartbeat that finds its file young, and the three `stat` calls of one
  `Promise.all`, which are one step (`link` and the removal of the name aside are one step too: a kill
  between them leaves a second name nobody looks for); in the archive the 32-bit sizes and the check of
  names; in `list` its one request and its formatting; in a gc the `rm` of a worktree, which is one step,
  and the empty shard directories.

## Plan

Done: RequestMatcher, TraceLog and TraceWriter, ReplayProxy, RetrievalReplay, RunSession with attach,
RunLock and RunPull; then TlsIntercept, Checkout, Checkpoints, RunStore, Transports, AgentSpans,
McpReplay, Translation and ForkTurns, Redactor, CausalGraph, RunExchange and Gateway; proofs of
RequestMatcher, TraceWriter, ReplayProxy, RunLock and RunPull, RunStore, Checkout, TlsIntercept, Gateway,
RunSession, RetrievalReplay, McpReplay, Checkpoints, CausalGraph, RunExchange, and of Transports the
coming and going.

Next modules: close of the proxy with open handlers, shared by ReplayProxy, TlsIntercept and RunSession;
the composition of RunExchange's push with RunStore's scrub over one directory; the reader that skips a
line, between TraceWriter and `loadExchanges`.

Next proofs: `SpansAccounted` of AgentSpans, whose finders are a short list; the part of `FramesAccounted`
that says no frame is read twice. Each gets its strengthening checked by TLC first.
