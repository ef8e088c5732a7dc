------------------------------ MODULE Checkpoints ------------------------------
(***************************************************************************)
(* How a recording turns exchanges into events and states of the workspace *)
(* into checkpoints, and what a fork or a replay then starts from.         *)
(*                                                                         *)
(* Agents talk through the proxy and edit the workspace.  Every exchange   *)
(* that ends becomes a task of the SerialQueue: the events derived from it *)
(* (packages/cli/src/exchange-events.ts) and a snapshot of a workspace     *)
(* nobody holds still (fs-events.ts, snapshot.ts, fs-capture's capture.ts  *)
(* and shadow.ts).  Checkpoints are derived from the trace afterwards      *)
(* (packages/core/src/graph.ts).                                           *)
(***************************************************************************)
EXTENDS Naturals, Sequences, FiniteSets

CONSTANTS
  Lanes,      \* conversations that go on side by side
  Depth,      \* bound: exchanges of one conversation
  Tracked,    \* the files git reads for itself
  Forced,     \* those under a declared artifact path, which the workspace ignores
  Nil,
  MaxEdits,   \* bound: edits the agents make
  Attempts,   \* snapshotWithRetry's attempts
  MaxTrouble  \* bound: exchanges that fail, appends that throw, git calls that fail

ASSUME CheckpointsAssumption ==
  /\ Depth \in Nat \ {0} /\ Attempts \in Nat \ {0}
  /\ Tracked # {} /\ Tracked \intersect Forced = {}
  /\ MaxEdits \in Nat /\ MaxTrouble \in Nat
  /\ Nil \notin [Tracked \union Forced -> 0..MaxEdits]

Files == Tracked \union Forced
Work == [Files -> 0..MaxEdits]
Blank == [p \in Files |-> 0]
Tool == Lanes \X (1..Depth)

VARIABLES
  work,      \* the workspace: how often each file was edited
  lane,      \* of each conversation: where it is, and the workspace as it asked
  queue,     \* exchanges that ended, oldest first
  snap,      \* the snapshot being taken
  fs,        \* FsCapture's previousTree
  noted,     \* ShadowIndex: the nested repository without a commit was met
  told,      \* and the operator heard of it
  turn,
  pending,   \* ExchangeEventDeriver: the seq of each tool call
  closed,    \* ExchangeEventDeriver: the tool results it has seen
  trace,     \* events.jsonl; asked is history: the workspace as a request was sent
  dropped,   \* history: a snapshot was taken and its event did not reach the trace
  edits, trouble

checkVars == <<work, lane, queue, snap, fs, noted, told, turn, pending, closed, trace,
               dropped, edits, trouble>>
agentVars == <<work, lane, edits>>
deriverVars == <<turn, pending, closed>>
fsVars == <<fs, noted, told, dropped>>

NoSnap == [attempt |-> 0, todo |-> {}, tree |-> Blank, fresh |-> FALSE]
Attempt(k) == [attempt |-> k, todo |-> Files, tree |-> Blank, fresh |-> FALSE]

\* The first snapshot is taken before the agent is launched.
CheckInit ==
  /\ work = Blank
  /\ lane = [l \in Lanes |-> [n |-> 1, phase |-> "thinking", asked |-> Blank]]
  /\ queue = << >> /\ snap = Attempt(1) /\ fs = Nil
  /\ noted = FALSE /\ told = FALSE /\ turn = 0
  /\ pending = [t \in Tool |-> 0] /\ closed = {}
  /\ trace = << >> /\ dropped = FALSE
  /\ edits = 0 /\ trouble = 0

Launched == turn > 0 \/ snap = NoSnap

-----------------------------------------------------------------------------
(* The agents. *)

Edit(p) ==
  /\ Launched /\ edits < MaxEdits
  /\ work' = [work EXCEPT ![p] = @ + 1]
  /\ edits' = edits + 1
  /\ UNCHANGED <<lane, queue, snap, fsVars, deriverVars, trace, trouble>>

Ask(l) ==
  /\ Launched /\ lane[l].phase = "thinking" /\ lane[l].n <= Depth
  /\ lane' = [lane EXCEPT ![l].phase = "asked", ![l].asked = work]
  /\ UNCHANGED <<work, queue, snap, fsVars, deriverVars, trace,
                 edits, trouble>>

\* onExchange; an answer that is an error calls no tool, and is asked again.
Answered(l, ok) ==
  /\ lane[l].phase = "asked"
  /\ ok \/ trouble < MaxTrouble
  /\ trouble' = IF ok THEN trouble ELSE trouble + 1
  /\ queue' = Append(queue, [lane |-> l, n |-> lane[l].n, ok |-> ok, asked |-> lane[l].asked])
  /\ lane' = [lane EXCEPT ![l] = [n |-> IF ok THEN @.n + 1 ELSE @.n, phase |-> "thinking",
                                  asked |-> Blank]]
  /\ UNCHANGED <<work, snap, fsVars, deriverVars, trace, edits>>

-----------------------------------------------------------------------------
(* The events of an exchange. *)

Event(type, x) == [type |-> type, lane |-> x.lane, n |-> x.n, by |-> {}]
IdOf(e) == <<e.lane, e.n>>

\* The tool results a request carries: the calls of every exchange before it.
Carried(x) == {x.lane} \X (1..(x.n - 1))
\* Fault: the conversation is resent, and its results are taken for new.
FreshAgain(x) == Carried(x)
Fresh(x) == Carried(x) \ closed

\* by: positions in this batch.  Results come first, they happened before.
Derive(x) ==
  LET k == Cardinality(Fresh(x))
      result(i) == CHOOSE t \in Fresh(x) : Cardinality({u \in Fresh(x) : u[2] <= t[2]}) = i
  IN [i \in 1..k |-> Event("tool.result", [x EXCEPT !.n = result(i)[2]])]
     \o <<[Event("model.request", x) EXCEPT !.by = 1..k],
          [Event("model.response", x) EXCEPT !.by = {k + 1}]>>
     \o (IF x.ok THEN <<[Event("tool.call", x) EXCEPT !.by = {k + 2}]>> ELSE << >>)

\* Fault: a call is forgotten as its result is seen.
CausesForgetting(e, start) == {start + i : i \in e.by}
\* The seqs an event names: its own batch's, and the call a result answers.
Causes(e, start) ==
  {start + i : i \in e.by}
  \union (IF e.type = "tool.result" THEN {pending[IdOf(e)]} \ {0} ELSE {})

\* persist(): the turn, then the events one by one, then the snapshot.  An append
\* that throws takes the rest of the task with it.
Persist(kept) ==
  /\ queue # << >> /\ snap = NoSnap
  /\ LET x == Head(queue)
         batch == Derive(x)
         start == Len(trace)
         whole == kept = Len(batch)
     IN /\ kept <= Len(batch) /\ (whole \/ trouble < MaxTrouble)
        /\ trouble' = IF whole THEN trouble ELSE trouble + 1
        /\ turn' = turn + 1
        /\ closed' = closed \union Carried(x)
        /\ pending' = IF x.ok THEN [pending EXCEPT ![IdOf(x)] = IF whole THEN start + kept ELSE 0]
                      ELSE pending
        /\ trace' = trace \o [i \in 1..kept |->
             [type |-> batch[i].type, lane |-> batch[i].lane, n |-> batch[i].n, turn |-> turn + 1,
              causes |-> Causes(batch[i], start), tree |-> Nil, changed |-> {},
              asked |-> IF batch[i].type = "model.request" THEN x.asked ELSE Nil]]
        /\ snap' = IF whole THEN Attempt(1) ELSE snap
  /\ queue' = Tail(queue)
  /\ UNCHANGED <<agentVars, fsVars>>

-----------------------------------------------------------------------------
(* A snapshot: git reads one file after another, and may fail at any.      *)

\* git add -A.  A nested repository without a commit is left out, and noted when
\* the add is over.
AddAll(p) ==
  /\ p \in snap.todo \intersect Tracked
  /\ LET added == snap.todo \intersect Tracked = {p}
     IN /\ snap' = [snap EXCEPT !.todo = @ \ {p}, !.tree[p] = work[p],
                                !.fresh = IF added THEN ~noted ELSE @]
        /\ noted' = (noted \/ added)
  /\ UNCHANGED <<agentVars, queue, fs, told, dropped, deriverVars, trace, trouble>>

\* Then git add -f of the declared paths.
AddForced(p) ==
  /\ p \in snap.todo /\ snap.todo \subseteq Forced
  /\ snap' = [snap EXCEPT !.todo = @ \ {p}, !.tree[p] = work[p]]
  /\ UNCHANGED <<agentVars, queue, fsVars, deriverVars, trace, trouble>>

Transient(why) == why \in {"short read", "index.lock"}

\* Fault: what was read of a snapshot that failed stands for the last one.
AfterFailurePartial == snap.tree
\* snapshotTurn throws before it keeps the tree.
AfterFailure == fs

\* A race with the agent is tried again, anything else is not: a note, no checkpoint.
GitFails(why) ==
  /\ snap # NoSnap /\ trouble < MaxTrouble
  /\ trouble' = trouble + 1
  /\ snap' = IF Transient(why) /\ snap.attempt < Attempts
             THEN Attempt(snap.attempt + 1) ELSE NoSnap
  /\ fs' = AfterFailure
  /\ UNCHANGED <<agentVars, queue, noted, told, dropped, deriverVars, trace>>

\* The first snapshot has nothing to differ from.
Diff(from, to) == IF from = Nil THEN {} ELSE {p \in Files : from[p] # to[p]}

\* snapshotTurn returns: the tree, and what changed against the last one.  The
\* warning comes first, then the event.
SnapshotTaken(kept) ==
  /\ snap # NoSnap /\ snap.todo = {}
  /\ kept \/ trouble < MaxTrouble
  /\ trouble' = IF kept THEN trouble ELSE trouble + 1
  /\ dropped' = (dropped \/ ~kept)
  /\ fs' = snap.tree
  /\ told' = (told \/ snap.fresh)
  /\ trace' = IF ~kept THEN trace ELSE Append(trace,
       [type |-> "fs.snapshot", lane |-> Nil, n |-> 0, turn |-> turn, causes |-> {},
        tree |-> snap.tree, changed |-> Diff(fs, snap.tree), asked |-> Nil])
  /\ snap' = NoSnap
  /\ UNCHANGED <<agentVars, queue, noted, deriverVars>>

-----------------------------------------------------------------------------
CheckNext ==
  \/ \E p \in Files : Edit(p) \/ AddAll(p) \/ AddForced(p)
  \/ \E l \in Lanes : Ask(l) \/ \E ok \in BOOLEAN : Answered(l, ok)
  \/ \E kept \in 0..(Depth + 2) : Persist(kept)
  \/ \E why \in {"short read", "not a repository"} : GitFails(why)
  \/ \E kept \in BOOLEAN : SnapshotTaken(kept)

CheckSpec == CheckInit /\ [][CheckNext]_checkVars

-----------------------------------------------------------------------------
(* What is derived from a trace. *)

OfType(type) == SelectSeq([i \in DOMAIN trace |-> i], LAMBDA i : trace[i].type = type)

\* Requests and responses are paired in order; Len(trace) + 1 when all are.
FirstUnanswered ==
  LET asks == OfType("model.request")
      answers == OfType("model.response")
      open == {i \in DOMAIN asks : i > Len(answers) \/ answers[i] <= asks[i]}
  IN IF open = {} THEN Len(trace) + 1
     ELSE asks[CHOOSE i \in open : \A j \in open : i <= j]

\* The last snapshot up to an event; 0 before the first.
SnapshotAt(i) ==
  LET S == {j \in 1..i : trace[j].type = "fs.snapshot"}
  IN IF S = {} THEN 0 ELSE CHOOSE j \in S : \A k \in S : k <= j

\* Fault: any earlier snapshot vouches for an event.
CheckpointsOfAnyTurn ==
  {i \in DOMAIN trace : i <= FirstUnanswered /\ SnapshotAt(i) # 0}
\* deriveCheckpoints: a snapshot vouches for the rest of its own turn.
CheckpointSeqs ==
  {i \in DOMAIN trace : /\ i <= FirstUnanswered /\ SnapshotAt(i) # 0
                        /\ trace[SnapshotAt(i)].turn = trace[i].turn}
TreeAt(i) == trace[SnapshotAt(i)].tree

\* snapToCheckpoint: never rounds forward; 0 when it refuses.
SnapTo(cps, target) ==
  LET S == {i \in cps : i <= target}
  IN IF S = {} THEN 0 ELSE CHOOSE i \in S : \A j \in S : j <= i

\* replayWorkspace: the first checkpoint with a tree.
ReplayStart ==
  IF CheckpointSeqs = {} THEN Nil
  ELSE TreeAt(CHOOSE i \in CheckpointSeqs : \A j \in CheckpointSeqs : i <= j)

-----------------------------------------------------------------------------
(* Properties. *)

\* The variables hold what the recorder's fields hold.
CheckTypeOK ==
  /\ work \in Work
  /\ lane \in [Lanes -> [n : 1..(Depth + 1), phase : {"thinking", "asked"}, asked : Work]]
  /\ snap \in [attempt : 0..Attempts, todo : SUBSET Files, tree : Work, fresh : BOOLEAN]
  /\ fs \in Work \union {Nil} /\ noted \in BOOLEAN /\ told \in BOOLEAN /\ dropped \in BOOLEAN
  /\ pending \in [Tool -> Nat] /\ closed \subseteq Tool
  /\ edits \in 0..MaxEdits /\ trouble \in 0..MaxTrouble

Where(type, id) == {i \in DOMAIN trace : trace[i].type = type /\ IdOf(trace[i]) = id}

\* Every edge of the trace names the event it came from: a result its call, a
\* response and the calls in it their own exchange, a request the results it
\* carried first.  However conversations interleave, are retried or lose events,
\* and though each request resends the whole of its own, a result is in the trace
\* once (exchange-events.ts, derive and appendDerivedEvents).
CausesAreTrue ==
  \A i \in DOMAIN trace :
    LET e == trace[i]
        earlier(type, id) == {j \in Where(type, id) : j < i}
    IN /\ e.type = "tool.result" =>
            e.causes = earlier("tool.call", IdOf(e)) /\ earlier("tool.result", IdOf(e)) = {}
       /\ e.type = "model.response" =>
            /\ Cardinality(e.causes) = 1
            /\ \A j \in e.causes : j \in earlier("model.request", IdOf(e)) /\ trace[j].turn = e.turn
       /\ e.type = "model.request" =>
            e.causes = {j \in 1..(i - 1) : /\ trace[j].type = "tool.result"
                                           /\ trace[j].turn = e.turn}
       /\ e.type = "tool.call" =>
            e.causes # {} /\ e.causes \subseteq earlier("model.response", IdOf(e))

\* Where a fork of any seq starts is at least as far as the conversation it resumes: the tree
\* of a checkpoint holds every edit made before the request of any exchange up to
\* it was sent.  A snapshot that failed leaves no checkpoint, never an older tree
\* (graph.ts, deriveCheckpoints; snapshot.ts).
NeverBehind ==
  LET cps == CheckpointSeqs IN
  \A i \in {SnapTo(cps, target) : target \in DOMAIN trace} \ {0} :
    \A j \in 1..i : trace[j].type = "model.request" =>
      \A p \in Files : TreeAt(i)[p] >= trace[j].asked[p]

\* The changes named after a snapshot are what it differs in from the snapshot the
\* trace holds before it, over attempts retried and snapshots given up in between
\* (capture.ts, snapshotTurn), as long as every snapshot taken is in the trace.
ChangesAddUp ==
  ~dropped =>
  \A i \in DOMAIN trace : trace[i].type = "fs.snapshot" =>
    LET before == SnapshotAt(i - 1)
    IN trace[i].changed = IF before = 0 THEN {}
                          ELSE {p \in Files : TreeAt(i - 1)[p] # TreeAt(i)[p]}

\* What a trace says of where its events came from, what a fork will start from and
\* what each snapshot found is so.
TraceIsTrue == CausesAreTrue /\ NeverBehind /\ ChangesAddUp

\* What the restore puts in a replay's directory "is the recording's starting
\* state" (replay.ts, replayWorkspace).
StartsWhereItStarted == ReplayStart \in {Nil, Blank}

\* A snapshot that leaves out a nested repository is preceded by a warning that
\* says so, "once per path" (fs-events.ts, appendSnapshot).
OmissionsTold == (\E i \in DOMAIN trace : trace[i].type = "fs.snapshot") => told

\* "Every model.request before n has a matching model.response" (spec, 3).
CompletePrefix ==
  \A i \in CheckpointSeqs, j \in DOMAIN trace :
    j < i /\ trace[j].type = "model.request" =>
      \E k \in DOMAIN trace : trace[k].type = "model.response" /\ j \in trace[k].causes
=============================================================================
