----------------------------- MODULE RunSession -----------------------------
(***************************************************************************)
(* A run from its first event to its seal, in the four commands that own   *)
(* one: `orca record`, a fork, an exact replay and `orca attach`           *)
(* (runRecording in packages/cli/src/commands/record.ts, replayFork and    *)
(* replayExact in replay.ts, runAttached in attach.ts), over the queue of  *)
(* trace writes (serial.ts).                                               *)
(*                                                                         *)
(* The command, the proxy's handlers and the queue take turns at every     *)
(* await.  The trace is the order its events are accepted in, as TraceLog  *)
(* promises; an append fails on a full disk or an event the schema refuses.*)
(***************************************************************************)
EXTENDS Integers, Sequences, FiniteSets

CONSTANTS
  Exchanges,  \* the exchanges an agent may make
  PerTask,    \* bound: events one exchange is written as
  MaxFaults   \* bound: appends that fail

Commands == {"record", "fork", "replay", "attach"}

ASSUME SessionAssumption ==
  /\ PerTask \in Nat \ {0} /\ MaxFaults \in Nat
  /\ Exchanges \intersect {"run.start", "frames", "run.end"} = {}

VARIABLES
  command,    \* which of the four this is
  main,       \* "working", "abandoning" after a throw, "returned" or "threw"
  at,         \* the step of its plan the command is at
  proxy,      \* "listening", "closing" or "closed"
  handler,    \* of each exchange: "none", "open", "left" by its client, "ended"
  gone,       \* the exchanges whose client left before they ended
  queue,      \* SerialQueue: tasks pushed, the running one first
  errors,     \* SerialQueue.#errors is not empty
  trace,      \* the events accepted by the writer
  sealed,     \* writer.close() is through
  key,        \* the run's certificate authority is on disk
  faults      \* appends that failed so far

mainVars == <<main, at>>
proxyVars == <<proxy, handler, gone>>
queueVars == <<queue, errors>>
writerVars == <<trace, sealed, faults>>
sessionVars == <<command, mainVars, proxyVars, queueVars, writerVars, key>>

-----------------------------------------------------------------------------
(* What a command awaits, in order.  "run" is prepare() and the child, or  *)
(* the operator's interrupt; "frames" what it appends itself: shells,      *)
(* spans, MCP, the transcript, the note of an interception.                *)

RecordPlan ==
  <<"run.start", "run", "drain", "frames", "close proxy", "drain", "dispose", "frames",
    "run.end", "seal">>
ForkPlan ==
  <<"run.start", "run", "drain", "frames", "run.end", "seal", "close proxy", "dispose">>
ReplayPlan ==
  <<"run.start", "run", "drain", "close proxy", "frames", "run.end", "seal", "dispose">>

\* The session opens before it listens, and ends when the operator says so.
AttachPlan ==
  <<"run.start", "listen", "frames", "run", "drain", "close proxy", "dispose",
    "run.end", "seal">>

\* Fault: the fork's order, in all four.
PlansSealingFirst == [c \in Commands |-> ForkPlan]
Plans ==
  [record |-> RecordPlan, fork |-> ForkPlan, replay |-> ReplayPlan, attach |-> AttachPlan]

\* A replay disposes of its key in the finally around its abandon().
RecordAbandon == <<"close proxy", "drain", "dispose", "run.end", "seal">>
ReplayAbandon == <<"close proxy", "drain", "run.end", "seal", "dispose">>
\* The finally around an attached session, which the throw then leaves.
AttachFinally == <<"drain", "close proxy", "dispose">>
AbandonPlans ==
  [record |-> RecordAbandon, fork |-> RecordAbandon, replay |-> ReplayAbandon,
   attach |-> AttachFinally]

Plan == IF main = "abandoning" THEN AbandonPlans[command] ELSE Plans[command]

Over == main \in {"returned", "threw"}
Doing(step) == ~ Over /\ Plan[at] = step

Advance ==
  IF at < Len(Plan)
    THEN at' = at + 1 /\ UNCHANGED main
    ELSE main' = (IF main = "abandoning" THEN "threw" ELSE "returned") /\ UNCHANGED at

\* Fault: the failure of prepare() or of the spawn is not caught.
GuardedInReplay == command = "replay"

\* A replay comes back through abandon() from anywhere, the others only up to
\* the child's exit; an attached session through its finally, once listening.
Guarded ==
  \/ command = "replay"
  \/ Doing("run")
  \/ command = "attach" /\ Doing("frames")

\* Fault: abandon() is entered again for a failure of its own.
ThrowAgain ==
  IF Guarded THEN main' = "abandoning" /\ at' = 1 /\ UNCHANGED key
  ELSE main' = "threw" /\ key' = (key /\ command = "fork") /\ UNCHANGED at

\* What fails in abandon() is ignored, what fails in a finally replaces the first
\* error; an unguarded throw of `record` or `attach` still passes the wrapper that
\* disposes of the key, one of a fork does not.
Throw ==
  IF main = "abandoning" /\ command # "attach" THEN Advance /\ UNCHANGED key
  ELSE IF Guarded THEN main' = "abandoning" /\ at' = 1 /\ UNCHANGED key
  ELSE main' = "threw" /\ key' = (key /\ command = "fork") /\ UNCHANGED at

-----------------------------------------------------------------------------
(* The writer. *)

MayFail == faults < MaxFaults
Accept(event) == trace' = Append(trace, event) /\ UNCHANGED <<sealed, faults>>
Fault == MayFail /\ faults' = faults + 1 /\ UNCHANGED <<trace, sealed>>

\* append() refuses a second run.end, one without a run.start, and anything
\* after close().
Has(event) == \E i \in 1..Len(trace) : trace[i] = event
Refuses(event) ==
  sealed \/ (event = "run.end" /\ (Has("run.end") \/ ~ Has("run.start")))

-----------------------------------------------------------------------------
(* The command. *)

\* One append of its own.
Writes(step) ==
  /\ Doing(step)
  /\ \/ ~ Refuses(step) /\ Accept(step) /\ Advance /\ UNCHANGED key
     \/ Fault /\ Throw
     \/ Refuses(step) /\ Throw /\ UNCHANGED writerVars
  /\ UNCHANGED <<command, proxyVars, queueVars>>

\* createProxy() of an attached session, which may find its port taken.
Listen ==
  /\ Doing("listen")
  /\ \/ proxy' = "listening" /\ Advance /\ UNCHANGED key
     \/ Throw /\ UNCHANGED proxy
  /\ UNCHANGED <<command, handler, gone, queueVars, writerVars>>

\* runChild() resolves when the child is gone, or prepare() or the spawn fails.
Run ==
  /\ Doing("run")
  /\ \/ Advance /\ UNCHANGED key
     \/ Throw
  /\ UNCHANGED <<command, proxyVars, queueVars, writerVars>>

\* Fault: the queue is not waited for.
DrainAtOnce ==
  /\ Doing("drain")
  /\ IF errors THEN Throw ELSE Advance /\ UNCHANGED key
  /\ UNCHANGED <<command, proxyVars, queueVars, writerVars>>

\* drain() throws what any task of the run threw, once the queue is empty.
Drain ==
  /\ Doing("drain") /\ queue = << >>
  /\ IF errors THEN Throw ELSE Advance /\ UNCHANGED key
  /\ UNCHANGED <<command, proxyVars, queueVars, writerVars>>

\* server.close() takes no new request and waits for the open connections.
CloseProxy ==
  /\ Doing("close proxy") /\ proxy = "listening"
  /\ proxy' = "closing"
  /\ UNCHANGED <<command, mainVars, handler, gone, queueVars, writerVars, key>>

ProxyCloses ==
  /\ Doing("close proxy") /\ proxy # "listening"
  /\ \A x \in Exchanges : handler[x] # "open"
  /\ proxy' = "closed"
  /\ Advance
  /\ UNCHANGED <<command, handler, gone, queueVars, writerVars, key>>

Dispose ==
  /\ Doing("dispose")
  /\ key' = FALSE /\ Advance
  /\ UNCHANGED <<command, proxyVars, queueVars, writerVars>>

\* writer.close(), which also may fail.
Seal ==
  /\ Doing("seal")
  /\ \/ sealed' = TRUE /\ Advance /\ UNCHANGED <<trace, faults, key>>
     \/ Fault /\ Throw
  /\ UNCHANGED <<command, proxyVars, queueVars>>

-----------------------------------------------------------------------------
(* The proxy, as the command sees it: an exchange ends with a callback     *)
(* that pushes its write.  What an agent leaves running may call, or go    *)
(* away, at any time after the child has started.                          *)

Call(x) ==
  /\ proxy = "listening" /\ handler[x] = "none" /\ Has("run.start")
  /\ handler' = [handler EXCEPT ![x] = "open"]
  /\ UNCHANGED <<command, mainVars, proxy, gone, queueVars, writerVars, key>>

Leave(x) ==
  /\ handler[x] = "open"
  /\ handler' = [handler EXCEPT ![x] = "left"]
  /\ gone' = gone \union {x}
  /\ UNCHANGED <<command, mainVars, proxy, queueVars, writerVars, key>>

\* A replay writes down only a divergence or an unmatched request, one event.
Push(x) ==
  queue' = Append(queue, [exchange |-> x, left |-> IF command = "replay" THEN 1 ELSE PerTask])

Ends(x) ==
  /\ handler[x] \in {"open", "left"}
  /\ handler' = [handler EXCEPT ![x] = "ended"]
  /\ Push(x) \/ (command = "replay" /\ UNCHANGED queue)
  /\ UNCHANGED <<command, mainVars, proxy, gone, errors, writerVars, key>>

-----------------------------------------------------------------------------
(* The queue: one task at a time, each a few appends.  The first that      *)
(* fails ends its task, whose error is kept for drain().                   *)

TaskAppends ==
  /\ queue # << >>
  /\ LET task == Head(queue) IN
       /\ ~ Refuses(task.exchange) /\ Accept(task.exchange)
       /\ queue' = IF task.left = 1 THEN Tail(queue)
                   ELSE <<[task EXCEPT !.left = @ - 1]>> \o Tail(queue)
  /\ UNCHANGED <<command, mainVars, proxyVars, errors, key>>

TaskFails ==
  /\ queue # << >>
  /\ Fault \/ (Refuses(Head(queue).exchange) /\ UNCHANGED writerVars)
  /\ queue' = Tail(queue) /\ errors' = TRUE
  /\ UNCHANGED <<command, mainVars, proxyVars, key>>

-----------------------------------------------------------------------------
SessionInit ==
  /\ command \in Commands
  /\ main = "working" /\ at = 1
  /\ proxy = (IF command = "attach" THEN "closed" ELSE "listening")
  /\ handler = [x \in Exchanges |-> "none"] /\ gone = {}
  /\ queue = << >> /\ errors = FALSE
  /\ trace = << >> /\ sealed = FALSE /\ faults = 0
  /\ key = TRUE

Command ==
  \/ \E step \in {"run.start", "frames", "run.end"} : Writes(step)
  \/ Listen \/ Run \/ Drain \/ CloseProxy \/ ProxyCloses \/ Dispose \/ Seal
Task == TaskAppends \/ TaskFails

SessionNext ==
  \/ Command \/ Task
  \/ \E x \in Exchanges : Call(x) \/ Leave(x) \/ Ends(x)

SessionSpec == SessionInit /\ [][SessionNext]_sessionVars

\* The child exits, appends settle, and an exchange ends: its client may be
\* slow but its answer is finite.
SessionFairness ==
  /\ WF_sessionVars(Command) /\ WF_sessionVars(Task)
  /\ \A x \in Exchanges : WF_sessionVars(Ends(x))
FairSessionSpec == SessionSpec /\ SessionFairness

-----------------------------------------------------------------------------
(* Properties. *)

SessionTypeOK ==
  /\ command \in Commands
  /\ main \in {"working", "abandoning", "returned", "threw"} /\ at \in 1..Len(Plan)
  /\ proxy \in {"listening", "closing", "closed"}
  /\ handler \in [Exchanges -> {"none", "open", "left", "ended"}]
  /\ gone \subseteq Exchanges
  /\ queue \in Seq([exchange : Exchanges, left : 1..PerTask])
  /\ errors \in BOOLEAN
  /\ trace \in Seq({"run.start", "frames", "run.end"} \union Exchanges)
  /\ sealed \in BOOLEAN /\ key \in BOOLEAN
  /\ faults \in 0..MaxFaults

EventsOf(x) == Cardinality({i \in 1..Len(trace) : trace[i] = x})
Queued(x) == \E i \in 1..Len(queue) : queue[i].exchange = x
Lost == {x \in Exchanges \ gone :
           handler[x] = "ended" /\ ~ Queued(x) /\ EventsOf(x) < PerTask}

Behind(event) == {trace[j] : j \in {j \in 1..Len(trace) :
                                     \E i \in 1..(j - 1) : trace[i] = event}}

(***************************************************************************)
(* A recording holds every exchange whose client heard it out: when the    *)
(* command returns none is missing or in part, and whatever else happens   *)
(* "one bad write costs one event, not the rest of the run" (serial.ts):   *)
(* a failed append loses at most the exchange it was part of.  Its bracket *)
(* closes it: nothing is written behind run.end, other than an exchange    *)
(* whose client went away, for which server.close() does not wait.         *)
(***************************************************************************)
RecordedInFull ==
  command = "record" =>
    /\ Cardinality(Lost) <= faults
    /\ main = "returned" => Lost = {} /\ \A x \in Exchanges : handler[x] # "open"
    /\ Behind("run.end") \subseteq gone

(***************************************************************************)
(* What a command leaves when it ends: nothing, if it returns or if no     *)
(* append failed, other than the unsealed run of an attached session that  *)
(* threw; a replay leaves no listening socket whatever fails ("the         *)
(* likeliest failure of all, the agent is not installed", goes through     *)
(* abandon()), and only a fork ever a private key.                         *)
(***************************************************************************)
LeavesNothingBehind ==
  Over =>
    /\ faults = 0 \/ main = "returned" => proxy = "closed" /\ ~ key
    /\ main = "returned" \/ (faults = 0 /\ command # "attach") => sealed
    /\ command = "replay" => proxy = "closed"
    /\ command # "fork" => ~ key

(***************************************************************************)
(* A failed write stalls neither the queue nor the command: every command  *)
(* ends (SerialQueue.push catches; drain() waits for the tail).            *)
(***************************************************************************)
EveryCommandEnds == <> Over

-----------------------------------------------------------------------------
(* What the comments say and the code does not do. *)

\* "One bad write should cost one event, not the rest of the run" (serial.ts), and
\* "a listening proxy keeps Node's event loop alive" (record.ts, of abandon()).
OneBadWriteCostsOneEvent == Over /\ errors => sealed /\ proxy = "closed"

\* "The recording that comes out is not a lesser one" (attach.ts): an exchange its
\* client heard out is in the trace of a session that returned.
NotALesserRecording ==
  command = "attach" /\ main = "returned" /\ faults = 0 /\ queue = << >> => Lost = {}
=============================================================================
