------------------------------ MODULE Transports ------------------------------
(***************************************************************************)
(* The files through which other processes tell a recording what they did. *)
(*                                                                         *)
(* `orca record` mints two directories outside the run: one for the frames *)
(* of the shimmed shell commands (shell-shim's install.ts and runner.ts)   *)
(* and one for the spans of the agent framework (agent-spans.ts; the       *)
(* writers are python-langgraph's handler.py and python-openai-agents'     *)
(* processor.py).  Any process of the agent appends to them; the command   *)
(* reads them once the agent has exited, removes them, and turns what it   *)
(* read into events (record.ts).  A recording that was killed leaves its   *)
(* directories to the sweep with which the next one begins.                *)
(***************************************************************************)
EXTENDS Naturals, Sequences, FiniteSets
LOCAL INSTANCE FiniteSetsExt

CONSTANTS
  Runs,       \* `orca record` commands that share a temporary directory
  Home,       \* the one whose agent is followed
  Plans,      \* which transports each command is asked for
  Commands,   \* shell commands of its agent
  Nodes,      \* graph nodes of its agent
  MaxOpen,    \* handler.py's ceiling on nodes open at once
  Days,       \* bound: days that pass
  MaxFaults   \* bound: kills, writes that fail or tear, steps that throw

Kinds == {"shell", "spans"}
Transport == Runs \X Kinds

ASSUME TransportsAssumption ==
  Home \in Runs /\ Plans \subseteq [Runs -> SUBSET Kinds] /\ MaxOpen \in Nat /\ Days \in Nat /\ MaxFaults \in Nat

VARIABLES
  apart,    \* the commands are in different pid namespaces
  wants,    \* the transports each command was asked for: --no-shell, --no-agent-spans
  pc,       \* where each command is
  listed,   \* recordCommand's `transports`, which the heartbeat reads
  dir,      \* each transport directory
  failed,   \* the command is on its way out with an error
  told,     \* transports the operator was told of: not removed, or not installed
  cmd,      \* each shell command of Home's agent
  py,       \* the agent's framework: nodes, and what handler.py counted
  read,     \* what Home read from each of its transports
  drained,  \* the transports Home has read
  days, faults

transportVars == <<apart, wants, pc, listed, dir, failed, told, cmd, py, read, drained,
                   days, faults>>
agentVars == <<cmd, py>>
readVars == <<read, drained>>

Gone == [there |-> FALSE, owner |-> FALSE, file |-> << >>, idle |-> FALSE]
At(step, k) == [at |-> step, kind |-> k]

TransportsInit ==
  /\ apart \in BOOLEAN
  /\ wants \in Plans
  /\ pc = [r \in Runs |-> At("idle", "shell")]
  /\ listed = [r \in Runs |-> {}]
  /\ dir = [t \in Transport |-> Gone]
  /\ failed = [r \in Runs |-> FALSE]
  /\ told = {}
  /\ cmd = [c \in Commands |-> "idle"]
  /\ py = [phase |-> "idle", open |-> {}, begun |-> {}, dropped |-> 0, report |-> "none"]
  /\ read = [k \in Kinds |-> << >>] /\ drained = {}
  /\ days = 0 /\ faults = 0

Over(r) == pc[r].at \in {"ended", "killed"}
Alive(r) == pc[r].at # "idle" /\ ~Over(r)

Fault == faults < MaxFaults /\ faults' = faults + 1
Fine == faults' = faults

-----------------------------------------------------------------------------
(* A transport file: what each write left in it.  A write is one append; it *)
(* may come in two, and another process's write between them.              *)

Piece(rec, part) == [rec |-> rec, part |-> part]

Adds(t, piece) ==
  dir' = [dir EXCEPT ![t].file = Append(@, piece), ![t].idle = FALSE]

\* Fault: a line is a record or nothing.
RecoveredByLine(file) ==
  LET fresh(i) == i = 1 \/ file[i - 1].part \in {"all", "tail", "newline"}
      whole(i) ==
        /\ fresh(i)
        /\ \/ file[i].part = "all"
           \/ i < Len(file) /\ file[i + 1].rec = file[i].rec
      found == SelectSeq([i \in 1..Len(file) |-> i], whole)
  IN [j \in 1..Len(found) |-> file[found[j]].rec]

\* objectsOnLine, framesOnLine: a record is found wherever it opens, if it is whole from
\* there on.
Whole(file, i) ==
  \/ file[i].part \in {"all", "object"}
  \/ file[i].part = "head" /\ i < Len(file) /\ file[i + 1] = Piece(file[i].rec, "tail")

\* readShellFrames, readAgentSpans.
Recovered(file) ==
  LET found == SelectSeq([i \in 1..Len(file) |-> i], LAMBDA i : Whole(file, i))
  IN [j \in 1..Len(found) |-> file[found[j]].rec]

-----------------------------------------------------------------------------
(* The command: sweep, mint, launch.                                       *)

Order(k) == IF k = "shell" THEN 1 ELSE 2
\* The next transport after k that satisfies ok, or where to go without one.
Onward(ks, k, step, otherwise) ==
  LET later == {j \in ks : Order(j) > Order(k)}
  IN IF later = {} THEN otherwise ELSE At(step, CHOOSE j \in later : TRUE)
FirstOf(ks, step, otherwise) ==
  IF ks = {} THEN otherwise
  ELSE At(step, IF "shell" \in ks THEN "shell" ELSE "spans")

\* isRunning, asked of the pid in owner.pid.
IsRunning(o) == Alive(o) /\ ~apart

\* Fault: an owner that cannot be found is taken for dead.
StaleByPid(t) == dir[t].there /\ dir[t].owner /\ ~IsRunning(t[1])
\* sweepStaleTransports: whose it is, then how long it has been silent.
Stale(t) == dir[t].there /\ dir[t].owner /\ ~IsRunning(t[1]) /\ dir[t].idle

Sweep(r) ==
  /\ pc[r].at = "idle"
  /\ dir' = [t \in Transport |-> IF Stale(t) THEN Gone ELSE dir[t]]
  /\ pc' = [pc EXCEPT ![r] = FirstOf(wants[r], "mint", At("agent", "shell"))]
  /\ UNCHANGED <<apart, wants, listed, failed, told, agentVars, readVars, days, faults>>

\* mkdtemp.
Mint(r) ==
  LET k == pc[r].kind
  IN /\ pc[r].at = "mint"
     /\ dir' = [dir EXCEPT ![<<r, k>>] = [Gone EXCEPT !.there = TRUE]]
     /\ pc' = [pc EXCEPT ![r].at = "own"]
     /\ UNCHANGED <<apart, wants, listed, failed, told, agentVars, readVars, days, faults>>

\* The list is read on every beat, so that what is pushed later counts.
Lists(r, k) == listed' = [listed EXCEPT ![r] = @ \union {k}]

\* owner.pid is written and the directory returned to the caller, who lists it.
Own(r) ==
  LET k == pc[r].kind
  IN /\ pc[r].at = "own"
     /\ dir' = [dir EXCEPT ![<<r, k>>].owner = TRUE]
     /\ Lists(r, k)
     /\ pc' = [pc EXCEPT ![r] = Onward(wants[r], k, "mint", At("agent", "shell"))]
     /\ UNCHANGED <<apart, wants, failed, told, agentVars, readVars, days, faults>>

\* installShellShim throws, no runner being built: the recording goes on without.
NotInstalled(r) ==
  /\ pc[r] = At("own", "shell") /\ Fault
  /\ told' = told \union {<<r, "shell">>}
  /\ pc' = [pc EXCEPT ![r] = Onward(wants[r], "shell", "mint", At("agent", "shell"))]
  /\ UNCHANGED <<apart, wants, listed, dir, failed, agentVars, readVars, days>>

\* touchTransports: a day passes, in which every live command beat many times.
Day ==
  /\ days < Days /\ days' = days + 1
  /\ \A r \in Runs : pc[r].at \in {"idle", "agent", "ended", "killed"}
  /\ dir' = [t \in Transport |->
       IF dir[t].there /\ ~(Alive(t[1]) /\ t[2] \in listed[t[1]] /\ dir[t].owner)
       THEN [dir[t] EXCEPT !.idle = TRUE] ELSE dir[t]]
  /\ UNCHANGED <<apart, wants, pc, listed, failed, told, agentVars, readVars, faults>>

-----------------------------------------------------------------------------
(* A shell command of the agent: runShim, and the frame it records.        *)

ShellFile == <<Home, "shell">>
InTime(k, so, otherwise) == IF k \in drained THEN otherwise ELSE so

\* Bound: an agent runs shell commands or a framework, for the two files never meet.
StartCommand(c) ==
  /\ pc[Home].at = "agent" /\ "shell" \in listed[Home] /\ cmd[c] = "idle" /\ py.phase = "idle"
  /\ cmd' = [cmd EXCEPT ![c] = "running"]
  /\ UNCHANGED <<apart, wants, pc, listed, dir, failed, told, py, readVars, days, faults>>

\* appendFileSync; its failure is swallowed.
RecordFrame(c) ==
  /\ cmd[c] = "running"
  /\ IF dir[ShellFile].there
     THEN Adds(ShellFile, Piece(c, "all")) /\ cmd' = [cmd EXCEPT ![c] = InTime("shell", "done", "late")]
     ELSE cmd' = [cmd EXCEPT ![c] = "lost"] /\ UNCHANGED dir
  /\ UNCHANGED <<apart, wants, pc, listed, failed, told, py, readVars, days, faults>>

\* The write comes in two, torn inside the record or before its newline.
RecordHead(c, part) ==
  /\ cmd[c] = "running" /\ dir[ShellFile].there /\ Fault
  /\ Adds(ShellFile, Piece(c, part))
  /\ cmd' = [cmd EXCEPT ![c] = part]
  /\ UNCHANGED <<apart, wants, pc, listed, failed, told, py, readVars, days>>

RecordTail(c) ==
  /\ cmd[c] \in {"head", "object"}
  /\ IF dir[ShellFile].there
     THEN Adds(ShellFile, Piece(c, IF cmd[c] = "head" THEN "tail" ELSE "newline"))
     ELSE UNCHANGED dir
  /\ cmd' = [cmd EXCEPT ![c] = "torn"]
  /\ UNCHANGED <<apart, wants, pc, listed, failed, told, py, readVars, days, faults>>

-----------------------------------------------------------------------------
(* The agent's framework: handler.py.                                      *)

SpansFile == <<Home, "spans">>
IsUp == py.phase = "up"

PythonStarts ==
  /\ pc[Home].at = "agent" /\ "spans" \in listed[Home] /\ py.phase = "idle"
  /\ \A c \in Commands : cmd[c] = "idle"
  /\ py' = [py EXCEPT !.phase = "up"]
  /\ UNCHANGED <<apart, wants, pc, listed, dir, failed, told, cmd, readVars, days, faults>>

\* _Transport.write: the append, or a record counted as dropped.
Writes(rec, counts) ==
  \/ /\ dir[SpansFile].there
     /\ Adds(SpansFile, Piece(rec, "all")) /\ Fine
     /\ py' = counts
  \/ /\ IF dir[SpansFile].there THEN Fault ELSE Fine
     /\ py' = [counts EXCEPT !.dropped = @ + 1]
     /\ UNCHANGED dir

\* on_chain_start; opened() refuses a node over the ceiling, and nothing is written.
NodeStarts(n) ==
  /\ IsUp /\ n \notin py.begun
  /\ IF Cardinality(py.open) >= MaxOpen
     THEN /\ py' = [py EXCEPT !.begun = @ \union {n}, !.dropped = @ + 1]
          /\ UNCHANGED <<dir, faults>>
     ELSE Writes(<<"start", n>>, [py EXCEPT !.begun = @ \union {n}, !.open = @ \union {n}])
  /\ UNCHANGED <<apart, wants, pc, listed, failed, told, cmd, readVars, days>>

\* _close; closing() makes the end of a node be written once.
NodeEnds(n) ==
  /\ IsUp /\ n \in py.open
  /\ Writes(<<"end", n>>, [py EXCEPT !.open = @ \ {n}])
  /\ UNCHANGED <<apart, wants, pc, listed, failed, told, cmd, readVars, days>>

\* Fault: a node that never closed is not a loss.
LossesDropped == py.dropped
\* losses(): what was dropped, and the nodes that never closed.
Losses == py.dropped + Cardinality(py.open)

\* report_losses, at exit: one line, and only when something was lost.
PythonExits ==
  /\ IsUp
  /\ \/ Losses = 0 /\ py' = [py EXCEPT !.phase = InTime("spans", "exited", "left")] /\ UNCHANGED <<dir, faults>>
     \/ /\ Losses > 0 /\ dir[SpansFile].there /\ Fine
        /\ Adds(SpansFile, Piece(<<"dropped", Losses>>, "all"))
        /\ py' = [py EXCEPT !.phase = InTime("spans", "exited", "left")]
     \/ /\ Losses > 0 /\ IF dir[SpansFile].there THEN Fault ELSE Fine
        /\ py' = [py EXCEPT !.phase = InTime("spans", "exited", "left"), !.report = "failed"] /\ UNCHANGED dir
  /\ UNCHANGED <<apart, wants, pc, listed, failed, told, cmd, readVars, days>>

-----------------------------------------------------------------------------
(* The command again: the agent has exited.                                *)

Exits(r) ==
  /\ pc[r].at = "agent"
  /\ pc' = [pc EXCEPT ![r] = FirstOf(listed[r], "drain", At("ended", "shell"))]
  /\ UNCHANGED <<apart, wants, listed, dir, failed, told, agentVars, readVars, days, faults>>

\* readShellFrames, readAgentSpans.
Drain(r) ==
  LET k == pc[r].kind
  IN /\ pc[r].at = "drain"
     /\ read' = IF r = Home THEN [read EXCEPT ![k] = Recovered(dir[<<r, k>>].file)] ELSE read
     /\ drained' = IF r = Home THEN drained \union {k} ELSE drained
     /\ pc' = [pc EXCEPT ![r].at = "unlink"]
     /\ UNCHANGED <<apart, wants, listed, dir, failed, told, agentVars, days, faults>>

\* discardShellFrames, discardAgentSpanTransport: the entries, then the directory.
Unlink(r) ==
  LET k == pc[r].kind
  IN /\ pc[r].at = "unlink"
     /\ dir' = [dir EXCEPT ![<<r, k>>].owner = FALSE, ![<<r, k>>].file = << >>]
     /\ pc' = [pc EXCEPT ![r].at = "rmdir"]
     /\ UNCHANGED <<apart, wants, listed, failed, told, agentVars, readVars, days, faults>>

\* A late writer has made the file again: the directory is not empty.
Rmdir(r) ==
  LET k == pc[r].kind
      refused == dir[<<r, k>>].file # << >>
  IN /\ pc[r].at = "rmdir"
     /\ dir' = IF refused THEN dir ELSE [dir EXCEPT ![<<r, k>>] = Gone]
     /\ told' = IF refused /\ ~failed[r] THEN told \union {<<r, k>>} ELSE told
     /\ pc' = [pc EXCEPT ![r] =
          IF failed[r] THEN Onward(listed[r], k, "unlink", At("ended", k)) ELSE At("append", k)]
     /\ UNCHANGED <<apart, wants, listed, failed, agentVars, readVars, days, faults>>

\* shell.exec with its shell.result, or the events of the spans.
AppendEvents(r) ==
  LET k == pc[r].kind
  IN /\ pc[r].at = "append"
     /\ pc' = [pc EXCEPT ![r] = Onward(listed[r], k, "drain", At("ended", k))]
     /\ UNCHANGED <<apart, wants, listed, dir, failed, told, agentVars, readVars, days, faults>>

\* Fault: only a recording that got as far as its drain cleans up.
CleansUpNothing(r) == At("ended", "shell")
\* recordCommand's catch.
CleansUp(r) == FirstOf(listed[r], "unlink", At("ended", "shell"))

Throws(r) ==
  /\ pc[r].at \in {"agent", "append"} /\ Fault
  /\ failed' = [failed EXCEPT ![r] = TRUE]
  /\ pc' = [pc EXCEPT ![r] = CleansUp(r)]
  /\ UNCHANGED <<apart, wants, listed, dir, told, agentVars, readVars, days>>

\* The command is killed; its agent need not be.
Kill(r) ==
  /\ Alive(r) /\ Fault
  /\ pc' = [pc EXCEPT ![r].at = "killed"]
  /\ UNCHANGED <<apart, wants, listed, dir, failed, told, agentVars, readVars, days>>

-----------------------------------------------------------------------------

CommandSteps ==
  \E r \in Runs :
    \/ Sweep(r) \/ Mint(r) \/ Own(r) \/ NotInstalled(r)
    \/ Exits(r) \/ Drain(r) \/ Unlink(r) \/ Rmdir(r) \/ AppendEvents(r)
    \/ Throws(r) \/ Kill(r)
AgentSteps ==
  \/ \E c \in Commands : \/ StartCommand(c) \/ RecordFrame(c) \/ RecordTail(c)
                         \/ \E part \in {"head", "object"} : RecordHead(c, part)
  \/ \E n \in Nodes : NodeStarts(n) \/ NodeEnds(n)
  \/ PythonStarts \/ PythonExits

TransportsNext == Day \/ CommandSteps \/ AgentSteps
TransportsSpec == TransportsInit /\ [][TransportsNext]_transportVars

-----------------------------------------------------------------------------
(* What the transports promise.                                            *)

ReadAs(k, rec) == Cardinality({i \in 1..Len(read[k]) : read[k][i] = rec})

\* A frame that one write left in the file before the drain is read exactly once, and no
\* command is read that did not run or twice.
FramesReadOnce ==
  "shell" \in drained =>
    \A c \in Commands :
      /\ cmd[c] = "done" => ReadAs("shell", c) = 1
      /\ cmd[c] \in {"idle", "running", "lost"} => ReadAs("shell", c) = 0
      /\ ReadAs("shell", c) <= 1

\* agentSpanLosses, and its warning.
Warned ==
  MapThenSumSet(LAMBDA i : IF read["spans"][i][1] = "dropped" THEN read["spans"][i][2] ELSE 0,
                1..Len(read["spans"]))
Half(n) == ReadAs("spans", <<"start", n>>) = 0 \/ ReadAs("spans", <<"end", n>>) = 0

\* When the framework left a word at its exit, the operator is warned of lost spans
\* exactly when the trace lacks one end of a node, and of as many at least.
LossesTold ==
  "spans" \in drained /\ py.phase = "exited" /\ py.report # "failed" =>
    LET missing == {n \in py.begun : Half(n)}
    IN (Warned = 0 <=> missing = {}) /\ Warned >= Cardinality(missing)

\* What several processes of the agent wrote is in the trace once, whatever was torn
\* beside it, and what is missing was told (framesOnLine, readShellFrames; opened,
\* closing, losses and report_losses; agent_spans.dropped).
FramesAccounted == FramesReadOnce /\ LossesTold

\* While a recording lives and has not removed it, nobody else takes its transport: not
\* in another pid namespace, not after days of silence.
LiveTransportsStay ==
  \A r \in Runs : \A k \in listed[r] :
    /\ Alive(r) /\ ~failed[r]
    /\ \/ pc[r].at \in {"mint", "own", "agent"}
       \/ Order(k) > Order(pc[r].kind)
       \/ k = pc[r].kind /\ pc[r].at \in {"drain", "unlink"}
    => dir[<<r, k>>].there /\ dir[<<r, k>>].owner

\* A recording that came to its end, well or not, leaves no transport behind, or the
\* operator was told, or it ended on an error while a process of the agent wrote on.
NoneLeft ==
  \A t \in Transport : pc[t[1]].at = "ended" =>
    ~dir[t].there \/ t \in told \/ (failed[t[1]] /\ dir[t].file # << >>)

\* A transport is there as long as its recording needs it and no longer, beside other
\* recordings that sweep (touchTransports, sweepStaleTransports, recordCommand,
\* discardShellFrames, discardAgentSpanTransport).
TransportsComeAndGo == LiveTransportsStay /\ NoneLeft
=============================================================================
