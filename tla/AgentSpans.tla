------------------------------ MODULE AgentSpans ------------------------------
(***************************************************************************)
(* How the agent frameworks of Python report their own structure.          *)
(*                                                                         *)
(* `orca record` writes a sitecustomize.py that every Python process of    *)
(* the agent imports at its start (SITECUSTOMIZE_SOURCE in agent-spans.ts, *)
(* generated from PYTHON_ADAPTERS).  It attaches the adapters that are     *)
(* installed: python-openai-agents' processor.py at once, python-          *)
(* langgraph's hook.py and handler.py when langgraph is first imported.    *)
(* For those that are not it waits on sys.meta_path for their framework.   *)
(* All of them append to one file; the command reads it, warns of what is  *)
(* missing and makes events of the rest (agent-spans.ts, record.ts).       *)
(*                                                                         *)
(* What a torn append leaves, and who removes the file, is in Transports.  *)
(***************************************************************************)
EXTENDS Naturals, Sequences, FiniteSets
LOCAL INSTANCE FiniteSetsExt

CONSTANTS
  Pythons,     \* Python processes of the recorded agent
  Machines,    \* what may be installed where it runs
  Doings,      \* what the agent's frameworks may do in one process
  MaxMishaps   \* bound: appends that fail, processes that are killed

Frameworks == {"agents", "langgraph"}

\* adapter: its package is missing, here, or here and its install() raises;
\* dist: frameworks a distribution provides; named: import roots that load,
\* some of them modules of the agent that only share the name.
ASSUME SpansAssumption ==
  /\ Machines \subseteq [adapter : [Frameworks -> {"missing", "here", "broken"}],
                         dist : SUBSET Frameworks, named : SUBSET Frameworks]
  /\ \A m \in Machines : m.dist \subseteq m.named
  /\ MaxMishaps \in Nat

VARIABLES
  machine,   \* what is installed
  proc,      \* each process: its import machinery and its adapters
  doing,     \* each thing a framework does: not begun, open, over
  spans,     \* the records in the file; their order decides nothing here
  trace,     \* those that became events
  warned,    \* what the operator was told, once the file was read
  asked,     \* history: frameworks each process imported, none of them earlier
  owed,      \* history: records each process handed to an adapter
  quiet,     \* history: no report about a loss was itself lost
  mishaps

spansVars == <<machine, proc, doing, spans, trace, warned, asked, owed, quiet, mishaps>>

\* nth tells two reports of one process apart.
Record(kind, p, what, n) ==
  [kind |-> kind, from |-> p, what |-> what, n |-> n,
   nth |-> Cardinality({r \in spans : kind = "dropped" /\ r.kind = kind /\ r.from = p})]
NotYet == [package |-> {}, dropped |-> 0, by |-> {}, traffic |-> FALSE, over |-> FALSE]
Drained == warned.over

Ordinary == <<"builtin", "path">>     \* the finders of the interpreter

SpansInit ==
  /\ machine \in Machines
  /\ proc = [p \in Pythons |->
       [phase |-> "idle", finders |-> Ordinary, watched |-> {}, loaded |-> {}, asking |-> << >>,
        hooked |-> {}, open |-> {}, dropped |-> [f \in Frameworks |-> 0], leaving |-> {}]]
  /\ doing = [p \in Pythons |-> [d \in Doings |-> "no"]]
  /\ spans = {} /\ trace = {} /\ warned = NotYet
  /\ asked = [p \in Pythons |-> {}]
  /\ owed = [p \in Pythons |-> 0]
  /\ quiet = TRUE /\ mishaps = 0

Here(f) == machine.adapter[f] = "here"
Missing(f) == machine.adapter[f] = "missing"

NoMishap == mishaps' = mishaps
Mishap == mishaps < MaxMishaps /\ mishaps' = mishaps + 1

\* An append, or the exception that one of these writers catches.
Appended(rec) == spans' = spans \union {rec} /\ NoMishap
Refused == spans' = spans /\ Mishap

AloneUntilRead == ~Drained /\ UNCHANGED <<machine, trace, warned>>

-----------------------------------------------------------------------------
(* The start of an interpreter.                                            *)

\* Fault: the finder goes where the import machinery is asked last.
ArmedLast(finders) == Append(finders, "lazy")
\* hook.py's install(): in front of every other finder.
Armed(finders) == <<"lazy">> \o finders

Absent == {f \in Frameworks : Missing(f)}
Watched(finders) == IF Absent = {} THEN finders ELSE <<"watcher">> \o finders

\* _chain, which may run a displaced hook that loads frameworks, and _install.
\* processor.py's install() imports the SDK; hook.py's waits for langgraph,
\* unless it is loaded.
\* Bound: the processes of the agent run one after the other.
Starts(p, chained) ==
  LET sdk == Here("agents") /\ "agents" \in machine.dist
      eager == Here("langgraph") /\ "langgraph" \in chained
      armed == IF Here("langgraph") /\ ~eager THEN Armed(Ordinary) ELSE Ordinary
  IN /\ proc[p].phase = "idle"
     /\ \A q \in Pythons : proc[q].phase \in {"idle", "gone", "killed"}
     /\ chained \subseteq machine.dist
     /\ proc' = [proc EXCEPT
          ![p].phase = "up",
          ![p].loaded = chained \union IF sdk THEN {"agents"} ELSE {},
          ![p].hooked = (IF sdk THEN {"agents"} ELSE {}) \union (IF eager THEN {"langgraph"} ELSE {}),
          ![p].watched = Absent,
          ![p].finders = Watched(armed)]
     /\ asked' = [asked EXCEPT ![p] = chained \ Absent]
     /\ AloneUntilRead /\ UNCHANGED <<doing, spans, owed, quiet, mishaps>>

-----------------------------------------------------------------------------
(* An import.  The interpreter walks sys.meta_path by position while the    *)
(* finders it asks take themselves off it.                                 *)

Busy(p) == proc[p].phase = "up" /\ proc[p].asking # << >>
Free(p) == proc[p].phase = "up" /\ proc[p].asking = << >>

Imports(p, f) ==
  /\ Free(p) /\ f \in machine.named \ asked[p]
  /\ \/ f \notin proc[p].loaded /\ proc' = [proc EXCEPT ![p].asking = <<f, 1>>]
     \/ f \in proc[p].loaded \ Absent /\ UNCHANGED proc
  /\ asked' = [asked EXCEPT ![p] = @ \union {f}]
  /\ AloneUntilRead /\ UNCHANGED <<doing, spans, owed, quiet, mishaps>>

Reaches(p, finder) == Busy(p) /\ proc[p].finders[proc[p].asking[2]] = finder
Onto(p) == [proc EXCEPT ![p].asking[2] = @ + 1]
Off(p, finder) == SelectSeq(proc[p].finders, LAMBDA x : x # finder)

\* Fault: the watcher is done when it has seen one framework.
OffAfterOne(p, left) == Off(p, "watcher")
\* _WhenImported takes itself off when nothing is left to watch for.
OffWhenDone(p, left) == IF left = {} THEN Off(p, "watcher") ELSE proc[p].finders

\* Fault: whatever has the name is taken for the framework.
Provided(f) == f \in machine.named
\* _unavailable: the distribution, not the name.
Provides(f) == f \in machine.dist

\* _WhenImported.find_spec: each missing adapter is spoken of once.
AsksWatcher(p) ==
  LET f == proc[p].asking[1]
      left == proc[p].watched \ {f}
      found == f \in proc[p].watched
  IN /\ Reaches(p, "watcher")
     /\ proc' = [Onto(p) EXCEPT ![p].watched = left, ![p].finders = OffWhenDone(p, left)]
     /\ IF found /\ Provides(f)
        THEN \/ Appended(Record("unavailable", p, f, 0)) /\ UNCHANGED quiet
             \/ Refused /\ quiet' = FALSE
        ELSE NoMishap /\ UNCHANGED <<spans, quiet>>
     /\ AloneUntilRead /\ UNCHANGED <<doing, asked, owed>>

\* _LazyInstaller.find_spec: _uninstall, then _register.
AsksLazy(p) ==
  /\ Reaches(p, "lazy")
  /\ proc' = IF proc[p].asking[1] # "langgraph" THEN Onto(p)
             ELSE [Onto(p) EXCEPT ![p].finders = Off(p, "lazy"), ![p].hooked = @ \union {"langgraph"}]
  /\ AloneUntilRead /\ UNCHANGED <<doing, spans, asked, owed, quiet, mishaps>>

AsksOrdinary(p) ==
  /\ \/ Reaches(p, "builtin") /\ proc' = Onto(p)
     \/ Reaches(p, "path") /\ proc' = [proc EXCEPT ![p].asking = << >>, ![p].loaded = @ \union {proc[p].asking[1]}]
  /\ AloneUntilRead /\ UNCHANGED <<doing, spans, asked, owed, quiet, mishaps>>

-----------------------------------------------------------------------------
(* What the frameworks report.  Traces of the SDK and nodes of a graph are  *)
(* written as they begin and as they end, spans of the SDK when they end,  *)
(* and of those only the types WRITTEN lists.                              *)

Framework(d) == IF d[1] = "LangGraphNode" THEN "langgraph" ELSE "agents"
Bracketed == {"trace", "LangGraphNode"}
WRITTEN == {"AgentSpanData", "HandoffSpanData", "GuardrailSpanData"}

Hooked(p, d) == Framework(d) \in proc[p].hooked

\* _write of either adapter: appended, or counted as dropped.
Hands(p, half, d, changed) ==
  /\ owed' = [owed EXCEPT ![p] = @ + 1]
  /\ \/ Appended(Record(half, p, d, 0)) /\ proc' = changed
     \/ Refused /\ proc' = [changed EXCEPT ![p].dropped[Framework(d)] = @ + 1]

\* on_trace_start, on_span_start, on_chain_start with opened().
Opens(p, d) ==
  /\ Free(p) /\ doing[p][d] = "no"
  /\ Framework(d) \in machine.dist \intersect proc[p].loaded \intersect asked[p]
  /\ doing' = [doing EXCEPT ![p][d] = "open"]
  /\ IF Hooked(p, d) /\ d[1] \in Bracketed
     THEN Hands(p, "start", d,
            IF d[1] = "LangGraphNode" THEN [proc EXCEPT ![p].open = @ \union {d}] ELSE proc)
     ELSE NoMishap /\ UNCHANGED <<proc, spans, owed>>
  /\ AloneUntilRead /\ UNCHANGED <<asked, quiet>>

\* on_trace_end, on_span_end, _close with closing().
Closes(p, d) ==
  /\ Free(p) /\ doing[p][d] = "open"
  /\ doing' = [doing EXCEPT ![p][d] = "over"]
  /\ IF Hooked(p, d) /\ d[1] \in Bracketed \union WRITTEN
        /\ (d[1] = "LangGraphNode" => d \in proc[p].open)
     THEN Hands(p, "end", d, [proc EXCEPT ![p].open = @ \ {d}])
     ELSE NoMishap /\ UNCHANGED <<proc, spans, owed>>
  /\ AloneUntilRead /\ UNCHANGED <<asked, quiet>>

\* The agent calls set_trace_processors: ours is not on the list any more.
Replaces(p) ==
  /\ Free(p) /\ "agents" \in asked[p] \intersect proc[p].hooked
  /\ \A d \in Doings : doing[p][d] = "no"
  /\ proc' = [proc EXCEPT ![p].hooked = @ \ {"agents"}]
  /\ AloneUntilRead /\ UNCHANGED <<doing, spans, asked, owed, quiet, mishaps>>

\* Fault: every report is of all that was ever dropped.
CountAgain(p) == proc[p].dropped
\* The count is reported once: shutdown() may be called again.
CountAnew(p) == [proc[p].dropped EXCEPT !["agents"] = 0]

\* What a report without `package` says of its adapter.
Unnamed == "unnamed"

\* processor.py's shutdown, by the agent or at the exit of the process: a count, and not whose.
Shutdown(p, then) ==
  IF proc[p].dropped["agents"] = 0 \/ "agents" \notin proc[p].hooked
  THEN proc' = then /\ NoMishap /\ UNCHANGED <<spans, quiet>>
  ELSE \/ /\ Appended(Record("dropped", p, Unnamed, proc[p].dropped["agents"]))
          /\ proc' = [then EXCEPT ![p].dropped = CountAnew(p)] /\ UNCHANGED quiet
       \/ Refused /\ proc' = then /\ quiet' = FALSE

\* report_losses, at exit: a node that is still open is lost as well.
ReportLosses(p, then) ==
  LET total == proc[p].dropped["langgraph"] + Cardinality(proc[p].open)
  IN IF total = 0 \/ "langgraph" \notin proc[p].hooked
     THEN proc' = then /\ NoMishap /\ UNCHANGED <<spans, quiet>>
     ELSE /\ proc' = then
          /\ \/ Appended(Record("dropped", p, "langgraph", total)) /\ UNCHANGED quiet
             \/ Refused /\ quiet' = FALSE

AgentShutsDown(p) ==
  /\ Free(p) /\ proc[p].dropped["agents"] > 0 /\ "agents" \in proc[p].hooked
  /\ Shutdown(p, proc)
  /\ AloneUntilRead /\ UNCHANGED <<doing, asked, owed>>

Quits(p) ==
  /\ Free(p)
  /\ proc' = [proc EXCEPT ![p].phase = "leaving", ![p].leaving = Frameworks]
  /\ AloneUntilRead /\ UNCHANGED <<doing, spans, asked, owed, quiet, mishaps>>

\* What the adapters registered to run at exit, in either order.
Reports(p) ==
  /\ proc[p].phase = "leaving"
  /\ \E f \in proc[p].leaving :
       LET then == [proc EXCEPT ![p].leaving = @ \ {f},
                                ![p].phase = IF proc[p].leaving = {f} THEN "gone" ELSE "leaving"]
       IN IF f = "agents" THEN Shutdown(p, then) ELSE ReportLosses(p, then)
  /\ AloneUntilRead /\ UNCHANGED <<doing, asked, owed>>

\* A process is killed: it reports nothing.
Dies(p) ==
  /\ proc[p].phase \in {"up", "leaving"} /\ Mishap
  /\ proc' = [proc EXCEPT ![p].phase = "killed"]
  /\ AloneUntilRead /\ UNCHANGED <<doing, spans, asked, owed, quiet>>

-----------------------------------------------------------------------------
(* The command reads the file when its agent has exited.                   *)

\* eventForSpan: one event of each span, two of a node, none of a trace.
EventsOf(file) == {r \in file : r.kind \in {"start", "end"} /\ r.what[1] # "trace"}

OfKind(file, kind) == {r \in file : r.kind = kind}

\* Fault: one line of a kind is one fact.
DroppedOnce(file) == FoldSet(LAMBDA r, n : IF r.n > n THEN r.n ELSE n, 0, OfKind(file, "dropped"))
\* agentSpanLosses: packages are told apart, counts are added.
DroppedInAll(file) == MapThenSumSet(LAMBDA r : r.n, OfKind(file, "dropped"))

\* A package is only named when the run captured model traffic.
ReadsSpans(traffic) ==
  /\ ~Drained
  /\ \A p \in Pythons : proc[p].phase \in {"idle", "gone", "killed"}
  /\ \E p \in Pythons : proc[p].phase # "idle"
  /\ trace' = EventsOf(spans)
  /\ warned' = [package |-> IF traffic THEN {r.what : r \in OfKind(spans, "unavailable")} ELSE {},
                dropped |-> DroppedInAll(spans),
                by |-> {r.what : r \in OfKind(spans, "dropped")} \ {Unnamed},
                traffic |-> traffic, over |-> TRUE]
  /\ UNCHANGED <<machine, proc, doing, spans, asked, owed, quiet, mishaps>>

SpansNext ==
  \/ \E p \in Pythons :
       \/ \E chained \in SUBSET {"langgraph"} : Starts(p, chained)
       \/ \E f \in Frameworks : Imports(p, f)
       \/ AsksWatcher(p) \/ AsksLazy(p) \/ AsksOrdinary(p)
       \/ \E d \in Doings : Opens(p, d) \/ Closes(p, d)
       \/ Replaces(p) \/ AgentShutsDown(p) \/ Quits(p) \/ Reports(p) \/ Dies(p)
  \/ \E traffic \in BOOLEAN : ReadsSpans(traffic)

SpansSpec == SpansInit /\ [][SpansNext]_spansVars

-----------------------------------------------------------------------------
(* What the layer promises.                                                *)

Died == {p \in Pythons : proc[p].phase = "killed"}
InTrace(half, p, d) == \E r \in trace : r.kind = half /\ r.from = p /\ r.what = d
Kept(p) == Cardinality({r \in spans : r.from = p /\ r.kind \in {"start", "end"}})
Unclosed(p) == Cardinality(proc[p].open)

\* What the frameworks of several processes did is in the trace or in a warning:
\* a span that ended is an event, or something was counted as dropped, and the warning
\* names the adapter if it was python-langgraph's, which alone signs its reports; as
\* many are reported dropped as were, whoever shuts an adapter down and how often, and
\* no adapter is blamed that lost nothing; and a package is asked for exactly when its
\* framework was used without it, in whichever order the finders were asked
\* (_WhenImported, _LazyInstaller, on_span_end, _close, shutdown, report_losses,
\* agentSpanLosses, eventForSpan).
SpansAccounted ==
  Drained /\ quiet /\ Died = {} =>
    /\ \A p \in Pythons : \A d \in Doings :
         /\ Here(Framework(d)) /\ doing[p][d] = "over" /\ d[1] \in WRITTEN \union {"LangGraphNode"} =>
              \/ InTrace("end", p, d)
              \/ warned.dropped > 0 /\ (Framework(d) = "langgraph" => "langgraph" \in warned.by)
              \/ d[1] # "LangGraphNode" /\ "agents" \notin proc[p].hooked
         /\ InTrace("end", p, d) => doing[p][d] = "over" /\ (d[1] = "LangGraphNode" \/ d[1] \in WRITTEN)
    /\ warned.dropped = MapThenSumSet(LAMBDA p : owed[p] - Kept(p) + Unclosed(p), Pythons)
    /\ \A f \in warned.by : \E p \in Pythons : \E d \in Doings :
         /\ Framework(d) = f /\ doing[p][d] # "no"
         /\ ~ (InTrace("start", p, d) /\ InTrace("end", p, d))
    /\ warned.package =
         {f \in Frameworks : warned.traffic /\ Missing(f) /\ f \in machine.dist
                              /\ \E p \in Pythons : f \in asked[p]}
=============================================================================
