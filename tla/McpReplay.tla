------------------------------- MODULE McpReplay -------------------------------
(***************************************************************************)
(* The traffic of an MCP server, recorded, and answered from later.        *)
(*                                                                         *)
(* While a run is recorded the shim (packages/mcp-shim: shim.ts,           *)
(* framing.ts, cli.ts) passes both directions through to the real server   *)
(* and appends a copy of each message to mcp-frames.jsonl, which every     *)
(* server of the run shares.  A replay launches no server: the shim        *)
(* answers the client from the frames (mock.ts).  Ids are the client's,    *)
(* numbered anew in every session.                                         *)
(***************************************************************************)
EXTENDS Naturals, Sequences, FiniteSets

CONSTANTS
  Calls,      \* what a client asks: [method, args], `_meta` left out
  NoCall,     \* what keyOf makes of a message without a method
  MaxId,      \* bound: requests of one session
  ServerId,   \* the id of the requests this server sends to its client
  MaxFrames,  \* bound: frames of a recording
  Shims,      \* the sessions of a replay, each served by a shim of its own
  MaxAsks     \* bound: requests of all of them together

Id == 1..MaxId
Methods == {c.method : c \in Calls}
Slots == ({"call"} \X Calls) \union ({"method"} \X Methods)
None == 0

ASSUME McpAssumption ==
  /\ NoCall \notin Calls /\ MaxId \in Nat /\ MaxFrames \in Nat /\ MaxAsks \in Nat
  /\ ServerId \in Nat \ {0}

VARIABLES
  phase,    \* "record", "replay"
  frames,   \* mcp-frames.jsonl
  nextId,   \* the client's, in this session
  open,     \* what waits for the server: the call of each id
  cut,      \* the id of the answer the server has written half of
  owed,     \* the server waits for an answer of its client
  truth,    \* history: each call the server answered, with its answer
  taken,    \* runMock's `used`, which every shim of the replay starts anew
  asked     \* of each shim: its requests with their replies

mcpVars == <<phase, frames, nextId, open, cut, owed, truth, taken, asked>>
replayVars == <<taken, asked>>

McpInit ==
  /\ phase = "record" /\ frames = << >> /\ nextId = 1
  /\ open = [i \in Id |-> NoCall] /\ cut = None /\ owed = FALSE
  /\ truth = {}
  /\ taken = [s \in Shims |-> [slot \in Slots |-> 0]]
  /\ asked = [s \in Shims |-> << >>]

-----------------------------------------------------------------------------
(* Recording: runShim's tee.  A line becomes a frame when its newline, or   *)
(* the end of the stream, is there (JsonRpcFramer).                        *)

\* toRecord: what is kept of a message.
Frame(server, way, id, call, answer) ==
  [server |-> server, way |-> way, id |-> id, call |-> call, answer |-> answer]
Tees(f) == Len(frames) < MaxFrames /\ frames' = Append(frames, f)
\* Of two answers the later one has the higher number.
Token == Len(frames) + 1

Recording == phase = "record" /\ cut = None

ClientAsks(c) ==
  /\ Recording /\ nextId <= MaxId
  /\ Tees(Frame("own", "in", nextId, c, None))
  /\ open' = [open EXCEPT ![nextId] = c]
  /\ nextId' = nextId + 1
  /\ UNCHANGED <<phase, cut, owed, truth, replayVars>>

\* A notification has no id.
ClientNotifies(c) ==
  /\ Recording
  /\ Tees(Frame("own", "in", None, c, None))
  /\ UNCHANGED <<phase, nextId, open, cut, owed, truth, replayVars>>

ServerAnswers(i) ==
  /\ Recording /\ open[i] # NoCall
  /\ Tees(Frame("own", "out", i, NoCall, Token))
  /\ truth' = truth \union {<<open[i], Token>>}
  /\ open' = [open EXCEPT ![i] = NoCall]
  /\ UNCHANGED <<phase, nextId, cut, owed, replayVars>>

\* The first chunk of an answer: nothing is a frame yet.
ServerBegins(i) ==
  /\ Recording /\ open[i] # NoCall
  /\ cut' = i
  /\ UNCHANGED <<phase, frames, nextId, open, owed, truth, replayVars>>

\* push(): the rest of the line is there.
ServerCompletes ==
  /\ phase = "record" /\ cut # None
  /\ Tees(Frame("own", "out", cut, NoCall, Token))
  /\ truth' = truth \union {<<open[cut], Token>>}
  /\ open' = [open EXCEPT ![cut] = NoCall]
  /\ cut' = None
  /\ UNCHANGED <<phase, nextId, owed, replayVars>>

\* The server is gone.  flush(): half a line is a frame of kind unknown, without id.
SessionEnds ==
  /\ phase = "record" /\ nextId > 1
  /\ IF cut = None THEN UNCHANGED frames ELSE Tees(Frame("own", "out", None, NoCall, None))
  /\ nextId' = 1 /\ cut' = None /\ owed' = FALSE
  /\ open' = [i \in Id |-> NoCall]
  /\ UNCHANGED <<phase, truth, replayVars>>

\* A request of the server to its client, and the client's answer to it: ping, roots/list.
ServerAsks ==
  /\ Recording /\ ~owed
  /\ Tees(Frame("own", "out", ServerId, NoCall, Token))
  /\ owed' = TRUE
  /\ UNCHANGED <<phase, nextId, open, cut, truth, replayVars>>

ClientAnswers ==
  /\ Recording /\ owed
  /\ Tees(Frame("own", "in", ServerId, NoCall, None))
  /\ owed' = FALSE
  /\ UNCHANGED <<phase, nextId, open, cut, truth, replayVars>>

\* Another server of the run writes to the same file, with ids of its own.
OtherAsked(c, i) ==
  /\ phase = "record"
  /\ Tees(Frame("other", "in", i, c, None))
  /\ UNCHANGED <<phase, nextId, open, cut, owed, truth, replayVars>>
OtherAnswered(i) ==
  /\ phase = "record"
  /\ Tees(Frame("other", "out", i, NoCall, Token))
  /\ UNCHANGED <<phase, nextId, open, cut, owed, truth, replayVars>>

-----------------------------------------------------------------------------
(* Replaying: readFrames, indexFrames, runMock.                            *)

\* Fault: whichever server it was.
KeptOfAny(f) == f.way = "in" \/ f.id # None
\* readFrames: the frames of this server that are messages.
Kept(f) == f.server = "own" /\ (f.way = "in" \/ f.id # None)

\* Fault: an id keeps the call it stood for first.
FirstOf(places) == CHOOSE j \in places : \A i \in places : j <= i
\* keyById.set: an id stands for its last request so far.
LastOf(places) == CHOOSE j \in places : \A i \in places : i <= j
Askers(k) ==
  {j \in 1..(k - 1) : Kept(frames[j]) /\ frames[j].way = "in" /\ frames[j].id = frames[k].id}

\* indexFrames: which frames it files as answers to one of some calls, and those answers
\* as the frames go by.
IndexFrames(calls) ==
  {k \in 1..Len(frames) :
     /\ Kept(frames[k]) /\ frames[k].way = "out" /\ frames[k].id # None
     /\ Askers(k) # {} /\ frames[LastOf(Askers(k))].call \in calls}
Ascending(places) ==
  [n \in 1..Cardinality(places) |->
     CHOOSE k \in places : Cardinality({j \in places : j <= k}) = n]
AnswersTo(calls) ==
  LET filed == Ascending(IndexFrames(calls))
  IN [n \in 1..Len(filed) |-> frames[filed[n]].answer]
OfMethod(m) == {c \in Calls : c.method = m}

\* The recording is over, and whoever took part in it.
ReplayBegins ==
  /\ phase = "record" /\ frames # << >>
  /\ phase' = "replay"
  /\ nextId' = 1 /\ open' = [i \in Id |-> NoCall] /\ cut' = None /\ owed' = FALSE
  /\ UNCHANGED <<frames, truth, replayVars>>

\* Past the end, the last recorded answer stands.
Nth(bucket, n) == bucket[IF n < Len(bucket) THEN n + 1 ELSE Len(bucket)]

\* Fault: one count for all sessions, as if they were one process.
CountsForAll(s, slot) == taken' = [t \in Shims |-> [taken[t] EXCEPT ![slot] = @ + 1]]
\* used.set: what this shim has answered from a slot.
Counts(s, slot) == taken' = [taken EXCEPT ![s][slot] = @ + 1]

\* on('line') of a request: the exact question, else its method, else an error.
Request(s, c) ==
  /\ phase = "replay" /\ Cardinality(UNION {{t} \X DOMAIN asked[t] : t \in Shims}) < MaxAsks
  /\ LET exact == AnswersTo({c})
         loose == AnswersTo(OfMethod(c.method))
         slot == IF exact # << >> THEN <<"call", c>> ELSE <<"method", c.method>>
         bucket == IF exact # << >> THEN exact ELSE loose
         answer == IF bucket = << >> THEN None ELSE Nth(bucket, taken[s][slot])
     IN /\ asked' = [asked EXCEPT ![s] = Append(@, <<c, answer>>)]
        /\ Counts(s, slot)
  /\ UNCHANGED <<phase, frames, nextId, open, cut, owed, truth>>

McpNext ==
  \/ \E c \in Calls : ClientAsks(c) \/ ClientNotifies(c) \/ \E s \in Shims : Request(s, c)
  \/ \E i \in Id : ServerAnswers(i) \/ ServerBegins(i)
  \/ \E c \in Calls : OtherAsked(c, 1)
  \/ OtherAnswered(1)
  \/ ServerCompletes \/ SessionEnds \/ ServerAsks \/ ClientAnswers \/ ReplayBegins
McpSpec == McpInit /\ [][McpNext]_mcpVars

-----------------------------------------------------------------------------
(* What a replay promises its client.                                      *)

\* What the server said to some calls, in order.
Said(calls) == Ascending({t[2] : t \in {u \in truth : u[1] \in calls}})

\* The n-th time a session of a replay asks what the recorded server answered, it is told
\* what that server said the n-th time, and its last word from then on; asking what was
\* never asked, what the server said to that method; and nothing only if it said nothing.
\* Whatever sessions, cut answers and other servers the recording holds, and whatever the
\* other sessions of the replay ask: each begins with the first answer again, also where
\* it plays a session that came later in the recording (indexFrames, runMock).
AnswersTheQuestion ==
  \A s \in Shims : \A j \in 1..Len(asked[s]) :
    LET c == asked[s][j][1]
        unheard == {d \in OfMethod(c.method) : Said({d}) = << >>}
        before(calls) == Cardinality({k \in 1..(j - 1) : asked[s][k][1] \in calls})
    IN asked[s][j][2] =
         IF Said({c}) # << >> THEN Nth(Said({c}), before({c}))
         ELSE IF Said(OfMethod(c.method)) # << >>
         THEN Nth(Said(OfMethod(c.method)), before(unheard))
         ELSE None
=============================================================================
