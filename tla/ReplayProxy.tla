----------------------------- MODULE ReplayProxy -----------------------------
(***************************************************************************)
(* The interception point: createProxy() of packages/proxy/src/server.ts,  *)
(* with the base-URL route through handle(), goLive(), passThrough() and   *)
(* pipeThrough(), and the RequestMatcher it asks.                          *)
(*                                                                         *)
(* Each connection is one HTTP request.  A handler runs without            *)
(* interruption between two awaits: reading the request body, fetching     *)
(* from the upstream, and piping the answer chunk by chunk, where it waits *)
(* for the client to take what it was sent.  The clients, the upstream and *)
(* the other handlers move in between.                                     *)
(***************************************************************************)
EXTENDS RequestMatcher, FiniteSets

CONSTANTS
  Conns,             \* the HTTP requests a run sends
  ClientsMayLeave    \* whether an agent closes a connection it waits on

ASSUME ProxyAssumption ==
  /\ IsFiniteSet(Conns) /\ Cardinality(Conns) <= MaxPeak
  /\ ClientsMayLeave \in BOOLEAN

(***************************************************************************)
(* ProxyOptions, as the commands set them.  cross: the fork's model is     *)
(* served by another provider, so answers are translated, not piped.       *)
(***************************************************************************)
Configs ==
  [mode : {"record"}, loose : {FALSE}, forkAt : {0}, cross : {FALSE}]
    \union [mode : {"replay"}, loose : BOOLEAN, forkAt : {0}, cross : {FALSE}]
    \union [mode : {"hybrid"}, loose : {FALSE}, forkAt : 0..MaxRecorded, cross : BOOLEAN]

\* What a request line and a body can be to handle(): a model call, a POST no
\* dialect claims, or something answered at once (health, not a POST, no JSON).
Kinds == {"model", "opaque", "other"}

VARIABLES
  config,      \* options
  full,        \* options.exchanges, of which recorded is the replayable part
  conn,        \* the handlers: kind, request, phase, via, the position served
  gone,        \* connections whose client has left
  inFlight,    \* inFlight
  peak,        \* peakInFlight
  stats,       \* the counters of ProxyStats that handle() moves
  captured,    \* captured: the model exchanges, with their seq
  netEvents,   \* onNetExchange: the passed-through exchanges
  diverged,    \* onDivergence: the connections of rung 4 divergences
  alive        \* the process is up

optionVars == <<config, full>>
traceVars == <<captured, netEvents>>
proxyVars == <<matcherVars, optionVars, conn, gone, inFlight, peak, stats,
               traceVars, diverged, alive>>

Strict == config.mode = "replay" /\ ~ config.loose

(***************************************************************************)
(* via, how a request was answered: from the trace; live, because the run  *)
(* records, is at its fork or met a miss; passed through; halted, for want *)
(* of a recording; or refused, with a 404 or a 400 about the request.      *)
(***************************************************************************)
Open == {c \in Conns : conn[c].phase \notin {"none", "done"}}
Via(ways) == {c \in Conns : conn[c].via \in ways}
Live == Via({"record", "fork", "miss"})
Forwarded == Live \union Via({"pass"})

AnyRequest == CHOOSE r \in Requests : TRUE

\* The trace events of one connection.
RecordsOf(c) ==
  Cardinality({i \in 1..Len(captured) : captured[i].conn = c})
    + Cardinality({i \in 1..Len(netEvents) : netEvents[i] = c})

-----------------------------------------------------------------------------
(* The server callback: opened(), handle(), closed(). *)

Arrive(c, kind, request) ==
  /\ alive /\ conn[c].phase = "none"
  /\ kind # "model" => request = AnyRequest
  /\ conn' = [conn EXCEPT ![c] = [kind |-> kind, request |-> request,
                                  phase |-> "reading", via |-> "none", index |-> 0]]
  /\ inFlight' = inFlight + 1
  /\ peak' = IF inFlight + 1 > peak THEN inFlight + 1 ELSE peak
  /\ UNCHANGED <<matcherVars, optionVars, gone, stats, traceVars, diverged, alive>>

\* The agent gives up on a connection; nothing tells a handler that waits.
ClientLeaves(c) ==
  /\ ClientsMayLeave /\ alive
  /\ c \in Open \ gone
  /\ gone' = gone \union {c}
  /\ UNCHANGED <<matcherVars, optionVars, conn, inFlight, peak, stats, traceVars,
                 diverged, alive>>

Closed == inFlight' = IF inFlight > 0 THEN inFlight - 1 ELSE 0

\* A handler that ends with its answer, and one that goes to the network.
Finish(c, via, index) ==
  /\ conn' = [conn EXCEPT ![c].phase = "done", ![c].via = via, ![c].index = index]
  /\ Closed
  /\ UNCHANGED <<optionVars, gone, peak, traceVars, alive>>

Fetch(c, via) ==
  /\ conn' = [conn EXCEPT ![c].phase = "fetching", ![c].via = via]
  /\ UNCHANGED <<optionVars, gone, inFlight, peak, traceVars, alive>>

Reading(c, kind) == alive /\ conn[c].phase = "reading" /\ conn[c].kind = kind

\* readBody rejects when the client leaves before the body is in.
BodyAborted(c) ==
  /\ alive /\ conn[c].phase = "reading" /\ c \in gone
  /\ Finish(c, "refused", 0)
  /\ UNCHANGED <<matcherVars, stats, diverged>>

AnswerAtOnce(c) ==
  /\ Reading(c, "other")
  /\ Finish(c, "refused", 0)
  /\ UNCHANGED <<matcherVars, stats, diverged>>

-----------------------------------------------------------------------------
(* A POST no dialect claims: passThrough(). *)

PassThrough(c) ==
  /\ Reading(c, "opaque")
  /\ IF config.mode = "replay"
       THEN /\ stats' = [stats EXCEPT !.unmatched = @ + 1]
            /\ Finish(c, "halted", 0)
       ELSE /\ stats' = [stats EXCEPT !.passedThrough = @ + 1]
            /\ Fetch(c, "pass")
  /\ UNCHANGED <<matcherVars, diverged>>

-----------------------------------------------------------------------------
(* A model call: the recording first, unless the cursor is at the fork. *)

\* matcher.cursor >= forkAt, which is never beyond the recording here.
BeyondFork == config.mode = "hybrid" /\ cursor >= config.forkAt + 1

\* Fault: a live call of a fork moves the cursor on, to keep it in step.
GoLiveConsuming(c) ==
  /\ Reading(c, "model")
  /\ config.mode = "record" \/ BeyondFork
  /\ stats' = [stats EXCEPT !.liveCalls = @ + 1]
  /\ Fetch(c, IF config.mode = "record" THEN "record" ELSE "fork")
  /\ cursor' = cursor + 1
  /\ UNCHANGED <<recorded, deferred, served, last, diverged>>
GoLive(c) ==
  /\ Reading(c, "model")
  /\ config.mode = "record" \/ BeyondFork
  /\ stats' = [stats EXCEPT !.liveCalls = @ + 1]
  /\ Fetch(c, IF config.mode = "record" THEN "record" ELSE "fork")
  /\ UNCHANGED <<matcherVars, diverged>>

Consults(c) ==
  /\ Reading(c, "model")
  /\ config.mode # "record" /\ ~ BeyondFork
  /\ Match(conn[c].request, peak)

\* Fault: an approximate answer is counted with the exact ones.
ServeRecordedAsExact(c) ==
  /\ Consults(c)
  /\ last'.rung # 4
  /\ stats' = [stats EXCEPT !.matchedExact = @ + 1]
  /\ Finish(c, "trace", last'.index)
  /\ UNCHANGED diverged
ServeRecorded(c) ==
  /\ Consults(c)
  /\ last'.rung # 4
  /\ stats' = [stats EXCEPT
       !.reordered = @ + (IF last'.reordered THEN 1 ELSE 0),
       !.matchedExact = @ + (IF last'.rung = 1 THEN 1 ELSE 0),
       !.matchedInexact = @ + (IF last'.rung = 1 THEN 0 ELSE 1),
       !.divergences = @ + (IF last'.rung = 1 THEN 0 ELSE 1)]
  /\ Finish(c, "trace", last'.index)
  /\ UNCHANGED diverged

\* Fault: the 400 is sent and the handler runs on.
HaltAndGoOn(c) ==
  /\ Consults(c)
  /\ last'.rung = 4 /\ Strict
  /\ stats' = [stats EXCEPT !.unmatched = @ + 1, !.liveCalls = @ + 1]
  /\ Fetch(c, "miss")
  /\ UNCHANGED diverged
Halt(c) ==
  /\ Consults(c)
  /\ last'.rung = 4 /\ Strict
  /\ stats' = [stats EXCEPT !.unmatched = @ + 1]
  /\ Finish(c, "halted", 0)
  /\ UNCHANGED diverged

\* Fault: only --loose reports the miss, a fork goes on quietly.
GoLiveOnMissQuietly(c) ==
  /\ Consults(c)
  /\ last'.rung = 4 /\ ~ Strict
  /\ stats' = [stats EXCEPT !.unmatched = @ + 1, !.liveCalls = @ + 1,
                            !.divergences = @ + (IF config.loose THEN 1 ELSE 0)]
  /\ diverged' = IF config.loose THEN diverged \union {c} ELSE diverged
  /\ Fetch(c, "miss")
GoLiveOnMiss(c) ==
  /\ Consults(c)
  /\ last'.rung = 4 /\ ~ Strict
  /\ stats' = [stats EXCEPT !.unmatched = @ + 1, !.divergences = @ + 1,
                            !.liveCalls = @ + 1]
  /\ diverged' = diverged \union {c}
  /\ Fetch(c, "miss")

-----------------------------------------------------------------------------
(* What was fetched: goLive() and passThrough() from their first await on. *)

\* Fault: the number is taken once the exchange is pushed, less one too many.
RecordNumberedBack(c) ==
  IF conn[c].kind = "model"
    THEN /\ captured' = Append(captured, [conn |-> c, seq |-> Len(captured) - 1])
         /\ UNCHANGED netEvents
    ELSE /\ netEvents' = Append(netEvents, c)
         /\ UNCHANGED captured
Record(c) ==
  IF conn[c].kind = "model"
    THEN /\ captured' = Append(captured, [conn |-> c, seq |-> Len(captured)])
         /\ UNCHANGED netEvents
    ELSE /\ netEvents' = Append(netEvents, c)
         /\ UNCHANGED captured

NoRecord == UNCHANGED traceVars

In(c, phase) == alive /\ conn[c].phase = phase

End(c) ==
  /\ conn' = [conn EXCEPT ![c].phase = "done"]
  /\ Closed
  /\ UNCHANGED <<matcherVars, optionVars, gone, peak, stats, diverged, alive>>

Move(c, phase) ==
  /\ conn' = [conn EXCEPT ![c].phase = phase]
  /\ UNCHANGED <<matcherVars, optionVars, gone, inFlight, peak, stats, traceVars,
                 diverged, alive>>

\* Fault: a call that could not be forwarded leaves no event.
FetchFailsUnrecorded(c) == In(c, "fetching") /\ NoRecord /\ End(c)
FetchFails(c) == In(c, "fetching") /\ Record(c) /\ End(c)

FetchAnswers(c) ==
  /\ In(c, "fetching")
  /\ Move(c, IF config.cross /\ conn[c].kind = "model" THEN "translating" ELSE "piping")

\* Another provider's answer is read as a whole; one that cannot be read, an
\* error page for instance, throws.
Translated(c) == In(c, "translating") /\ Record(c) /\ End(c)
TranslationFails(c) == In(c, "translating") /\ NoRecord /\ End(c)

\* res.write returns false when the socket is full, and when it is gone.
ChunkBlocks(c) == In(c, "piping") /\ Move(c, "blocked")
Drained(c) == In(c, "blocked") /\ c \notin gone /\ Move(c, "piping")

\* Fault: a tunnel is written down when it is answered and again at its end.
UpstreamEndsTwice(c) ==
  /\ In(c, "piping")
  /\ IF conn[c].kind = "model"
       THEN Record(c)
       ELSE netEvents' = netEvents \o <<c, c>> /\ UNCHANGED captured
  /\ End(c)
UpstreamEnds(c) == In(c, "piping") /\ Record(c) /\ End(c)

\* reader.read rejects with the headers sent: the catch of the server callback
\* answers 500, writeHead throws, and nobody handles the rejection.
UpstreamBreaks(c) ==
  /\ In(c, "piping")
  /\ alive' = FALSE
  /\ UNCHANGED <<matcherVars, optionVars, conn, gone, inFlight, peak, stats, traceVars,
                 diverged>>

-----------------------------------------------------------------------------
ProxyInit ==
  /\ config \in Configs
  /\ full \in Recordings
  /\ config.mode = "record" => full = << >>
  /\ config.mode = "hybrid" => config.forkAt <= Len(full)
  /\ recorded = IF config.mode = "hybrid" THEN SubSeq(full, 1, config.forkAt) ELSE full
  /\ cursor = 1 /\ deferred = << >>
  /\ served = [p \in 1..Len(recorded) |-> 0]
  /\ last = NoResult
  /\ conn = [c \in Conns |-> [kind |-> "none", request |-> AnyRequest, phase |-> "none",
                              via |-> "none", index |-> 0]]
  /\ gone = {} /\ inFlight = 0 /\ peak = 0
  /\ stats = [matchedExact |-> 0, matchedInexact |-> 0, reordered |-> 0, divergences |-> 0,
              unmatched |-> 0, liveCalls |-> 0, passedThrough |-> 0]
  /\ captured = << >> /\ netEvents = << >> /\ diverged = {}
  /\ alive = TRUE

Decide(c) ==
  \/ BodyAborted(c) \/ AnswerAtOnce(c) \/ PassThrough(c)
  \/ GoLive(c) \/ ServeRecorded(c) \/ Halt(c) \/ GoLiveOnMiss(c)

Fetched(c) == FetchFails(c) \/ FetchAnswers(c)
Translate(c) == Translated(c) \/ TranslationFails(c)

Step(c) ==
  \/ Decide(c) \/ Fetched(c) \/ Translate(c)
  \/ ChunkBlocks(c) \/ Drained(c) \/ UpstreamEnds(c) \/ UpstreamBreaks(c)
  \/ ClientLeaves(c)

ProxyNext ==
  \E c \in Conns :
    \/ \E kind \in Kinds, request \in Requests : Arrive(c, kind, request)
    \/ Step(c)

ProxySpec == ProxyInit /\ [][ProxyNext]_proxyVars

(***************************************************************************)
(* The event loop runs every handler, a client that stays sends its body   *)
(* and drains its socket, fetch settles (undici's timeouts), and an answer *)
(* has an end.                                                             *)
(***************************************************************************)
Fairness ==
  \A c \in Conns :
    /\ WF_proxyVars(Decide(c))
    /\ WF_proxyVars(Fetched(c))
    /\ WF_proxyVars(Translate(c))
    /\ WF_proxyVars(Drained(c))
    /\ SF_proxyVars(UpstreamEnds(c))

FairProxySpec == ProxySpec /\ Fairness

-----------------------------------------------------------------------------
(* Properties. *)

Connections ==
  [kind : Kinds \union {"none"}, request : Requests,
   phase : {"none", "reading", "fetching", "translating", "piping", "blocked", "done"},
   via : {"none", "trace", "record", "fork", "miss", "pass", "halted", "refused"},
   index : Nat]

Counters == {"matchedExact", "matchedInexact", "reordered", "divergences", "unmatched",
             "liveCalls", "passedThrough"}

ProxyTypeOK ==
  /\ config \in Configs /\ full \in Recordings
  /\ conn \in [Conns -> Connections]
  /\ gone \subseteq Conns /\ diverged \subseteq Conns
  /\ inFlight \in Nat /\ peak \in Nat
  /\ stats \in [Counters -> Nat]
  /\ captured \in Seq([conn : Conns, seq : Nat])
  /\ netEvents \in Seq(Conns)
  /\ alive \in BOOLEAN

(***************************************************************************)
(* The counters a command's verdict and summary are made of are the fates  *)
(* of the connections (ProxyStats; replay.ts reads them at the end):       *)
(* nothing is counted twice, and no way out of a handler forgets to count  *)
(* or to leave the number of requests in flight.                           *)
(***************************************************************************)
StatsTellFates ==
  LET count(set) == Cardinality(set)
      rungOne == {c \in Via({"trace"}) : conn[c].request = recorded[conn[c].index]}
  IN  /\ stats.matchedExact = count(rungOne)
      /\ stats.matchedInexact = count(Via({"trace"}) \ rungOne)
      /\ stats.unmatched = count(Via({"miss", "halted"}))
      /\ stats.liveCalls = count(Live)
      /\ stats.passedThrough = count(Via({"pass"}))
      /\ stats.divergences = stats.matchedInexact + count(diverged)
      /\ inFlight = count(Open)

(***************************************************************************)
(* A strict replay forwards nothing: whatever the agent sends, no request  *)
(* of it reaches the network and no exchange is recorded (README.md, "the  *)
(* proxy refuses to forward anything it cannot serve from the trace").     *)
(***************************************************************************)
StrictStaysOffline ==
  Strict => Forwarded = {} /\ captured = << >> /\ netEvents = << >>

(***************************************************************************)
(* However the requests interleave, no two connections are answered from   *)
(* the same recorded position, and none by a request that is a stranger to *)
(* it (the matcher's deferred queue behind handle()).                      *)
(***************************************************************************)
AnswersAreDistinct ==
  \A c, d \in Via({"trace"}) :
    /\ Rung(conn[c].request, recorded[conn[c].index]) <= 3
    /\ conn[c].index = conn[d].index => c = d

(***************************************************************************)
(* A replay that approximates says so: outside a recording, a call that    *)
(* went live without a major divergence came when the recording, up to the *)
(* fork, had been played or stepped over to its end (server.ts, "being     *)
(* quiet about it is not").                                                *)
(***************************************************************************)
NoQuietMiss ==
  config.mode # "record" =>
    \A c \in Live \ diverged :
      \A p \in Positions : served[p] > 0 \/ p \in Held

(***************************************************************************)
(* What was forwarded is written down once, when it has ended, and model   *)
(* exchanges are numbered in the order they ended (recordExchange, whose   *)
(* seq is the length of captured; onNetExchange).  Only an answer of       *)
(* another provider may be missing, when it cannot be translated.          *)
(***************************************************************************)
RecordedOnce ==
  /\ \A i \in 1..Len(captured) : captured[i].seq = i - 1
  /\ \A c \in Conns :
       IF c \in Forwarded /\ conn[c].phase = "done"
         THEN \/ RecordsOf(c) = 1
              \/ config.cross /\ c \in Live /\ RecordsOf(c) = 0
         ELSE RecordsOf(c) = 0

(***************************************************************************)
(* The handlers, together, use the matcher as one caller does: whatever    *)
(* holds of RequestMatcher under any caller holds of the one in the proxy. *)
(***************************************************************************)
DrivesMatcher == MatcherSpec

(***************************************************************************)
(* Every call that is forwarded gets its exchange, as long as its client   *)
(* stays, the process is up and the answer needs no translation, however   *)
(* often the socket fills up and whoever else leaves.                      *)
(***************************************************************************)
ForwardedPlainly(c) == c \in Forwarded /\ ~ (config.cross /\ c \in Live)
LiveCallsGetRecorded ==
  \A c \in Conns :
    ForwardedPlainly(c) ~> RecordsOf(c) = 1 \/ ~ alive \/ c \in gone

(***************************************************************************)
(* What the repository's texts say and the code does not do.               *)
(***************************************************************************)

\* "The point is never to lose the recording" (server.ts, of pipeThrough, which
\* records an exchange however slowly its client reads).
AbandonedCallsGetRecorded ==
  \A c \in Conns : ForwardedPlainly(c) ~> RecordsOf(c) = 1 \/ ~ alive

\* "Whatever failed, ... this body reaches the agent" (server.ts, the catch
\* behind every handler): a failing handler does not take the proxy down.
ProxyStaysUp == alive
=============================================================================
