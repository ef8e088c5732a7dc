------------------------------ MODULE TlsIntercept ------------------------------
(***************************************************************************)
(* The intercepted route of the proxy (packages/proxy/src/intercept.ts and *)
(* onDecrypted, onInterceptedRequest in server.ts): CONNECT, then one TLS  *)
(* session orca terminates, whose requests are answered from a recording   *)
(* or forwarded to the origin they name, over HTTP/1.1 or over an HTTP/2   *)
(* session shared by every stream to that origin; or a tunnel copied       *)
(* unread.  Client, origin and proxy each act on their own; what one does  *)
(* reaches the other as an event, later.                                   *)
(***************************************************************************)
EXTENDS Naturals, Sequences, FiniteSets

CONSTANTS
  Calls,
  Starts,    \* [mode: "record", "strict" or "hybrid" (a fork, or --loose),
             \*  kind: of each call, "h1", "h2" or "tunnel",
             \*  request: [model: a POST a dialect claims, big: over the capture limit]]
  Chunks,    \* the pieces of a response
  Limit,     \* of which a Capture keeps the first
  Sessions,  \* bound: HTTP/2 sessions to the origin
  Goings,    \* bound: connections dropped or wound down, close() among them
  None

ASSUME InterceptAssumption ==
  /\ Starts \subseteq [mode : {"record", "strict", "hybrid"},
                       kind : [Calls -> {"h1", "h2", "tunnel"}],
                       request : [Calls -> [model : BOOLEAN, big : BOOLEAN]]]
  /\ Chunks \in Nat \ {0} /\ Limit \in Nat /\ Goings \in Nat

VARIABLES
  mode, kind, request,
  phase,     \* of each call: "none", "body", "asking", "answering", "over" (settled)
  client,    \* "there" or "gone"
  reply,     \* the client's side of the answer: "open", "whole", "cut"
  heard,     \* its "close" was handled
  status,    \* a response header was seen
  got,       \* pieces read from the origin; the client was written the same
  paused,    \* a write returned false: the origin is paused until "drain"
  up,        \* the request to the origin: "none", "open", "ended", "dead" (its error to come),
             \* "lost" (the error was handled), "quiet" (closed by the origin without an
             \* error), "shut" (destroyed for a client that left)
  on,        \* the session a stream uses
  session,   \* "none", "open", "draining" (a GOAWAY), "dying" (its close to come), "closed"
  h2Upstream,\* the session h2Upstreams holds for the origin
  events,    \* onNetExchange and onTunnel, oldest first
  closing,   \* close() was called
  goings

callVars == <<phase, client, reply, heard, status, got, paused, up, on>>
interceptVars == <<mode, kind, request, callVars, session, h2Upstream, events, closing, goings>>
fixed == <<mode, kind, request>>

InterceptInit ==
  /\ \E start \in Starts :
       mode = start.mode /\ kind = start.kind /\ request = start.request
  /\ phase = [c \in Calls |-> "none"] /\ client = [c \in Calls |-> "there"]
  /\ reply = [c \in Calls |-> "open"] /\ heard = [c \in Calls |-> FALSE]
  /\ status = [c \in Calls |-> FALSE] /\ got = [c \in Calls |-> 0]
  /\ paused = [c \in Calls |-> FALSE]
  /\ up = [c \in Calls |-> "none"] /\ on = [c \in Calls |-> None]
  /\ session = [s \in Sessions |-> "none"] /\ h2Upstream = None
  /\ events = << >> /\ closing = FALSE /\ goings = 0

Decrypted(c) == kind[c] # "tunnel"
Streams(s) == {c \in Calls : kind[c] = "h2" /\ on[c] = s /\ up[c] = "open"}
Recorded(c) == \E i \in DOMAIN events : events[i].call = c

-----------------------------------------------------------------------------
(* What is recorded. *)

\* onDecrypted: a model exchange needs a response header and a whole request.
Promoted(c) == Decrypted(c) /\ request[c].model /\ ~request[c].big /\ status[c]

\* truncated: Capture keeps the first pieces only.
Exchange(c, abandoned, pieces) ==
  [call |-> c, abandoned |-> abandoned, pieces |-> pieces,
   kept |-> IF pieces < Limit THEN pieces ELSE Limit, promoted |-> Promoted(c)]

\* emit(), and a tunnel's finish(): the first to come is recorded, and no other.
Emit(c, abandoned, pieces) ==
  events' = IF Recorded(c) THEN events ELSE Append(events, Exchange(c, abandoned, pieces))

\* Fault: an exchange is recorded where the origin ends it, and nowhere else.
AbandonUnrecorded(c, pieces) ==
  /\ UNCHANGED events
  /\ up' = [up EXCEPT ![c] = IF @ \in {"open", "dead"} THEN "shut" ELSE @]
  /\ phase' = [phase EXCEPT ![c] = "over"]
\* abandon(): keep what was read, stop pulling, settle.
Abandon(c, pieces) ==
  /\ Emit(c, TRUE, pieces)
  /\ up' = [up EXCEPT ![c] = IF @ \in {"open", "dead"} THEN "shut" ELSE @]
  /\ phase' = [phase EXCEPT ![c] = "over"]

-----------------------------------------------------------------------------
(* The request. *)

\* upstreamH2: a session that is still good, or a new one in its place.
Usable(s) == s # None /\ session[s] = "open"
Fresh == {s \in Sessions : session[s] = "none"}
UpstreamH2(c) ==
  IF Usable(h2Upstream)
  THEN on' = [on EXCEPT ![c] = h2Upstream] /\ UNCHANGED <<session, h2Upstream>>
  ELSE /\ Fresh # {}
       /\ h2Upstream' = CHOOSE s \in Fresh : TRUE
       /\ session' = [session EXCEPT ![h2Upstream'] = "open"]
       /\ on' = [on EXCEPT ![c] = h2Upstream']

\* The origin is asked, over a connection that may yet fail.
Forward(c) ==
  /\ phase' = [phase EXCEPT ![c] = "asking"]
  /\ up' = [up EXCEPT ![c] = "open"]
  /\ IF kind[c] = "h2" THEN UpstreamH2(c) ELSE UNCHANGED <<on, session, h2Upstream>>

\* Fault: only the HTTP/1.1 path asks the recording.
ConsultsOnH1(c) == mode # "record" /\ kind[c] = "h1"
\* options.onRequest, which buffers the body before it decides.
Consults(c) == mode # "record" /\ Decrypted(c)

\* A CONNECT and, when it is decrypted, the head of a request.
Arrive(c) ==
  /\ phase[c] = "none" /\ ~closing
  /\ IF Consults(c)
     THEN phase' = [phase EXCEPT ![c] = "body"] /\ UNCHANGED <<up, on, session, h2Upstream>>
     ELSE Forward(c)
  /\ UNCHANGED <<fixed, client, reply, heard, status, got, paused, events, closing, goings>>

\* onInterceptedRequest: what a replay may answer itself.
Local(c) == request[c].model /\ ~request[c].big
\* tryReplay: an answer of the recording or a halt, for every such request.
Serves(c) == Local(c)
\* liveIntercepted, past a fork or on a miss: the request as it came, or rewritten.
GoesLive(c) == ~Local(c) \/ mode = "hybrid"

\* A body cut at the limit is refused, never sent on; over HTTP/1.1 after the
\* listeners of the exchange are in place, over HTTP/2 before.
Decide(c, here) ==
  /\ phase[c] = "body" /\ client[c] = "there"
  /\ IF here THEN Serves(c) ELSE GoesLive(c)
  /\ IF here \/ request[c].big
     THEN /\ phase' = [phase EXCEPT ![c] = "over"]
          /\ reply' = [reply EXCEPT ![c] = IF here THEN "whole" ELSE "cut"]
          /\ up' = IF ~here /\ kind[c] = "h1" THEN [up EXCEPT ![c] = "lost"] ELSE up
          /\ UNCHANGED <<on, session, h2Upstream>>
     ELSE Forward(c) /\ UNCHANGED reply
  /\ UNCHANGED <<fixed, client, heard, status, got, paused, events, closing, goings>>

\* The client left before its body was read: there is nobody to answer.
BodyBreaksOff(c) ==
  /\ phase[c] = "body" /\ client[c] = "gone"
  /\ phase' = [phase EXCEPT ![c] = "over"]
  /\ reply' = [reply EXCEPT ![c] = "cut"]
  /\ UNCHANGED <<fixed, client, heard, status, got, paused, up, on, session, h2Upstream,
                 events, closing, goings>>

-----------------------------------------------------------------------------
(* The response. *)

\* The origin's header, or its acceptance of the tunnel.
Answers(c) ==
  /\ phase[c] = "asking" /\ up[c] = "open" /\ ~status[c]
  /\ status' = [status EXCEPT ![c] = TRUE]
  /\ phase' = [phase EXCEPT ![c] = "answering"]
  /\ UNCHANGED <<fixed, client, reply, heard, got, paused, up, on, session, h2Upstream,
                 events, closing, goings>>

\* The first thing the answer meets is that nobody is there.
AnswersNobody(c) ==
  /\ phase[c] = "answering" /\ up[c] = "open" /\ got[c] = 0
  /\ client[c] = "gone" /\ Decrypted(c)
  /\ Abandon(c, 0)
  /\ UNCHANGED <<fixed, client, reply, heard, status, got, paused, on, session, h2Upstream,
                 closing, goings>>

\* A piece is kept and passed on, unless the client has gone; of a stream closed quietly
\* there may be pieces still to read.
Piece(c, full) ==
  /\ phase[c] = "answering" /\ up[c] \in {"open", "quiet"} /\ ~paused[c] /\ got[c] < Chunks
  /\ got' = [got EXCEPT ![c] = @ + 1]
  /\ IF client[c] = "gone" /\ Decrypted(c)
     THEN Abandon(c, got'[c]) /\ UNCHANGED paused
     ELSE paused' = [paused EXCEPT ![c] = full] /\ UNCHANGED <<events, up, phase>>
  /\ UNCHANGED <<fixed, client, reply, heard, status, on, session, h2Upstream, closing, goings>>

\* "drain" never comes from a client that has gone.
Drains(c) ==
  /\ paused[c] /\ client[c] = "there"
  /\ paused' = [paused EXCEPT ![c] = FALSE]
  /\ UNCHANGED <<fixed, phase, client, reply, heard, status, got, up, on, session, h2Upstream,
                 events, closing, goings>>

\* Fault: the client's side is closed, and "close" is left to record it.
RecordsEndLater(c) == UNCHANGED events
\* Recorded before the client's side is closed, so that its "close" comes second.
RecordsEnd(c) == IF Decrypted(c) THEN Emit(c, FALSE, got[c]) ELSE UNCHANGED events

Ends(c) ==
  /\ phase[c] = "answering" /\ up[c] = "open" /\ ~paused[c] /\ got[c] = Chunks
  /\ RecordsEnd(c)
  /\ up' = [up EXCEPT ![c] = "ended"]
  /\ reply' = [reply EXCEPT ![c] = IF client[c] = "there" THEN "whole" ELSE "cut"]
  /\ phase' = [phase EXCEPT ![c] = "over"]
  /\ UNCHANGED <<fixed, client, heard, status, got, paused, on, session, h2Upstream, closing, goings>>

\* The end of a stream that its origin closed early and quietly, which may be heard or
\* not: what there is of the answer is taken for all of it.
HearsQuietEnd(c) ==
  /\ phase[c] = "answering" /\ up[c] = "quiet" /\ ~paused[c]
  /\ Emit(c, FALSE, got[c])
  /\ reply' = [reply EXCEPT ![c] = IF client[c] = "there" THEN "whole" ELSE "cut"]
  /\ phase' = [phase EXCEPT ![c] = "over"]
  /\ UNCHANGED <<fixed, client, heard, status, got, paused, up, on, session, h2Upstream,
                 closing, goings>>

\* Fault: the origin's abort is taken for the client's.
OriginGoneAbandons(c) ==
  /\ Emit(c, TRUE, got[c])
  /\ up' = [up EXCEPT ![c] = "lost"] /\ phase' = [phase EXCEPT ![c] = "over"]
  /\ UNCHANGED reply
\* The origin's error.  A client that is still there has its answer ended, with a
\* 502 or where it was; over HTTP/1.1 what was read of an answer is recorded first.
OriginGone(c) ==
  IF client[c] = "gone" /\ kind[c] = "h1" THEN Abandon(c, got[c]) /\ UNCHANGED reply
  ELSE /\ IF kind[c] = "h1" /\ status[c] THEN Emit(c, FALSE, got[c]) ELSE UNCHANGED events
       /\ up' = [up EXCEPT ![c] = "lost"]
       /\ phase' = [phase EXCEPT ![c] = "over"]
       /\ reply' = [reply EXCEPT ![c] = "cut"]

HearsOrigin(c) ==
  /\ Decrypted(c) /\ up[c] = "dead" /\ OriginGone(c)
  /\ UNCHANGED <<fixed, client, heard, status, got, paused, on, session, h2Upstream, closing, goings>>

\* "close" of the client's side: it has gone, or its answer is finished.  Nothing
\* listens for it on a call the recording answered.
HearsClose(c) ==
  /\ Decrypted(c) /\ phase[c] # "none" /\ ~heard[c] /\ (client[c] = "gone" \/ reply[c] # "open")
  /\ heard' = [heard EXCEPT ![c] = TRUE]
  /\ IF up[c] = "none" THEN UNCHANGED <<events, up, phase>> ELSE Abandon(c, got[c])
  /\ UNCHANGED <<fixed, client, reply, status, got, paused, on, session, h2Upstream, closing, goings>>

\* A tunnel ends as one: either side's close or error takes the other with it.
TunnelCloses(c) ==
  /\ ~Decrypted(c) /\ ~heard[c] /\ (client[c] = "gone" \/ up[c] \in {"dead", "ended"})
  /\ Emit(c, FALSE, got[c])
  /\ heard' = [heard EXCEPT ![c] = TRUE]
  /\ up' = [up EXCEPT ![c] = IF @ = "open" THEN "shut" ELSE @]
  /\ phase' = [phase EXCEPT ![c] = "over"]
  /\ reply' = [reply EXCEPT ![c] = IF @ = "open" THEN "cut" ELSE @]
  /\ UNCHANGED <<fixed, client, status, got, paused, on, session, h2Upstream, closing, goings>>

-----------------------------------------------------------------------------
(* Client and origin. *)

ClientLeaves(c) ==
  /\ phase[c] \in {"body", "asking", "answering"} /\ client[c] = "there"
  /\ client' = [client EXCEPT ![c] = "gone"]
  /\ UNCHANGED <<fixed, phase, reply, heard, status, got, paused, up, on, session, h2Upstream,
                 events, closing, goings>>

\* What an origin that goes leaves to hear: an error, or, of an HTTP/2 stream closed with
\* CANCEL or NO_ERROR, none.
Ways(c) == IF kind[c] = "h2" THEN {"dead", "quiet"} ELSE {"dead"}

\* A connection refused, a stream reset, an origin that dies in mid-answer.
OriginDrops(c) ==
  /\ up[c] = "open" /\ goings < Goings
  /\ goings' = goings + 1
  /\ \E way \in Ways(c) : up' = [up EXCEPT ![c] = way]
  /\ UNCHANGED <<fixed, phase, client, reply, heard, status, got, paused, on, session, h2Upstream,
                 events, closing>>

Kill(s, way) == [c \in Calls |-> IF c \in Streams(s) THEN way ELSE up[c]]

SessionDrops(s) ==
  /\ session[s] \in {"open", "draining"} /\ goings < Goings
  /\ goings' = goings + 1
  /\ session' = [session EXCEPT ![s] = "dying"]
  /\ \E way \in {"dead", "quiet"} : up' = Kill(s, way)
  /\ UNCHANGED <<fixed, phase, client, reply, heard, status, got, paused, on, h2Upstream,
                 events, closing>>

\* A GOAWAY: the streams it has may finish, no other may start.
GoesAway(s) ==
  /\ session[s] = "open" /\ goings < Goings
  /\ goings' = goings + 1
  /\ session' = [session EXCEPT ![s] = "draining"]
  /\ UNCHANGED <<fixed, callVars, h2Upstream, events, closing>>

WindsDown(s) ==
  /\ session[s] = "draining" /\ Streams(s) = {}
  /\ session' = [session EXCEPT ![s] = "dying"]
  /\ UNCHANGED <<fixed, callVars, h2Upstream, events, closing, goings>>

\* "error" and "close" of a session: whatever is in its place is forgotten.
SessionCloses(s) ==
  /\ session[s] = "dying"
  /\ session' = [session EXCEPT ![s] = "closed"]
  /\ h2Upstream' = None
  /\ UNCHANGED <<fixed, callVars, events, closing, goings>>

\* close(): every connection to an origin that is known, every socket of a client.
Close ==
  /\ ~closing /\ closing' = TRUE
  /\ goings < Goings /\ goings' = goings + 1
  /\ \E way \in {"dead", "quiet"} :
       up' = [c \in Calls |->
                IF up[c] = "open" /\ (kind[c] # "h2" \/ on[c] = h2Upstream)
                THEN IF way \in Ways(c) THEN way ELSE "dead"
                ELSE up[c]]
  /\ session' = IF h2Upstream = None \/ session[h2Upstream] = "closed" THEN session
                ELSE [session EXCEPT ![h2Upstream] = "dying"]
  /\ h2Upstream' = None
  /\ client' = [c \in Calls |-> IF phase[c] # "none" /\ reply[c] = "open" THEN "gone" ELSE client[c]]
  /\ UNCHANGED <<fixed, phase, reply, heard, status, got, paused, on, events>>

-----------------------------------------------------------------------------
InterceptNext ==
  \/ \E c \in Calls :
       \/ Arrive(c) \/ BodyBreaksOff(c) \/ \E here \in BOOLEAN : Decide(c, here)
       \/ Answers(c) \/ AnswersNobody(c) \/ \E full \in BOOLEAN : Piece(c, full)
       \/ Drains(c) \/ Ends(c) \/ HearsQuietEnd(c) \/ HearsOrigin(c) \/ HearsClose(c)
       \/ TunnelCloses(c)
       \/ ClientLeaves(c) \/ OriginDrops(c)
  \/ \E s \in Sessions : SessionDrops(s) \/ GoesAway(s) \/ WindsDown(s) \/ SessionCloses(s)
  \/ Close

InterceptSpec == InterceptInit /\ [][InterceptNext]_interceptVars

\* The event loop delivers what has happened; client and origin owe nothing.
InterceptFairness ==
  /\ \A c \in Calls : /\ WF_interceptVars(HearsOrigin(c)) /\ WF_interceptVars(HearsClose(c))
                      /\ WF_interceptVars(TunnelCloses(c))
  /\ \A s \in Sessions : WF_interceptVars(SessionCloses(s))
FairInterceptSpec == InterceptSpec /\ InterceptFairness

-----------------------------------------------------------------------------
(* Properties. *)

Exchanges ==
  [call : Calls, abandoned : BOOLEAN, pieces : 0..Chunks, kept : 0..Chunks, promoted : BOOLEAN]

\* The variables hold what the interceptor's hold.
InterceptTypeOK ==
  /\ [mode |-> mode, kind |-> kind, request |-> request] \in Starts
  /\ phase \in [Calls -> {"none", "body", "asking", "answering", "over"}]
  /\ client \in [Calls -> {"there", "gone"}] /\ reply \in [Calls -> {"open", "whole", "cut"}]
  /\ heard \in [Calls -> BOOLEAN] /\ status \in [Calls -> BOOLEAN]
  /\ got \in [Calls -> 0..Chunks] /\ paused \in [Calls -> BOOLEAN]
  /\ up \in [Calls -> {"none", "open", "ended", "dead", "lost", "quiet", "shut"}]
  /\ on \in [Calls -> Sessions \union {None}] /\ h2Upstream \in Sessions \union {None}
  /\ session \in [Sessions -> {"none", "open", "draining", "dying", "closed"}]
  /\ events \in Seq(Exchanges)
  /\ closing \in BOOLEAN /\ goings \in 0..Goings

\* What a decrypted exchange was recorded as (emit, abandon, originGone).  It is of a
\* request that was made, or that HTTP/1.1 refused as too large in its place, with every
\* piece that was read.  Not abandoned: the origin ended it with all its pieces, or cut it,
\* with an error over HTTP/1.1 or quietly over HTTP/2, after its header.  Abandoned: the
\* client had left and the request was dropped for it, or the origin's failure closed the
\* client's side, which over HTTP/1.1 happens only before the header.
EventsAreTrue ==
  \A i \in DOMAIN events :
    LET e == events[i]
        c == e.call IN
    Decrypted(c) =>
      /\ up[c] # "none" /\ e.pieces = got[c]
      /\ ~e.abandoned => \/ up[c] = "ended" /\ got[c] = Chunks
                         \/ up[c] = "lost" /\ kind[c] = "h1" /\ status[c]
                         \/ up[c] = "quiet" /\ kind[c] = "h2" /\ status[c]
      /\ e.abandoned => \/ up[c] \in {"shut", "quiet"} /\ client[c] = "gone"
                        \/ up[c] = "lost" /\ (kind[c] = "h2" \/ ~status[c])

\* A strict replay asks no origin what a recording may answer, over either protocol,
\* and a replay sends no request on of which it holds a part (forward, forwardH2).
StaysOffline ==
  \A c \in Calls : Decrypted(c) /\ up[c] = "open" =>
    /\ mode = "strict" => ~Local(c)
    /\ mode # "record" => ~request[c].big

\* A client that leaves, or an origin that fails, leaves its exchange in the trace:
\* "close" records what no "end" will, also when the origin is paused for a client
\* that will never drain.
LeftIsRecorded ==
  \A c \in Calls : up[c] # "none" /\ (client[c] = "gone" \/ up[c] = "dead") ~> Recorded(c)

\* A client is not left waiting for an origin whose failure comes as an error.  An HTTP/2
\* stream closed quietly before its header is not covered: forwardH2 hears no "close" of
\* it, and its client waits until it leaves.
NotLeftHanging ==
  \A c \in Calls : up[c] = "dead" ~> reply[c] # "open" \/ client[c] = "gone"

\* close() "destroys every tunnel and decrypted session" (intercept.ts).
ClosesAll == closing => \A s \in Sessions : session[s] # "open"

\* abandoned: "True when the client went away before the response finished"
\* (intercept.ts, NetExchange).
AbandonedMeansLeft ==
  \A i \in DOMAIN events : events[i].abandoned => client[events[i].call] = "gone"

\* A replay answers "from the recording, byte-for-byte" (README).
ReplaysWhatWasSeen == \A i \in DOMAIN events : events[i].promoted => events[i].kept = events[i].pieces
=============================================================================
