-------------------------- MODULE TlsInterceptProofs --------------------------
(***************************************************************************)
(* What holds of the intercepted route for any number of calls, sessions,  *)
(* pieces and failures (TlsIntercept.tla).                                 *)
(*                                                                         *)
(* What an exchange was recorded as is true when it is recorded, since     *)
(* CallRight says, of a call nothing was recorded of, what can still end   *)
(* it: by the time "close" finds an answer finished, the exchange is in    *)
(* the trace, its client has gone or its origin is lost.  And it stays     *)
(* true, because a call is recorded when it settles: its request is        *)
(* neither open nor about to fail, so no piece, no header and no other     *)
(* end comes after (Forwards).                                             *)
(***************************************************************************)
EXTENDS TlsIntercept, TLAPS

-----------------------------------------------------------------------------
(* The invariant. *)

\* EventsAreTrue, of one exchange.
Fits(c, abandoned, pieces) ==
  /\ up[c] # "none" /\ pieces = got[c]
  /\ ~abandoned => \/ up[c] = "ended" /\ got[c] = Chunks
                   \/ up[c] = "lost" /\ kind[c] = "h1" /\ status[c]
                   \/ up[c] = "quiet" /\ kind[c] = "h2" /\ status[c]
  /\ abandoned => \/ up[c] \in {"shut", "quiet"} /\ client[c] = "gone"
                  \/ up[c] = "lost" /\ (kind[c] = "h2" \/ ~status[c])

EventRight(e) == Decrypted(e.call) => Fits(e.call, e.abandoned, e.pieces)

\* No origin is asked before the call is decided on; what is under way is not recorded
\* yet, what its origin ended is; and an answer that is finished leaves "close" nothing
\* to record that is not true.
Settled(c) ==
  /\ (up[c] \in {"open", "dead"} \/ phase[c] \in {"asking", "answering"}) => ~Recorded(c)
  /\ up[c] = "ended" => Recorded(c)
  /\ up[c] = "lost" /\ kind[c] = "h1" /\ status[c] => Recorded(c)
  /\ phase[c] = "answering" => status[c]
  /\ reply[c] # "open" => Recorded(c) \/ client[c] = "gone" \/ up[c] \in {"none", "lost"}

CallRight(c) ==
  /\ phase[c] \in {"none", "body"} => up[c] = "none" /\ reply[c] = "open" /\ ~status[c]
  /\ up[c] = "quiet" => kind[c] = "h2"
  /\ Decrypted(c) => Settled(c)
  /\ Decrypted(c) /\ up[c] = "open" =>
       /\ mode = "strict" => ~ Local(c)
       /\ mode # "record" => ~ request[c].big

EventsRight == \A i \in DOMAIN events : EventRight(events[i])

Sound ==
  /\ EventsRight
  /\ \A c \in Calls : CallRight(c)

LEMMA SoundIsEnough == Sound => EventsAreTrue /\ StaysOffline
BY DEF Sound, EventsRight, EventRight, Fits, CallRight, EventsAreTrue, StaysOffline

\* What the invariant speaks of, at one call.
Same(d) ==
  /\ phase'[d] = phase[d] /\ client'[d] = client[d] /\ status'[d] = status[d]
  /\ reply'[d] = reply[d] /\ up'[d] = up[d] /\ got'[d] = got[d]

\* A step that records nothing, or one exchange.
Records(c) ==
  \/ events' = events
  \/ \E e \in Exchanges : e.call = c /\ events' = Append(events, e) /\ EventRight(e)'

\* Nothing true of the exchanges is undone.
Forwards ==
  /\ UNCHANGED fixed
  /\ \A d \in Calls :
       /\ client[d] = "gone" => client'[d] = "gone"
       /\ Decrypted(d) /\ Recorded(d) =>
            up'[d] = up[d] /\ got'[d] = got[d] /\ status'[d] = status[d]

LEMMA Appended ==
  ASSUME NEW S, NEW s \in Seq(S), NEW e \in S
  PROVE  /\ Append(s, e) \in Seq(S) /\ DOMAIN Append(s, e) = 1..Len(s) + 1
         /\ Len(s) \in Nat /\ DOMAIN s = 1..Len(s)
         /\ \A i \in DOMAIN s : Append(s, e)[i] = s[i] /\ i \in DOMAIN Append(s, e)
         /\ Append(s, e)[Len(s) + 1] = e
OBVIOUS

LEMMA EventStaysRight ==
  ASSUME Forwards, NEW e \in Exchanges, EventRight(e), Recorded(e.call)
  PROVE  EventRight(e)'
BY DEF Forwards, fixed, EventRight, Fits, Decrypted, Exchanges

LEMMA EventsStayRight ==
  ASSUME InterceptTypeOK, Sound, Forwards, NEW c \in Calls, Records(c)
  PROVE  /\ EventsRight'
         /\ \A d \in Calls : Recorded(d) => Recorded(d)'
         /\ \A d \in Calls \ {c} : Recorded(d)' => Recorded(d)
<1>1. events \in Seq(Exchanges) /\ EventsRight
  BY DEF InterceptTypeOK, Sound
<1>2. \A i \in DOMAIN events : events[i] \in Exchanges
  BY <1>1
<1>3. ASSUME NEW i \in DOMAIN events
      PROVE  \E f \in Exchanges : f = events[i] /\ EventRight(f)'
  <2>1. PICK f \in Exchanges : f = events[i]
    BY <1>2, <1>3
  <2>2. Recorded(f.call) /\ EventRight(f)
    BY <1>1, <1>3, <2>1 DEF EventsRight, Recorded
  <2> QED
    BY <2>1, <2>2, EventStaysRight
<1>4. CASE events' = events
  <2>1. \A d \in Calls : Recorded(d)' <=> Recorded(d)
    BY <1>4 DEF Recorded
  <2>2. ASSUME NEW i \in DOMAIN events PROVE EventRight(events[i])'
    <3>1. PICK f \in Exchanges : f = events[i] /\ EventRight(f)'
      BY <1>3
    <3> QED
      BY <1>4, <3>1 DEF EventRight, Fits, Decrypted
  <2> QED
    BY <1>4, <2>1, <2>2 DEF EventsRight
<1>5. ASSUME NEW e \in Exchanges, e.call = c, events' = Append(events, e), EventRight(e)'
      PROVE  /\ EventsRight'
             /\ \A d \in Calls : Recorded(d) => Recorded(d)'
             /\ \A d \in Calls \ {c} : Recorded(d)' => Recorded(d)
  <2>1. /\ DOMAIN events' = 1..Len(events) + 1 /\ Len(events) \in Nat
        /\ DOMAIN events = 1..Len(events)
        /\ \A i \in DOMAIN events : events'[i] = events[i] /\ i \in DOMAIN events'
        /\ events'[Len(events) + 1] = e
    BY ONLY <1>1, <1>5, Appended
  <2>2. \A i \in DOMAIN events' : i \in DOMAIN events \/ i = Len(events) + 1
    BY ONLY <2>1
  <2>3. ASSUME NEW i \in DOMAIN events' PROVE EventRight(events[i])'
    <3>1. PICK f \in Exchanges : f = events'[i] /\ EventRight(f)'
      <4>1. CASE i \in DOMAIN events
        <5>1. PICK f \in Exchanges : f = events[i] /\ EventRight(f)'
          BY <1>3, <4>1
        <5> QED
          BY <2>1, <4>1, <5>1
      <4>2. CASE i = Len(events) + 1
        BY <1>5, <2>1, <4>2
      <4> QED
        BY <2>2, <4>1, <4>2
    <3> QED
      BY <3>1 DEF EventRight, Fits, Decrypted
  <2>4. \A d \in Calls : Recorded(d) => Recorded(d)'
    BY <2>1 DEF Recorded
  <2>5. \A d \in Calls \ {c} : Recorded(d)' => Recorded(d)
    BY <1>5, <2>1, <2>2 DEF Recorded
  <2> QED
    BY <2>3, <2>4, <2>5 DEF EventsRight
<1> QED
  BY <1>4, <1>5 DEF Records

\* A step of one exchange.
LEMMA OneMoves ==
  ASSUME InterceptTypeOK, Sound, Forwards, NEW c \in Calls, Records(c), CallRight(c)',
         \A d \in Calls \ {c} : Same(d)
  PROVE  Sound'
<1>1. /\ EventsRight'
      /\ \A d \in Calls \ {c} : Recorded(d) <=> Recorded(d)'
  BY EventsStayRight
<1>2. \A d \in Calls : CallRight(d)'
  <2> SUFFICES ASSUME NEW d \in Calls, d # c PROVE CallRight(d)'
    OBVIOUS
  <2>1. CallRight(d) /\ Same(d) /\ (Recorded(d) <=> Recorded(d)')
    BY <1>1 DEF Sound
  <2>2. UNCHANGED fixed
    BY DEF Forwards
  <2> QED
    BY <2>1, <2>2 DEF CallRight, Settled, Same, fixed, Decrypted, Local
<1> QED
  BY <1>1, <1>2 DEF Sound

\* Connections fail and clients leave, any number of them at once, or none; pieces come
\* of what is not recorded yet.
Fail ==
  /\ UNCHANGED <<fixed, phase, reply, status, events>>
  /\ \A d \in Calls :
       /\ client'[d] = client[d] \/ client'[d] = "gone"
       /\ \/ up'[d] = up[d]
          \/ up[d] = "open" /\ (up'[d] = "dead" \/ (kind[d] = "h2" /\ up'[d] = "quiet"))
       /\ got'[d] = got[d] \/ ~(Decrypted(d) /\ Recorded(d))

LEMMA ManyFail ==
  ASSUME InterceptTypeOK, Sound, Fail
  PROVE  Sound'
<1>1. Forwards
  <2> SUFFICES ASSUME NEW d \in Calls, Decrypted(d), Recorded(d)
               PROVE  up'[d] = up[d] /\ got'[d] = got[d] /\ status'[d] = status[d]
    BY DEF Fail, Forwards
  <2>1. up[d] # "open"
    BY DEF Sound, CallRight, Settled
  <2> QED
    BY <2>1 DEF Fail
<1>2. EventsRight'
  <2>1. CASE Calls = {}
    <3>1. \A i \in DOMAIN events : events[i] \in Exchanges
      BY DEF InterceptTypeOK
    <3>2. DOMAIN events = {}
      BY <2>1, <3>1 DEF Exchanges
    <3> QED
      BY <3>2 DEF Fail, EventsRight
  <2>2. CASE Calls # {}
    <3>1. PICK c \in Calls : TRUE
      BY <2>2
    <3> QED
      BY <1>1, <3>1, EventsStayRight DEF Records, Fail
  <2> QED
    BY <2>1, <2>2
<1>3. \A d \in Calls : CallRight(d)'
  <2> TAKE d \in Calls
  <2>1. CallRight(d)
    BY DEF Sound
  <2>2. Recorded(d) <=> Recorded(d)'
    BY DEF Fail, Recorded
  <2>3. /\ UNCHANGED fixed
        /\ phase'[d] = phase[d] /\ reply'[d] = reply[d] /\ status'[d] = status[d]
        /\ client'[d] = client[d] \/ client'[d] = "gone"
        /\ \/ up'[d] = up[d]
           \/ up[d] = "open" /\ (up'[d] = "dead" \/ (kind[d] = "h2" /\ up'[d] = "quiet"))
    BY DEF Fail
  <2> QED
    BY <2>1, <2>2, <2>3 DEF CallRight, Settled, fixed, Decrypted, Local
<1> QED
  BY <1>2, <1>3 DEF Sound

-----------------------------------------------------------------------------
(* What is recorded. *)

LEMMA Begins ==
  ASSUME InterceptTypeOK
  PROVE  /\ mode \in {"record", "strict", "hybrid"}
         /\ kind \in [Calls -> {"h1", "h2", "tunnel"}]
         /\ request \in [Calls -> [model : BOOLEAN, big : BOOLEAN]]
<1> DEFINE start == [mode |-> mode, kind |-> kind, request |-> request]
<1>1. start \in [mode : {"record", "strict", "hybrid"},
                 kind : [Calls -> {"h1", "h2", "tunnel"}],
                 request : [Calls -> [model : BOOLEAN, big : BOOLEAN]]]
  BY InterceptAssumption DEF InterceptTypeOK
<1>2. start.mode = mode /\ start.kind = kind /\ start.request = request
  OBVIOUS
<1> QED
  BY <1>1, <1>2

LEMMA AnExchange ==
  ASSUME InterceptTypeOK, NEW c \in Calls, NEW abandoned \in BOOLEAN, NEW pieces \in 0..Chunks
  PROVE  /\ Exchange(c, abandoned, pieces) \in Exchanges
         /\ Exchange(c, abandoned, pieces).call = c
         /\ Exchange(c, abandoned, pieces).abandoned = abandoned
         /\ Exchange(c, abandoned, pieces).pieces = pieces
<1> DEFINE kept == IF pieces < Limit THEN pieces ELSE Limit
           promoted == Promoted(c)
<1>1. kept \in 0..Chunks
  BY InterceptAssumption
<1>2. promoted \in BOOLEAN
  BY DEF Promoted
<1>3. Exchange(c, abandoned, pieces) =
        [call |-> c, abandoned |-> abandoned, pieces |-> pieces, kept |-> kept,
         promoted |-> promoted]
  BY DEF Exchange
<1> HIDE DEF kept, promoted
<1> QED
  BY <1>1, <1>2, <1>3 DEF Exchanges

\* emit: once it has been called, the exchange is recorded, by this call or an earlier.
LEMMA EmitRecords ==
  ASSUME InterceptTypeOK, NEW c \in Calls, NEW abandoned \in BOOLEAN, NEW pieces \in 0..Chunks,
         Emit(c, abandoned, pieces),
         ~Recorded(c) /\ Decrypted(c)' => Fits(c, abandoned, pieces)'
  PROVE  Records(c) /\ Recorded(c)' /\ events' \in Seq(Exchanges)
<1>1. events \in Seq(Exchanges)
  BY DEF InterceptTypeOK
<1>2. CASE Recorded(c)
  BY <1>1, <1>2 DEF Emit, Records, Recorded
<1>3. CASE ~ Recorded(c)
  <2>1. PICK e \in Exchanges : /\ e.call = c /\ e.abandoned = abandoned /\ e.pieces = pieces
                               /\ events' = Append(events, e)
    BY <1>3, AnExchange DEF Emit
  <2>2. EventRight(e)'
    <3>1. Decrypted(c)' => Fits(c, abandoned, pieces)'
      BY <1>3
    <3> QED
      BY <2>1, <3>1 DEF EventRight, Fits, Decrypted
  <2>3. Len(events) + 1 \in DOMAIN events' /\ events'[Len(events) + 1] = e
    BY <1>1, <2>1, Appended
  <2>4. Recorded(c)'
    BY <2>1, <2>3 DEF Recorded
  <2>5. events' \in Seq(Exchanges)
    BY <1>1, <2>1, Appended
  <2> QED
    BY <1>3, <2>1, <2>2, <2>4, <2>5 DEF Records
<1> QED
  BY <1>2, <1>3

LEMMA Edited ==
  ASSUME NEW S, NEW V, NEW f \in [S -> V], NEW x \in S, NEW v \in V
  PROVE  /\ [f EXCEPT ![x] = v] \in [S -> V]
         /\ [f EXCEPT ![x] = v][x] = v
         /\ \A y \in S \ {x} : [f EXCEPT ![x] = v][y] = f[y]
OBVIOUS

\* Nothing is recorded of a request that was not made.
LEMMA NotYet ==
  ASSUME InterceptTypeOK, Sound, NEW c \in Calls, Decrypted(c), up[c] = "none"
  PROVE  ~Recorded(c)
BY DEF Sound, EventsRight, EventRight, Fits, Recorded

\* abandon(): whatever has happened, the call is over and recorded.
LEMMA AbandonEnds ==
  ASSUME InterceptTypeOK, Sound, NEW c \in Calls, NEW pieces \in 0..Chunks, Abandon(c, pieces),
         Decrypted(c), up[c] # "none",
         client[c] = "gone" \/ reply[c] # "open",
         pieces = got'[c], Recorded(c) => got'[c] = got[c],
         \A d \in Calls \ {c} : got'[d] = got[d],
         UNCHANGED <<fixed, client, reply, status>>
  PROVE  /\ Records(c) /\ CallRight(c)' /\ Forwards /\ events' \in Seq(Exchanges)
         /\ \A d \in Calls \ {c} : Same(d)
         /\ phase' \in [Calls -> {"none", "body", "asking", "answering", "over"}]
         /\ up' \in [Calls -> {"none", "open", "ended", "dead", "lost", "quiet", "shut"}]
<1>1. /\ up' \in [Calls -> {"none", "open", "ended", "dead", "lost", "quiet", "shut"}]
      /\ up'[c] = IF up[c] \in {"open", "dead"} THEN "shut" ELSE up[c]
      /\ up[c] \in {"open", "ended", "dead", "lost", "quiet", "shut"}
      /\ \A d \in Calls \ {c} : up'[d] = up[d]
  BY DEF Abandon, InterceptTypeOK
<1>2. /\ phase' \in [Calls -> {"none", "body", "asking", "answering", "over"}]
      /\ phase'[c] = "over" /\ \A d \in Calls \ {c} : phase'[d] = phase[d]
  BY DEF Abandon, InterceptTypeOK
<1>3. Settled(c) /\ CallRight(c)
  BY DEF Sound, CallRight
<1>4. ASSUME ~Recorded(c) PROVE Fits(c, TRUE, pieces)'
  <2>1. kind[c] = "h2" \/ ~status[c] \/ up[c] # "lost"
    BY <1>3, <1>4, Begins DEF Settled, Decrypted
  <2>2. up[c] = "lost" \/ client[c] = "gone"
    BY <1>3, <1>4 DEF Settled
  <2>3. up[c] # "ended"
    BY <1>3, <1>4 DEF Settled
  <2> QED
    BY <1>1, <2>1, <2>2, <2>3 DEF Fits, fixed
<1>5. Records(c) /\ Recorded(c)' /\ events' \in Seq(Exchanges)
  BY <1>4, EmitRecords DEF Abandon
<1>6. CallRight(c)'
  BY <1>1, <1>2, <1>3, <1>5 DEF CallRight, Settled, fixed
<1>7. Forwards
  <2>1. Recorded(c) => up'[c] = up[c]
    BY <1>1, <1>3 DEF Settled
  <2> QED
    BY <1>1, <2>1 DEF Forwards
<1>8. \A d \in Calls \ {c} : Same(d)
  BY <1>1, <1>2 DEF Same
<1> QED
  BY <1>1, <1>2, <1>5, <1>6, <1>7, <1>8

-----------------------------------------------------------------------------
(* The request. *)

LEMMA ForwardAsks ==
  ASSUME InterceptTypeOK, NEW c \in Calls, Forward(c)
  PROVE  /\ phase' \in [Calls -> {"none", "body", "asking", "answering", "over"}]
         /\ up' \in [Calls -> {"none", "open", "ended", "dead", "lost", "quiet", "shut"}]
         /\ on' \in [Calls -> Sessions \union {None}] /\ h2Upstream' \in Sessions \union {None}
         /\ session' \in [Sessions -> {"none", "open", "draining", "dying", "closed"}]
         /\ phase'[c] = "asking" /\ up'[c] = "open"
         /\ \A d \in Calls \ {c} : phase'[d] = phase[d] /\ up'[d] = up[d]
<1>1. /\ phase' \in [Calls -> {"none", "body", "asking", "answering", "over"}]
      /\ up' \in [Calls -> {"none", "open", "ended", "dead", "lost", "quiet", "shut"}]
      /\ phase'[c] = "asking" /\ up'[c] = "open"
      /\ \A d \in Calls \ {c} : phase'[d] = phase[d] /\ up'[d] = up[d]
  BY DEF InterceptTypeOK, Forward
<1>2. /\ on' \in [Calls -> Sessions \union {None}] /\ h2Upstream' \in Sessions \union {None}
      /\ session' \in [Sessions -> {"none", "open", "draining", "dying", "closed"}]
  <2>1. CASE UNCHANGED <<on, session, h2Upstream>>
    BY <2>1 DEF InterceptTypeOK
  <2>2. CASE Usable(h2Upstream) /\ UpstreamH2(c)
    BY <2>2 DEF InterceptTypeOK, UpstreamH2
  <2>3. CASE ~ Usable(h2Upstream) /\ UpstreamH2(c)
    <3>1. h2Upstream' \in Sessions
      BY <2>3 DEF UpstreamH2, Fresh
    <3>2. on' \in [Calls -> Sessions \union {None}]
      BY <2>3, <3>1 DEF InterceptTypeOK, UpstreamH2
    <3>3. session' \in [Sessions -> {"none", "open", "draining", "dying", "closed"}]
      BY <2>3, <3>1 DEF InterceptTypeOK, UpstreamH2
    <3> QED
      BY <3>1, <3>2, <3>3
  <2> QED
    BY <2>1, <2>2, <2>3 DEF Forward
<1> QED
  BY <1>1, <1>2

LEMMA ArriveKeeps ==
  ASSUME InterceptTypeOK, Sound, NEW c \in Calls, Arrive(c)
  PROVE  InterceptTypeOK' /\ Sound'
<1>1. /\ phase[c] = "none" /\ up[c] = "none"
      /\ UNCHANGED <<fixed, client, reply, heard, status, got, paused, events, closing, goings>>
  BY DEF Arrive, Sound, CallRight
<1>2. CASE Consults(c)
  <2>1. /\ phase' \in [Calls -> {"none", "body", "asking", "answering", "over"}]
        /\ phase'[c] = "body" /\ \A d \in Calls \ {c} : phase'[d] = phase[d]
        /\ UNCHANGED <<up, on, session, h2Upstream>>
    BY <1>2 DEF Arrive, InterceptTypeOK
  <2>2. InterceptTypeOK'
    BY ONLY InterceptTypeOK, <1>1, <2>1 DEF InterceptTypeOK, fixed, Exchanges
  <2>3. CallRight(c)'
    <3>1. CallRight(c)
      BY DEF Sound
    <3> QED
      BY <1>1, <2>1, <3>1 DEF CallRight, Settled, fixed, Decrypted, Recorded
  <2>4. Forwards /\ Records(c) /\ \A d \in Calls \ {c} : Same(d)
    BY <1>1, <2>1 DEF Forwards, Records, Same
  <2> QED
    BY <2>2, <2>3, <2>4, OneMoves
<1>3. CASE ~ Consults(c)
  <2>1. Forward(c)
    BY <1>3 DEF Arrive
  <2>2. /\ phase' \in [Calls -> {"none", "body", "asking", "answering", "over"}]
        /\ up' \in [Calls -> {"none", "open", "ended", "dead", "lost", "quiet", "shut"}]
        /\ on' \in [Calls -> Sessions \union {None}] /\ h2Upstream' \in Sessions \union {None}
        /\ session' \in [Sessions -> {"none", "open", "draining", "dying", "closed"}]
        /\ phase'[c] = "asking" /\ up'[c] = "open"
        /\ \A d \in Calls \ {c} : phase'[d] = phase[d] /\ up'[d] = up[d]
    BY <2>1, ForwardAsks
  <2>3. InterceptTypeOK'
    BY ONLY InterceptTypeOK, <1>1, <2>2 DEF InterceptTypeOK, fixed, Exchanges
  <2>4. CallRight(c)'
    <3>1. mode = "record" \/ ~ Decrypted(c)
      BY <1>3 DEF Consults
    <3>2. reply[c] = "open" /\ (Decrypted(c) => ~Recorded(c))
      BY <1>1, NotYet DEF Sound, CallRight
    <3> QED
      BY <1>1, <2>2, <3>1, <3>2 DEF CallRight, Settled, fixed, Decrypted, Recorded
  <2>5. Forwards /\ Records(c) /\ \A d \in Calls \ {c} : Same(d)
    BY <1>1, <2>2, NotYet DEF Forwards, Records, Same
  <2> QED
    BY <2>3, <2>4, <2>5, OneMoves
<1> QED
  BY <1>2, <1>3

LEMMA DecideKeeps ==
  ASSUME InterceptTypeOK, Sound, NEW c \in Calls, NEW here \in BOOLEAN, Decide(c, here)
  PROVE  InterceptTypeOK' /\ Sound'
<1>1. /\ phase[c] = "body" /\ client[c] = "there" /\ up[c] = "none" /\ reply[c] = "open"
      /\ ~status[c]
      /\ IF here THEN Serves(c) ELSE GoesLive(c)
      /\ UNCHANGED <<fixed, client, heard, status, got, paused, events, closing, goings>>
  BY DEF Decide, Sound, CallRight
<1>2. CASE here \/ request[c].big
  <2> DEFINE end == IF here THEN "whole" ELSE "cut"
  <2>1. /\ phase' = [phase EXCEPT ![c] = "over"] /\ reply' = [reply EXCEPT ![c] = end]
        /\ up' = IF ~ here /\ kind[c] = "h1" THEN [up EXCEPT ![c] = "lost"] ELSE up
        /\ UNCHANGED <<on, session, h2Upstream>>
    BY <1>2 DEF Decide
  <2>2. /\ phase' \in [Calls -> {"none", "body", "asking", "answering", "over"}]
        /\ phase'[c] = "over" /\ \A d \in Calls \ {c} : phase'[d] = phase[d]
        /\ reply' \in [Calls -> {"open", "whole", "cut"}]
        /\ \A d \in Calls \ {c} : reply'[d] = reply[d]
    BY <2>1 DEF InterceptTypeOK
  <2>3. /\ up' \in [Calls -> {"none", "open", "ended", "dead", "lost", "quiet", "shut"}]
        /\ up'[c] \in {"none", "lost"} /\ \A d \in Calls \ {c} : up'[d] = up[d]
    BY <1>1, <2>1 DEF InterceptTypeOK
  <2> HIDE DEF end
  <2>4. InterceptTypeOK'
    BY ONLY InterceptTypeOK, <1>1, <2>1, <2>2, <2>3 DEF InterceptTypeOK, fixed, Exchanges
  <2>5. CallRight(c)'
    BY <1>1, <2>2, <2>3 DEF CallRight, Settled
  <2>6. Forwards /\ Records(c) /\ \A d \in Calls \ {c} : Same(d)
    BY <1>1, <2>2, <2>3, NotYet DEF Forwards, Records, Same
  <2> QED
    BY <2>4, <2>5, <2>6, OneMoves
<1>3. CASE ~ (here \/ request[c].big)
  <2>1. Forward(c) /\ UNCHANGED reply
    BY <1>3 DEF Decide
  <2>2. /\ phase' \in [Calls -> {"none", "body", "asking", "answering", "over"}]
        /\ up' \in [Calls -> {"none", "open", "ended", "dead", "lost", "quiet", "shut"}]
        /\ on' \in [Calls -> Sessions \union {None}] /\ h2Upstream' \in Sessions \union {None}
        /\ session' \in [Sessions -> {"none", "open", "draining", "dying", "closed"}]
        /\ phase'[c] = "asking" /\ up'[c] = "open"
        /\ \A d \in Calls \ {c} : phase'[d] = phase[d] /\ up'[d] = up[d]
    BY <2>1, ForwardAsks
  <2>3. InterceptTypeOK'
    BY ONLY InterceptTypeOK, <1>1, <2>1, <2>2 DEF InterceptTypeOK, fixed, Exchanges
  <2>4. CallRight(c)'
    <3>1. ~ request[c].big /\ (mode = "strict" => ~ Local(c))
      BY <1>1, <1>3 DEF GoesLive
    <3>2. Decrypted(c) => ~Recorded(c)
      BY <1>1, NotYet
    <3> QED
      BY <1>1, <2>1, <2>2, <3>1, <3>2
         DEF CallRight, Settled, fixed, Decrypted, Local, Recorded
  <2>5. Forwards /\ Records(c) /\ \A d \in Calls \ {c} : Same(d)
    BY <1>1, <2>1, <2>2, NotYet DEF Forwards, Records, Same
  <2> QED
    BY <2>3, <2>4, <2>5, OneMoves
<1> QED
  BY <1>2, <1>3

LEMMA BodyBreaksOffKeeps ==
  ASSUME InterceptTypeOK, Sound, NEW c \in Calls, BodyBreaksOff(c)
  PROVE  InterceptTypeOK' /\ Sound'
<1>1. /\ up[c] = "none" /\ client[c] = "gone"
      /\ UNCHANGED <<fixed, client, heard, status, got, paused, up, on, session, h2Upstream,
                     events, closing, goings>>
  BY DEF BodyBreaksOff, Sound, CallRight
<1>2. /\ phase' \in [Calls -> {"none", "body", "asking", "answering", "over"}]
      /\ phase'[c] = "over" /\ \A d \in Calls \ {c} : phase'[d] = phase[d]
      /\ reply' \in [Calls -> {"open", "whole", "cut"}]
      /\ \A d \in Calls \ {c} : reply'[d] = reply[d]
  BY DEF BodyBreaksOff, InterceptTypeOK
<1>3. InterceptTypeOK'
  BY ONLY InterceptTypeOK, <1>1, <1>2 DEF InterceptTypeOK, fixed, Exchanges
<1>4. CallRight(c)'
  BY <1>1, <1>2 DEF CallRight, Settled
<1>5. Forwards /\ Records(c) /\ \A d \in Calls \ {c} : Same(d)
  BY <1>1, <1>2 DEF Forwards, Records, Same
<1> QED
  BY <1>3, <1>4, <1>5, OneMoves

-----------------------------------------------------------------------------
(* The response. *)

LEMMA AnswersKeeps ==
  ASSUME InterceptTypeOK, Sound, NEW c \in Calls, Answers(c)
  PROVE  InterceptTypeOK' /\ Sound'
<1>1. /\ phase[c] = "asking" /\ up[c] = "open" /\ (Decrypted(c) => ~Recorded(c))
      /\ UNCHANGED <<fixed, client, reply, heard, got, paused, up, on, session, h2Upstream,
                     events, closing, goings>>
  BY DEF Answers, Sound, CallRight, Settled
<1>2. /\ phase' \in [Calls -> {"none", "body", "asking", "answering", "over"}]
      /\ phase'[c] = "answering" /\ \A d \in Calls \ {c} : phase'[d] = phase[d]
      /\ status' \in [Calls -> BOOLEAN]
      /\ status'[c] /\ \A d \in Calls \ {c} : status'[d] = status[d]
  BY DEF Answers, InterceptTypeOK
<1>3. InterceptTypeOK'
  BY ONLY InterceptTypeOK, <1>1, <1>2 DEF InterceptTypeOK, fixed, Exchanges
<1>4. CallRight(c)'
  <2>1. CallRight(c)
    BY DEF Sound
  <2> QED
    BY <1>1, <1>2, <2>1 DEF CallRight, Settled, fixed, Decrypted, Recorded, Local
<1>5. Forwards /\ Records(c) /\ \A d \in Calls \ {c} : Same(d)
  BY <1>1, <1>2 DEF Forwards, Records, Same
<1> QED
  BY <1>3, <1>4, <1>5, OneMoves

LEMMA AnswersNobodyKeeps ==
  ASSUME InterceptTypeOK, Sound, NEW c \in Calls, AnswersNobody(c)
  PROVE  InterceptTypeOK' /\ Sound'
<1>1. /\ up[c] = "open" /\ client[c] = "gone" /\ Decrypted(c) /\ Abandon(c, 0) /\ got[c] = 0
      /\ UNCHANGED <<fixed, client, reply, heard, status, got, paused, on, session, h2Upstream,
                     closing, goings>>
  BY DEF AnswersNobody
<1>2. 0 \in 0..Chunks
  BY InterceptAssumption
<1>3. /\ Records(c) /\ CallRight(c)' /\ Forwards /\ events' \in Seq(Exchanges)
      /\ \A d \in Calls \ {c} : Same(d)
      /\ phase' \in [Calls -> {"none", "body", "asking", "answering", "over"}]
      /\ up' \in [Calls -> {"none", "open", "ended", "dead", "lost", "quiet", "shut"}]
  BY <1>1, <1>2, AbandonEnds
<1>4. InterceptTypeOK'
  BY ONLY InterceptTypeOK, <1>1, <1>3 DEF InterceptTypeOK, fixed, Exchanges
<1> QED
  BY <1>3, <1>4, OneMoves

LEMMA PieceKeeps ==
  ASSUME InterceptTypeOK, Sound, NEW c \in Calls, NEW full \in BOOLEAN, Piece(c, full)
  PROVE  InterceptTypeOK' /\ Sound'
<1>1. /\ phase[c] = "answering" /\ up[c] # "none" /\ (Decrypted(c) => ~Recorded(c))
      /\ UNCHANGED <<fixed, client, reply, heard, status, on, session, h2Upstream, closing,
                     goings>>
  BY DEF Piece, Sound, CallRight, Settled
<1>2. /\ got' \in [Calls -> 0..Chunks] /\ got'[c] \in 0..Chunks
      /\ \A d \in Calls \ {c} : got'[d] = got[d]
  <2>1. got[c] \in 0..Chunks /\ got[c] < Chunks /\ Chunks \in Nat
        /\ got' = [got EXCEPT ![c] = got[c] + 1]
    BY InterceptAssumption DEF Piece, InterceptTypeOK
  <2>2. got[c] + 1 \in 0..Chunks
    BY <2>1
  <2> QED
    BY <2>1, <2>2, Edited DEF InterceptTypeOK
<1>3. CASE client[c] = "gone" /\ Decrypted(c)
  <2>1. Abandon(c, got'[c]) /\ UNCHANGED paused
    BY <1>3 DEF Piece
  <2>2. PICK pieces \in 0..Chunks : pieces = got'[c] /\ Abandon(c, pieces)
    BY <1>2, <2>1
  <2>3. /\ Records(c) /\ CallRight(c)' /\ Forwards /\ events' \in Seq(Exchanges)
        /\ \A d \in Calls \ {c} : Same(d)
        /\ phase' \in [Calls -> {"none", "body", "asking", "answering", "over"}]
        /\ up' \in [Calls -> {"none", "open", "ended", "dead", "lost", "quiet", "shut"}]
    BY <1>1, <1>2, <1>3, <2>2, AbandonEnds
  <2>4. InterceptTypeOK'
    BY ONLY InterceptTypeOK, <1>1, <1>2, <2>1, <2>3 DEF InterceptTypeOK, fixed, Exchanges
  <2> QED
    BY <2>3, <2>4, OneMoves
<1>4. CASE ~ (client[c] = "gone" /\ Decrypted(c))
  <2>1. paused' = [paused EXCEPT ![c] = full] /\ UNCHANGED <<events, up, phase>>
    BY <1>4 DEF Piece
  <2>2. paused' \in [Calls -> BOOLEAN]
    BY <2>1 DEF InterceptTypeOK
  <2>3. InterceptTypeOK'
    BY ONLY InterceptTypeOK, <1>1, <1>2, <2>1, <2>2 DEF InterceptTypeOK, fixed, Exchanges
  <2>4. Fail
    BY <1>1, <1>2, <2>1 DEF Fail
  <2>5. Sound'
    BY <2>4, ManyFail
  <2> QED
    BY <2>3, <2>5
<1> QED
  BY <1>3, <1>4

LEMMA DrainsKeeps ==
  ASSUME InterceptTypeOK, Sound, NEW c \in Calls, Drains(c)
  PROVE  InterceptTypeOK' /\ Sound'
<1>1. UNCHANGED <<fixed, phase, client, reply, heard, status, got, up, on, session, h2Upstream,
                  events, closing, goings>>
  BY DEF Drains
<1>2. paused' \in [Calls -> BOOLEAN]
  BY DEF Drains, InterceptTypeOK
<1>3. InterceptTypeOK'
  BY ONLY InterceptTypeOK, <1>1, <1>2 DEF InterceptTypeOK, fixed, Exchanges
<1>4. Fail
  BY <1>1 DEF Fail
<1>5. Sound'
  BY <1>4, ManyFail
<1> QED
  BY <1>3, <1>5

LEMMA EndsKeeps ==
  ASSUME InterceptTypeOK, Sound, NEW c \in Calls, Ends(c)
  PROVE  InterceptTypeOK' /\ Sound'
<1>1. /\ up[c] = "open" /\ got[c] = Chunks /\ RecordsEnd(c)
      /\ (Decrypted(c) => ~Recorded(c))
      /\ UNCHANGED <<fixed, client, heard, status, got, paused, on, session, h2Upstream,
                     closing, goings>>
  BY DEF Ends, Sound, CallRight, Settled
<1>2. /\ phase' \in [Calls -> {"none", "body", "asking", "answering", "over"}]
      /\ phase'[c] = "over" /\ \A d \in Calls \ {c} : phase'[d] = phase[d]
  BY DEF Ends, InterceptTypeOK
<1>3. /\ up' \in [Calls -> {"none", "open", "ended", "dead", "lost", "quiet", "shut"}]
      /\ up'[c] = "ended" /\ \A d \in Calls \ {c} : up'[d] = up[d]
  BY DEF Ends, InterceptTypeOK
<1>4. /\ reply' \in [Calls -> {"open", "whole", "cut"}]
      /\ \A d \in Calls \ {c} : reply'[d] = reply[d]
  BY DEF Ends, InterceptTypeOK
<1>5. Records(c) /\ (Decrypted(c) => Recorded(c)') /\ events' \in Seq(Exchanges)
  <2>1. CASE Decrypted(c)
    <3>1. PICK pieces \in 0..Chunks : pieces = got[c] /\ Emit(c, FALSE, pieces)
      BY <1>1, <2>1 DEF RecordsEnd, InterceptTypeOK
    <3>2. Fits(c, FALSE, pieces)'
      BY <1>1, <1>3, <3>1 DEF Fits
    <3> QED
      BY <1>1, <3>1, <3>2, EmitRecords
  <2>2. CASE ~ Decrypted(c)
    BY <1>1, <2>2 DEF RecordsEnd, Records, InterceptTypeOK
  <2> QED
    BY <2>1, <2>2
<1>6. InterceptTypeOK'
  BY ONLY InterceptTypeOK, <1>1, <1>2, <1>3, <1>4, <1>5 DEF InterceptTypeOK, fixed, Exchanges
<1>7. CallRight(c)'
  BY <1>1, <1>2, <1>3, <1>5 DEF CallRight, Settled, fixed, Decrypted
<1>8. Forwards /\ \A d \in Calls \ {c} : Same(d)
  BY <1>1, <1>2, <1>3, <1>4 DEF Forwards, Same
<1> QED
  BY <1>5, <1>6, <1>7, <1>8, OneMoves

LEMMA HearsQuietEndKeeps ==
  ASSUME InterceptTypeOK, Sound, NEW c \in Calls, HearsQuietEnd(c)
  PROVE  InterceptTypeOK' /\ Sound'
<1>1. /\ up[c] = "quiet" /\ kind[c] = "h2" /\ Decrypted(c) /\ status[c] /\ ~Recorded(c)
      /\ UNCHANGED <<fixed, client, heard, status, got, paused, up, on, session, h2Upstream,
                     closing, goings>>
  BY DEF HearsQuietEnd, Sound, CallRight, Settled, Decrypted
<1>2. /\ phase' \in [Calls -> {"none", "body", "asking", "answering", "over"}]
      /\ phase'[c] = "over" /\ \A d \in Calls \ {c} : phase'[d] = phase[d]
      /\ reply' \in [Calls -> {"open", "whole", "cut"}]
      /\ \A d \in Calls \ {c} : reply'[d] = reply[d]
  BY DEF HearsQuietEnd, InterceptTypeOK
<1>3. Records(c) /\ Recorded(c)' /\ events' \in Seq(Exchanges)
  <2>1. PICK pieces \in 0..Chunks : pieces = got[c] /\ Emit(c, FALSE, pieces)
    BY DEF HearsQuietEnd, InterceptTypeOK
  <2>2. Fits(c, FALSE, pieces)'
    BY <1>1, <2>1 DEF Fits, fixed
  <2> QED
    BY <2>1, <2>2, EmitRecords
<1>4. InterceptTypeOK'
  BY ONLY InterceptTypeOK, <1>1, <1>2, <1>3 DEF InterceptTypeOK, fixed, Exchanges
<1>5. CallRight(c)'
  BY <1>1, <1>2, <1>3 DEF CallRight, Settled, fixed, Decrypted
<1>6. Forwards /\ \A d \in Calls \ {c} : Same(d)
  BY <1>1, <1>2 DEF Forwards, Same
<1> QED
  BY <1>3, <1>4, <1>5, <1>6, OneMoves

LEMMA HearsOriginKeeps ==
  ASSUME InterceptTypeOK, Sound, NEW c \in Calls, HearsOrigin(c)
  PROVE  InterceptTypeOK' /\ Sound'
<1>1. /\ Decrypted(c) /\ up[c] = "dead" /\ OriginGone(c) /\ ~Recorded(c)
      /\ UNCHANGED <<fixed, client, heard, status, got, paused, on, session, h2Upstream,
                     closing, goings>>
  BY DEF HearsOrigin, Sound, CallRight, Settled
<1>2. CASE client[c] = "gone" /\ kind[c] = "h1"
  <2>1. UNCHANGED reply /\ Abandon(c, got[c])
    BY <1>1, <1>2 DEF OriginGone
  <2>2. PICK pieces \in 0..Chunks : pieces = got[c] /\ Abandon(c, pieces)
    BY <2>1 DEF InterceptTypeOK
  <2>3. /\ Records(c) /\ CallRight(c)' /\ Forwards /\ events' \in Seq(Exchanges)
        /\ \A d \in Calls \ {c} : Same(d)
        /\ phase' \in [Calls -> {"none", "body", "asking", "answering", "over"}]
        /\ up' \in [Calls -> {"none", "open", "ended", "dead", "lost", "quiet", "shut"}]
    BY <1>1, <1>2, <2>1, <2>2, AbandonEnds
  <2>4. InterceptTypeOK'
    BY ONLY InterceptTypeOK, <1>1, <2>1, <2>3 DEF InterceptTypeOK, fixed, Exchanges
  <2> QED
    BY <2>3, <2>4, OneMoves
<1>3. CASE ~ (client[c] = "gone" /\ kind[c] = "h1")
  <2>1. /\ IF kind[c] = "h1" /\ status[c] THEN Emit(c, FALSE, got[c]) ELSE UNCHANGED events
        /\ up' = [up EXCEPT ![c] = "lost"] /\ phase' = [phase EXCEPT ![c] = "over"]
        /\ reply' = [reply EXCEPT ![c] = "cut"]
    BY <1>1, <1>3 DEF OriginGone
  <2>2. /\ up' \in [Calls -> {"none", "open", "ended", "dead", "lost", "quiet", "shut"}]
        /\ up'[c] = "lost" /\ \A d \in Calls \ {c} : up'[d] = up[d]
        /\ phase' \in [Calls -> {"none", "body", "asking", "answering", "over"}]
        /\ phase'[c] = "over" /\ \A d \in Calls \ {c} : phase'[d] = phase[d]
        /\ reply' \in [Calls -> {"open", "whole", "cut"}]
        /\ \A d \in Calls \ {c} : reply'[d] = reply[d]
    BY <2>1 DEF InterceptTypeOK
  <2>3. /\ Records(c) /\ events' \in Seq(Exchanges)
        /\ kind[c] = "h1" /\ status[c] => Recorded(c)'
    <3>1. CASE kind[c] = "h1" /\ status[c]
      <4>1. PICK pieces \in 0..Chunks : pieces = got[c] /\ Emit(c, FALSE, pieces)
        BY <2>1, <3>1 DEF InterceptTypeOK
      <4>2. Fits(c, FALSE, pieces)'
        BY <1>1, <2>2, <3>1, <4>1 DEF Fits, fixed
      <4> QED
        BY <2>2, <4>1, <4>2, EmitRecords
    <3>2. CASE ~ (kind[c] = "h1" /\ status[c])
      BY <2>1, <3>2 DEF Records, InterceptTypeOK
    <3> QED
      BY <3>1, <3>2
  <2>4. InterceptTypeOK'
    BY ONLY InterceptTypeOK, <1>1, <2>2, <2>3 DEF InterceptTypeOK, fixed, Exchanges
  <2>5. CallRight(c)'
    BY <1>1, <2>2, <2>3 DEF CallRight, Settled, fixed
  <2>6. Forwards /\ \A d \in Calls \ {c} : Same(d)
    BY <1>1, <2>2 DEF Forwards, Same
  <2> QED
    BY <2>3, <2>4, <2>5, <2>6, OneMoves
<1> QED
  BY <1>2, <1>3

LEMMA HearsCloseKeeps ==
  ASSUME InterceptTypeOK, Sound, NEW c \in Calls, HearsClose(c)
  PROVE  InterceptTypeOK' /\ Sound'
<1>1. /\ client[c] = "gone" \/ reply[c] # "open"
      /\ UNCHANGED <<fixed, client, reply, status, got, paused, on, session, h2Upstream,
                     closing, goings>>
  BY DEF HearsClose
<1>2. Decrypted(c) /\ heard' \in [Calls -> BOOLEAN]
  BY DEF HearsClose, InterceptTypeOK
<1>3. CASE up[c] = "none"
  <2>1. UNCHANGED <<events, up, phase>>
    BY <1>3 DEF HearsClose
  <2>2. InterceptTypeOK'
    BY ONLY InterceptTypeOK, <1>1, <1>2, <2>1 DEF InterceptTypeOK, fixed, Exchanges
  <2>3. Fail
    BY <1>1, <2>1 DEF Fail
  <2>4. Sound'
    BY <2>3, ManyFail
  <2> QED
    BY <2>2, <2>4
<1>4. CASE up[c] # "none"
  <2>1. PICK pieces \in 0..Chunks : pieces = got[c] /\ Abandon(c, pieces)
    BY <1>4 DEF HearsClose, InterceptTypeOK
  <2>2. /\ Records(c) /\ CallRight(c)' /\ Forwards /\ events' \in Seq(Exchanges)
        /\ \A d \in Calls \ {c} : Same(d)
        /\ phase' \in [Calls -> {"none", "body", "asking", "answering", "over"}]
        /\ up' \in [Calls -> {"none", "open", "ended", "dead", "lost", "quiet", "shut"}]
    BY <1>1, <1>2, <1>4, <2>1, AbandonEnds
  <2>3. InterceptTypeOK'
    BY ONLY InterceptTypeOK, <1>1, <1>2, <2>2 DEF InterceptTypeOK, fixed, Exchanges
  <2> QED
    BY <2>2, <2>3, OneMoves
<1> QED
  BY <1>3, <1>4

LEMMA TunnelClosesKeeps ==
  ASSUME InterceptTypeOK, Sound, NEW c \in Calls, TunnelCloses(c)
  PROVE  InterceptTypeOK' /\ Sound'
<1>1. /\ ~ Decrypted(c) /\ Emit(c, FALSE, got[c])
      /\ UNCHANGED <<fixed, client, status, got, paused, on, session, h2Upstream, closing,
                     goings>>
  BY DEF TunnelCloses
<1>2. /\ up' \in [Calls -> {"none", "open", "ended", "dead", "lost", "quiet", "shut"}]
      /\ up'[c] = IF up[c] = "open" THEN "shut" ELSE up[c]
      /\ \A d \in Calls \ {c} : up'[d] = up[d]
  BY DEF TunnelCloses, InterceptTypeOK
<1>3. /\ phase' \in [Calls -> {"none", "body", "asking", "answering", "over"}]
      /\ phase'[c] = "over" /\ \A d \in Calls \ {c} : phase'[d] = phase[d]
      /\ reply' \in [Calls -> {"open", "whole", "cut"}]
      /\ \A d \in Calls \ {c} : reply'[d] = reply[d]
      /\ heard' \in [Calls -> BOOLEAN]
  BY DEF TunnelCloses, InterceptTypeOK
<1>4. Records(c) /\ events' \in Seq(Exchanges)
  <2>1. PICK pieces \in 0..Chunks : pieces = got[c] /\ Emit(c, FALSE, pieces)
    BY <1>1 DEF InterceptTypeOK
  <2>2. ~ Decrypted(c)'
    BY <1>1 DEF Decrypted, fixed
  <2> QED
    BY <2>1, <2>2, EmitRecords
<1>5. InterceptTypeOK'
  BY ONLY InterceptTypeOK, <1>1, <1>2, <1>3, <1>4 DEF InterceptTypeOK, fixed, Exchanges
<1>6. CallRight(c)'
  <2>1. CallRight(c)
    BY DEF Sound
  <2> QED
    BY <1>1, <1>2, <1>3, <2>1 DEF CallRight, fixed, Decrypted
<1>7. Forwards /\ \A d \in Calls \ {c} : Same(d)
  BY <1>1, <1>2, <1>3 DEF Forwards, Same
<1> QED
  BY <1>4, <1>5, <1>6, <1>7, OneMoves

-----------------------------------------------------------------------------
(* Client and origin. *)

LEMMA ClientLeavesKeeps ==
  ASSUME InterceptTypeOK, Sound, NEW c \in Calls, ClientLeaves(c)
  PROVE  InterceptTypeOK' /\ Sound'
<1>1. UNCHANGED <<fixed, phase, reply, heard, status, got, paused, up, on, session, h2Upstream,
                  events, closing, goings>>
  BY DEF ClientLeaves
<1>2. client' \in [Calls -> {"there", "gone"}]
      /\ \A d \in Calls : client'[d] = client[d] \/ client'[d] = "gone"
  BY DEF ClientLeaves, InterceptTypeOK
<1>3. InterceptTypeOK'
  BY ONLY InterceptTypeOK, <1>1, <1>2 DEF InterceptTypeOK, fixed, Exchanges
<1>4. Fail
  BY <1>1, <1>2 DEF Fail
<1>5. Sound'
  BY <1>4, ManyFail
<1> QED
  BY <1>3, <1>5

\* Some of the open requests die; the sessions are as they may be.
LEMMA OriginsFail ==
  ASSUME InterceptTypeOK, Sound, Fail, UNCHANGED <<heard, status, got, paused, on>>,
         client' \in [Calls -> {"there", "gone"}],
         up' \in [Calls -> {"none", "open", "ended", "dead", "lost", "quiet", "shut"}],
         session' \in [Sessions -> {"none", "open", "draining", "dying", "closed"}],
         h2Upstream' \in Sessions \union {None}, closing' \in BOOLEAN, goings' \in 0..Goings
  PROVE  InterceptTypeOK' /\ Sound'
BY ManyFail DEF Fail, InterceptTypeOK, fixed, Exchanges

LEMMA OneMoreGoing ==
  ASSUME InterceptTypeOK, goings < Goings, goings' = goings + 1
  PROVE  goings' \in 0..Goings
BY InterceptAssumption DEF InterceptTypeOK

LEMMA OriginDropsKeeps ==
  ASSUME InterceptTypeOK, Sound, NEW c \in Calls, OriginDrops(c)
  PROVE  InterceptTypeOK' /\ Sound'
<1>1. /\ UNCHANGED <<fixed, phase, client, reply, heard, status, got, paused, on, session,
                     h2Upstream, events, closing>>
      /\ goings' \in 0..Goings
  BY OneMoreGoing DEF OriginDrops
<1>2. /\ up' \in [Calls -> {"none", "open", "ended", "dead", "lost", "quiet", "shut"}]
      /\ \A d \in Calls :
           \/ up'[d] = up[d]
           \/ up[d] = "open" /\ (up'[d] = "dead" \/ (kind[d] = "h2" /\ up'[d] = "quiet"))
  <2>1. PICK way \in Ways(c) : up' = [up EXCEPT ![c] = way]
    BY DEF OriginDrops
  <2>2. way = "dead" \/ (kind[c] = "h2" /\ way = "quiet")
    BY <2>1 DEF Ways
  <2>3. up[c] = "open"
    BY DEF OriginDrops
  <2>4. up'[c] = way /\ \A d \in Calls \ {c} : up'[d] = up[d]
    BY <2>1 DEF InterceptTypeOK
  <2>5. up' \in [Calls -> {"none", "open", "ended", "dead", "lost", "quiet", "shut"}]
    BY <2>1, <2>2 DEF InterceptTypeOK
  <2> QED
    BY <2>2, <2>3, <2>4, <2>5
<1>3. /\ client' \in [Calls -> {"there", "gone"}] /\ \A d \in Calls : client'[d] = client[d]
      /\ session' \in [Sessions -> {"none", "open", "draining", "dying", "closed"}]
      /\ h2Upstream' \in Sessions \union {None} /\ closing' \in BOOLEAN
  BY <1>1 DEF InterceptTypeOK
<1>4. Fail
  BY <1>1, <1>2, <1>3 DEF Fail
<1> QED
  BY <1>1, <1>2, <1>3, <1>4, OriginsFail

LEMMA SessionKeeps ==
  ASSUME InterceptTypeOK, Sound, NEW s \in Sessions,
         SessionDrops(s) \/ GoesAway(s) \/ WindsDown(s) \/ SessionCloses(s)
  PROVE  InterceptTypeOK' /\ Sound'
<1>1. UNCHANGED <<fixed, phase, client, reply, heard, status, got, paused, on, events,
                  closing>>
  BY DEF SessionDrops, GoesAway, WindsDown, SessionCloses, callVars
<1>2. goings' \in 0..Goings
  <2>1. goings' = goings \/ (goings < Goings /\ goings' = goings + 1)
    BY DEF SessionDrops, GoesAway, WindsDown, SessionCloses
  <2> QED
    BY <2>1, OneMoreGoing DEF InterceptTypeOK
<1>3. /\ up' \in [Calls -> {"none", "open", "ended", "dead", "lost", "quiet", "shut"}]
      /\ \A d \in Calls :
           \/ up'[d] = up[d]
           \/ up[d] = "open" /\ (up'[d] = "dead" \/ (kind[d] = "h2" /\ up'[d] = "quiet"))
  <2>1. CASE UNCHANGED up
    BY <2>1 DEF InterceptTypeOK
  <2>2. CASE SessionDrops(s)
    <3>1. PICK way \in {"dead", "quiet"} : up' = Kill(s, way)
      BY <2>2 DEF SessionDrops
    <3>2. up' \in [Calls -> {"none", "open", "ended", "dead", "lost", "quiet", "shut"}]
      BY <3>1 DEF Kill, InterceptTypeOK
    <3>3. ASSUME NEW d \in Calls
          PROVE  \/ up'[d] = up[d]
                 \/ up[d] = "open" /\ (up'[d] = "dead" \/ (kind[d] = "h2" /\ up'[d] = "quiet"))
      <4>1. up'[d] = IF d \in Streams(s) THEN way ELSE up[d]
        BY <3>1 DEF Kill
      <4>2. d \in Streams(s) => kind[d] = "h2" /\ up[d] = "open"
        BY DEF Streams
      <4> QED
        BY <4>1, <4>2
    <3> QED
      BY <3>2, <3>3
  <2> QED
    BY <2>1, <2>2 DEF GoesAway, WindsDown, SessionCloses, callVars
<1>4. session' \in [Sessions -> {"none", "open", "draining", "dying", "closed"}]
      /\ h2Upstream' \in Sessions \union {None}
  BY DEF SessionDrops, GoesAway, WindsDown, SessionCloses, InterceptTypeOK
<1>5. /\ client' \in [Calls -> {"there", "gone"}] /\ \A d \in Calls : client'[d] = client[d]
      /\ closing' \in BOOLEAN
  BY <1>1 DEF InterceptTypeOK
<1>6. Fail
  BY <1>1, <1>2, <1>3, <1>4, <1>5 DEF Fail
<1> QED
  BY <1>1, <1>2, <1>3, <1>4, <1>5, <1>6, OriginsFail

LEMMA CloseKeeps ==
  ASSUME InterceptTypeOK, Sound, Close
  PROVE  InterceptTypeOK' /\ Sound'
<1>1. /\ UNCHANGED <<fixed, phase, reply, heard, status, got, paused, on, events>>
      /\ goings' \in 0..Goings /\ closing' \in BOOLEAN /\ h2Upstream' \in Sessions \union {None}
  BY OneMoreGoing DEF Close
<1>2. /\ up' \in [Calls -> {"none", "open", "ended", "dead", "lost", "quiet", "shut"}]
      /\ \A d \in Calls :
           \/ up'[d] = up[d]
           \/ up[d] = "open" /\ (up'[d] = "dead" \/ (kind[d] = "h2" /\ up'[d] = "quiet"))
  <2>1. PICK way \in {"dead", "quiet"} :
          up' = [c \in Calls |->
                   IF up[c] = "open" /\ (kind[c] # "h2" \/ on[c] = h2Upstream)
                   THEN IF way \in Ways(c) THEN way ELSE "dead"
                   ELSE up[c]]
    BY DEF Close
  <2>2. up' \in [Calls -> {"none", "open", "ended", "dead", "lost", "quiet", "shut"}]
    BY <2>1 DEF InterceptTypeOK
  <2>3. ASSUME NEW d \in Calls
        PROVE  \/ up'[d] = up[d]
               \/ up[d] = "open" /\ (up'[d] = "dead" \/ (kind[d] = "h2" /\ up'[d] = "quiet"))
    <3>1. way \in Ways(d) => way = "dead" \/ (kind[d] = "h2" /\ way = "quiet")
      BY DEF Ways
    <3> QED
      BY <2>1, <3>1
  <2> QED
    BY <2>2, <2>3
<1>3. /\ client' \in [Calls -> {"there", "gone"}]
      /\ \A d \in Calls : client'[d] = client[d] \/ client'[d] = "gone"
  BY DEF Close, InterceptTypeOK
<1>4. session' \in [Sessions -> {"none", "open", "draining", "dying", "closed"}]
  BY DEF Close, InterceptTypeOK
<1>5. Fail
  BY <1>1, <1>2, <1>3, <1>4 DEF Fail
<1> QED
  BY <1>1, <1>2, <1>3, <1>4, <1>5, OriginsFail

-----------------------------------------------------------------------------
LEMMA InterceptBegins == InterceptInit => InterceptTypeOK /\ Sound
<1> SUFFICES ASSUME InterceptInit PROVE InterceptTypeOK /\ Sound
  OBVIOUS
<1>1. [mode |-> mode, kind |-> kind, request |-> request] \in Starts
  <2>1. PICK start \in Starts :
          mode = start.mode /\ kind = start.kind /\ request = start.request
    BY DEF InterceptInit
  <2>2. start = [mode |-> start.mode, kind |-> start.kind, request |-> start.request]
    BY InterceptAssumption
  <2> QED
    BY <2>1, <2>2
<1>2. InterceptTypeOK
  <2>1. 0 \in 0..Goings /\ 0 \in 0..Chunks /\ << >> \in Seq(Exchanges)
    BY InterceptAssumption
  <2> QED
    BY <1>1, <2>1 DEF InterceptInit, InterceptTypeOK
<1>3. Sound
  BY DEF InterceptInit, Sound, EventsRight, CallRight, Settled, Recorded
<1> QED
  BY <1>2, <1>3

LEMMA InterceptStep ==
  ASSUME InterceptTypeOK, Sound, [InterceptNext]_interceptVars
  PROVE  InterceptTypeOK' /\ Sound'
<1>1. ASSUME NEW c \in Calls,
             \/ Arrive(c) \/ BodyBreaksOff(c) \/ \E here \in BOOLEAN : Decide(c, here)
             \/ Answers(c) \/ AnswersNobody(c) \/ \E full \in BOOLEAN : Piece(c, full)
      PROVE  InterceptTypeOK' /\ Sound'
  BY <1>1, ArriveKeeps, BodyBreaksOffKeeps, DecideKeeps, AnswersKeeps, AnswersNobodyKeeps,
     PieceKeeps
<1>2. ASSUME NEW c \in Calls,
             \/ Drains(c) \/ Ends(c) \/ HearsQuietEnd(c) \/ HearsOrigin(c) \/ HearsClose(c)
             \/ TunnelCloses(c) \/ ClientLeaves(c) \/ OriginDrops(c)
      PROVE  InterceptTypeOK' /\ Sound'
  BY <1>2, DrainsKeeps, EndsKeeps, HearsQuietEndKeeps, HearsOriginKeeps, HearsCloseKeeps, TunnelClosesKeeps,
     ClientLeavesKeeps, OriginDropsKeeps
<1>3. ASSUME NEW s \in Sessions,
             SessionDrops(s) \/ GoesAway(s) \/ WindsDown(s) \/ SessionCloses(s)
      PROVE  InterceptTypeOK' /\ Sound'
  BY <1>3, SessionKeeps
<1>4. CASE UNCHANGED interceptVars
  <2>1. UNCHANGED <<fixed, phase, client, reply, heard, status, got, paused, up, on, session,
                    h2Upstream, events, closing, goings>>
    BY <1>4 DEF interceptVars, callVars, fixed
  <2>2. /\ client' \in [Calls -> {"there", "gone"}] /\ \A d \in Calls : client'[d] = client[d]
        /\ up' \in [Calls -> {"none", "open", "ended", "dead", "lost", "quiet", "shut"}]
        /\ \A d \in Calls : up'[d] = up[d]
        /\ session' \in [Sessions -> {"none", "open", "draining", "dying", "closed"}]
        /\ h2Upstream' \in Sessions \union {None} /\ closing' \in BOOLEAN
        /\ goings' \in 0..Goings
    BY <2>1 DEF InterceptTypeOK
  <2>3. Fail
    BY <2>1, <2>2 DEF Fail
  <2> QED
    BY <2>1, <2>2, <2>3, OriginsFail
<1> QED
  BY <1>1, <1>2, <1>3, <1>4, CloseKeeps DEF InterceptNext

\* The types of the interceptor's variables and of what it has recorded, for any
\* number of calls and sessions.
THEOREM InterceptTypes == InterceptSpec => []InterceptTypeOK
<1>1. InterceptTypeOK /\ Sound /\ [InterceptNext]_interceptVars => InterceptTypeOK' /\ Sound'
  BY InterceptStep
<1> QED
  BY InterceptBegins, <1>1, PTL DEF InterceptSpec

\* An exchange is recorded of a request that was made or refused, with all that was read,
\* as whole only where the origin ended it or cut it, and as abandoned only where the
\* client left or the origin's failure closed its side, in whatever order the client, the
\* origin and close() come (EventsAreTrue says which of them over which protocol).
THEOREM InterceptTellsTheTruth == InterceptSpec => []EventsAreTrue
<1>1. InterceptTypeOK /\ Sound /\ [InterceptNext]_interceptVars => InterceptTypeOK' /\ Sound'
  BY InterceptStep
<1>2. Sound => EventsAreTrue
  BY SoundIsEnough
<1> QED
  BY InterceptBegins, <1>1, <1>2, PTL DEF InterceptSpec

\* A strict replay asks no origin what a recording may answer, and no replay sends a
\* part of a request on.
THEOREM InterceptStaysOffline == InterceptSpec => []StaysOffline
<1>1. InterceptTypeOK /\ Sound /\ [InterceptNext]_interceptVars => InterceptTypeOK' /\ Sound'
  BY InterceptStep
<1>2. Sound => StaysOffline
  BY SoundIsEnough
<1> QED
  BY InterceptBegins, <1>1, <1>2, PTL DEF InterceptSpec
=============================================================================
