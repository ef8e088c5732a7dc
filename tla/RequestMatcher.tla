--------------------------- MODULE RequestMatcher ---------------------------
(***************************************************************************)
(* The replay matching ladder: class RequestMatcher of                     *)
(* packages/proxy/src/matching.ts.                                         *)
(*                                                                         *)
(* A recording is a sequence of model requests.  A replayed agent sends    *)
(* its requests again, perhaps drifted and perhaps in another order, and   *)
(* each call of match() answers one of them from a recorded position that  *)
(* was not used before, or reports a miss.  match() is synchronous, so one *)
(* call is one action.                                                     *)
(*                                                                         *)
(* Positions count from 1 here and from 0 in the code: the code's cursor   *)
(* is cursor - 1.                                                          *)
(***************************************************************************)
EXTENDS Integers, Sequences

CONSTANTS
  Requests,        \* the requests that may be recorded or sent (see below)
  MaxRecorded,     \* bound: the longest recording
  MaxPeak,         \* bound: the largest concurrency() a caller reports
  Lookahead,       \* LOOKAHEAD, the least window of an approximate skip
  MinorLimit,      \* rung 2's budget, max(64, 15% of the recorded size)
  AskLimit,        \* askTolerance(): how far the trailing message may drift
  MessageWeight,   \* distance charged for a message only one side has
  RungWeight,      \* rank(): 1e12 in the code
  DistanceWeight   \* rank(): 1e3 in the code

(***************************************************************************)
(* What the ladder can tell apart in a request.                            *)
(*   ask    what the trailing message asks; the difference of two asks is  *)
(*          how many characters of it drifted                              *)
(*   out    the tool output carried by the trailing message                *)
(*   count  the number of messages                                         *)
(*   drift  everything around them: system prompt, tools, earlier turns    *)
(*   salt   what a replay cannot reproduce: the digest of a redacted       *)
(*          value, the pixels of a rendered image                          *)
(***************************************************************************)
RequestShape == [ask : Nat, out : Nat, count : Nat, drift : Nat, salt : Nat]

ASSUME RequestsAssumption == Requests \subseteq RequestShape /\ Requests # {}
ASSUME BoundsAssumption ==
  /\ MaxRecorded \in Nat /\ MaxPeak \in Nat /\ Lookahead \in Nat
  /\ MinorLimit \in Nat /\ AskLimit \in Nat /\ MessageWeight \in Nat \ {0}
  /\ RungWeight \in Nat /\ DistanceWeight \in Nat

VARIABLES
  recorded,   \* the canonical requests of the recording, fixed at start
  cursor,     \* the next position to be played
  deferred,   \* positions stepped over and still owed, in insertion order
  served,     \* history: how often each position was used as an answer
  last        \* history: the result of the latest match()

matcherVars == <<recorded, cursor, deferred, served, last>>

Positions == 1..Len(recorded)
Elements(seq) == {seq[i] : i \in 1..Len(seq)}
Held == Elements(deferred)

-----------------------------------------------------------------------------
(* The ladder, on one live and one recorded request. *)

Abs(n) == IF n < 0 THEN -n ELSE n

\* comparableRequest: what a replay cannot reproduce is folded away.
Comparable(r) == [ask |-> r.ask, out |-> r.out, count |-> r.count, drift |-> r.drift]

LeafDistance(a, b) ==
  Abs(a.ask - b.ask) + Abs(a.out - b.out) + Abs(a.drift - b.drift)
    + MessageWeight * Abs(a.count - b.count)

\* structuralDistance: over the two comparable forms, below rung 1 only.
Distance(a, b) == LeafDistance(Comparable(a), Comparable(b))

\* askDistance: only the trailing message is compared, tool output included.
AskDistance(a, b) == Abs(a.ask - b.ask) + Abs(a.out - b.out)
SameAsk(a, b) == AskDistance(a, b) <= AskLimit

WithoutToolOutput(r) == <<r.ask, r.count, r.drift>>

\* #matchAt: the first rung on which the live request meets a recorded one.
SameButDrifted(live, r) ==
  /\ SameAsk(live, r)
  /\ live.count = r.count
  /\ Distance(live, r) <= MinorLimit

AnotherHistory(live, r) == SameAsk(live, r) /\ live.count # r.count
AnotherWorld(live, r) == WithoutToolOutput(live) = WithoutToolOutput(r)

Rung(live, r) ==
  IF live = r THEN 1
  ELSE IF Distance(live, r) = 0 \/ SameButDrifted(live, r) THEN 2
  ELSE IF AnotherHistory(live, r) \/ AnotherWorld(live, r) THEN 3
  ELSE 4

RungAt(live, p) == Rung(live, recorded[p])

\* Fault: nearness to the cursor leads where the distance should.
RankByNearness(live, p) == RungAt(live, p) * RungWeight + Abs(p - cursor)

\* rank(): the rung leads, then the distance, then nearness to the cursor.
Rank(live, p) ==
  RungAt(live, p) * RungWeight
    + Distance(live, recorded[p]) * DistanceWeight
    + Abs(p - cursor)

\* #nearAhead: how far an approximate match may reach past the cursor.
Window(peak) == IF peak > Lookahead THEN peak ELSE Lookahead
NearAhead(peak) ==
  {p \in Positions : cursor < p /\ p <= cursor + Window(peak)}

\* Candidates of #nearest: the cursor at any matching rung, the rest at 2.
CursorCandidate(live) ==
  {p \in Positions : p = cursor /\ RungAt(live, p) <= 3}
\* Fault: a match out of place may be as loose as one in place.
LooseCandidates(live, peak) ==
  {p \in {cursor} \union Held \union NearAhead(peak) :
     p \in Positions /\ RungAt(live, p) <= 3}

NearCandidates(live, peak) ==
  CursorCandidate(live)
    \union {p \in Held \union NearAhead(peak) : RungAt(live, p) <= 2}

\* The least rank, and of equal ranks the one #nearest meets first: the
\* cursor, then the held positions, then those ahead.
IsBest(live, p, candidates) ==
  /\ p \in candidates
  /\ \A q \in candidates :
       \/ Rank(live, p) < Rank(live, q)
       \/ /\ Rank(live, p) = Rank(live, q)
          /\ p = cursor \/ (q # cursor /\ p <= q)

-----------------------------------------------------------------------------
(* The three ways a position is taken. *)

Without(seq, slot) ==
  [i \in 1..(Len(seq) - 1) |-> IF i < slot THEN seq[i] ELSE seq[i + 1]]

Span(from, to) == [i \in 1..(to - from) |-> from + i - 1]

NoResult == [live |-> CHOOSE r \in Requests : TRUE, index |-> 0, rung |-> 4,
             reordered |-> FALSE, skipped |-> 0]

Answer(live, p, reordered, skipped) ==
  /\ served' = [served EXCEPT ![p] = @ + 1]
  /\ last' = [live |-> live, index |-> p, rung |-> RungAt(live, p),
              reordered |-> reordered, skipped |-> skipped]
  /\ UNCHANGED recorded

TakeCursor(live) ==
  /\ Answer(live, cursor, FALSE, 0)
  /\ cursor' = cursor + 1
  /\ UNCHANGED deferred

\* Fault: the splice is forgotten.
TakeHeldWithoutSplice(live, slot) ==
  /\ Answer(live, deferred[slot], TRUE, 0)
  /\ UNCHANGED <<cursor, deferred>>

\* #matchDeferred: splice the slot out and serve what it held.
TakeHeld(live, slot) ==
  /\ Answer(live, deferred[slot], TRUE, 0)
  /\ deferred' = Without(deferred, slot)
  /\ UNCHANGED cursor

\* Fault: the cursor steps one too far.
SkipPastNext(live, p) ==
  /\ Answer(live, p, TRUE, p - cursor)
  /\ deferred' = deferred \o Span(cursor, p)
  /\ cursor' = p + 2

\* #skipTo: hold everything stepped over.
SkipTo(live, p) ==
  /\ Answer(live, p, TRUE, p - cursor)
  /\ deferred' = deferred \o Span(cursor, p)
  /\ cursor' = p + 1

-----------------------------------------------------------------------------
(* match(), one disjunct per return of the function. *)

ExactAtCursor(live) == cursor \in Positions /\ recorded[cursor] = live
ExactHeld(live) == {slot \in 1..Len(deferred) : recorded[deferred[slot]] = live}
\* Fault: the exact search stops at the approximate window.
ExactInWindow(live) ==
  {p \in Positions :
     cursor < p /\ p <= cursor + Lookahead /\ recorded[p] = live}
ExactAhead(live) == {p \in Positions : p > cursor /\ recorded[p] = live}

NoExact(live) ==
  /\ ~ ExactAtCursor(live)
  /\ ExactHeld(live) = {}
  /\ ExactAhead(live) = {}

MatchCursorExactly(live) ==
  /\ ExactAtCursor(live)
  /\ TakeCursor(live)

MatchHeldExactly(live) ==
  /\ ~ ExactAtCursor(live)
  /\ \E slot \in ExactHeld(live) :
       /\ \A other \in ExactHeld(live) : slot <= other
       /\ TakeHeld(live, slot)

MatchAheadExactly(live) ==
  /\ ~ ExactAtCursor(live)
  /\ ExactHeld(live) = {}
  /\ \E p \in ExactAhead(live) :
       /\ \A q \in ExactAhead(live) : p <= q
       /\ SkipTo(live, p)

\* #nearestHeld, once the cursor is past the end.
HeldCandidates(live) == {p \in Held : RungAt(live, p) <= 2}

MatchNearestHeld(live) ==
  /\ NoExact(live)
  /\ cursor > Len(recorded)
  /\ \E slot \in 1..Len(deferred) :
       /\ IsBest(live, deferred[slot], HeldCandidates(live))
       /\ TakeHeld(live, slot)

MatchNearest(live, peak) ==
  /\ NoExact(live)
  /\ cursor \in Positions
  /\ \E p \in NearCandidates(live, peak) :
       /\ IsBest(live, p, NearCandidates(live, peak))
       /\ \/ p = cursor /\ TakeCursor(live)
          \/ \E slot \in 1..Len(deferred) :
               deferred[slot] = p /\ TakeHeld(live, slot)
          \/ p > cursor /\ SkipTo(live, p)

\* Rung 4: nothing is consumed; the result names the cursor, or no position
\* at all when the recording is exhausted.
Miss(live, peak) ==
  /\ NoExact(live)
  /\ IF cursor \in Positions
       THEN NearCandidates(live, peak) = {}
       ELSE HeldCandidates(live) = {}
  /\ last' = [NoResult EXCEPT
                 !.live = live,
                 !.index = IF cursor \in Positions THEN cursor ELSE 0]
  /\ UNCHANGED <<recorded, cursor, deferred, served>>

Match(live, peak) ==
  \/ MatchCursorExactly(live)
  \/ MatchHeldExactly(live)
  \/ MatchAheadExactly(live)
  \/ MatchNearestHeld(live)
  \/ MatchNearest(live, peak)
  \/ Miss(live, peak)

\* Fault: what is held is not counted.
RemainingAhead == Len(recorded) - cursor + 1

\* remaining()
Remaining == Len(recorded) - cursor + 1 + Len(deferred)

-----------------------------------------------------------------------------
(* The constructor, on any recording, and a caller that sends any request. *)

Recordings == UNION {[1..n -> Requests] : n \in 0..MaxRecorded}

MatcherInit ==
  /\ recorded \in Recordings
  /\ cursor = 1
  /\ deferred = << >>
  /\ served = [p \in 1..Len(recorded) |-> 0]
  /\ last = NoResult

MatcherNext ==
  \E live \in Requests, peak \in 0..MaxPeak : Match(live, peak)

MatcherSpec == MatcherInit /\ [][MatcherNext]_matcherVars

(***************************************************************************)
(* A faithful rerun: the agent asks again exactly what was recorded, each  *)
(* request once, in whatever order its workers produce them.               *)
(***************************************************************************)
RerunNext ==
  \E p \in Positions, peak \in 0..MaxPeak :
    served[p] = 0 /\ Match(recorded[p], peak)

RerunSpec == MatcherInit /\ [][RerunNext]_matcherVars

-----------------------------------------------------------------------------
(* Properties. *)

Results ==
  [live : Requests, index : Nat, rung : 1..4,
   reordered : BOOLEAN, skipped : Nat]

MatcherTypeOK ==
  /\ recorded \in Seq(Requests)
  /\ cursor \in 1..(Len(recorded) + 1)
  /\ deferred \in Seq(Nat)
  /\ served \in [Positions -> Nat]
  /\ last \in Results

(***************************************************************************)
(* The books balance: below the cursor every position is either used once  *)
(* or still held exactly once, and nothing at or past the cursor was used. *)
(* So no recorded answer is ever handed out twice and none is lost by a    *)
(* step over it (matching.ts, #deferred).                                  *)
(***************************************************************************)
AnsweredOrOwed ==
  \A p \in Positions :
    served[p] = IF p < cursor /\ p \notin Held THEN 1 ELSE 0

Ascending(seq) == \A i, j \in 1..Len(seq) : i < j => seq[i] < seq[j]

\* The held positions ascend and lie below the cursor: the first slot that
\* #matchDeferred meets is the earliest recorded one, and no position is held
\* twice.
HeldInOrder == Ascending(deferred) /\ Held \subseteq 1..(cursor - 1)

\* remaining() counts exactly the recorded requests not answered yet.
UnansweredIn(n) ==
  LET count[i \in 0..n] ==
        IF i = 0 THEN 0
        ELSE count[i - 1] + (IF served[i] = 0 THEN 1 ELSE 0)
  IN  count[n]

RemainingIsUnanswered == Remaining = UnansweredIn(Len(recorded))

Unserved == {p \in Positions : served[p] = 0}

Served(p) == last'.index = p /\ served' # served

(***************************************************************************)
(* A request the recording holds, unused and byte for byte, is answered    *)
(* exactly, wherever in the recording it is and whatever approximation     *)
(* stands at the cursor ("An exact match somewhere else outranks an        *)
(* approximate one here").  So a rerun that asks what was recorded, in any *)
(* order, is exact throughout and uses every answer.                       *)
(***************************************************************************)
ExactOutranksApproximate ==
  [][(\E q \in Unserved : recorded[q] = last'.live) => last'.rung = 1]_matcherVars

(***************************************************************************)
(* Among approximations too the request's own answer wins: a position that *)
(* really differs is not served while one that is equal up to salt is held *)
(* or at the cursor, so a worker pool is not handed a neighbour's answer.  *)
(***************************************************************************)
OwnAnswerPreferred ==
  [][\A p \in Positions :
       Served(p) /\ Distance(last'.live, recorded[p]) > 0
         => \A q \in Unserved :
              q <= cursor + Lookahead =>
                Distance(last'.live, recorded[q]) > 0]_matcherVars

(***************************************************************************)
(* Rung 3, a different history or a different world, is legitimate only in *)
(* place; anything out of order needs rung 2 or better, and an approximate *)
(* skip never leaves the window.                                           *)
(***************************************************************************)
OutOfPlaceIsClose ==
  [][\A p \in Positions :
       Served(p) /\ p # cursor
         => /\ last'.rung <= 2
            /\ last'.rung = 2 => p <= cursor + Window(MaxPeak)]_matcherVars

(***************************************************************************)
(* A rerun that asks what was recorded, in any order, is answered at rung  *)
(* 1 every time (match(), of a worker pool).                               *)
(***************************************************************************)
RerunIsExact == [][last'.rung = 1]_matcherVars
=============================================================================
