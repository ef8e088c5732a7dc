-------------------------- MODULE ReplayProxyProofs --------------------------
(***************************************************************************)
(* What the matcher and the proxy around it guarantee for every recording, *)
(* ladder constant, window, number of connections and configuration.       *)
(*                                                                         *)
(* The matcher: no recorded answer is used twice or lost, an exact answer  *)
(* outranks an approximate one, a request's own answer a neighbour's, out  *)
(* of place only what is close is served, and a rerun of the recorded      *)
(* requests in any order is answered exactly.                              *)
(*                                                                         *)
(* The proxy: its handlers use the matcher as RequestMatcher specifies, a  *)
(* strict replay stays offline, no recorded answer reaches two             *)
(* connections, no fork misses quietly, what was forwarded is written down *)
(* once, and the counters are the fates of the connections.                *)
(***************************************************************************)
EXTENDS ReplayProxy, FiniteSetTheorems, SequenceTheorems, TLAPS

-----------------------------------------------------------------------------
(* The matcher. *)

(* The two sequence operators of the held list. *)

LEMMA WithoutProperties ==
  ASSUME NEW seq \in Seq(Nat), NEW slot \in 1..Len(seq)
  PROVE  /\ Without(seq, slot) \in Seq(Nat)
         /\ Len(Without(seq, slot)) = Len(seq) - 1
         /\ \A i \in 1..(Len(seq) - 1) :
              Without(seq, slot)[i] = IF i < slot THEN seq[i] ELSE seq[i + 1]
BY DEF Without

LEMMA WithoutAscending ==
  ASSUME NEW seq \in Seq(Nat), NEW slot \in 1..Len(seq), Ascending(seq)
  PROVE  Ascending(Without(seq, slot))
<1> DEFINE w == Without(seq, slot)
<1>1. /\ Len(w) = Len(seq) - 1
      /\ \A i \in 1..(Len(seq) - 1) : w[i] = IF i < slot THEN seq[i] ELSE seq[i + 1]
  BY WithoutProperties
<1> HIDE DEF w
<1>2. SUFFICES ASSUME NEW i \in 1..Len(w), NEW j \in 1..Len(w), i < j
               PROVE  w[i] < w[j]
  BY DEF Ascending, w
<1>3. Len(seq) \in Nat /\ i \in 1..(Len(seq) - 1) /\ j \in 1..(Len(seq) - 1)
  BY <1>1
<1>4. CASE j < slot
  <2>1. w[i] = seq[i] /\ w[j] = seq[j] /\ i \in 1..Len(seq) /\ j \in 1..Len(seq)
    BY <1>1, <1>3, <1>2, <1>4
  <2> QED BY <2>1, <1>2 DEF Ascending
<1>5. CASE i < slot /\ slot <= j
  <2>1. w[i] = seq[i] /\ w[j] = seq[j + 1] /\ i \in 1..Len(seq) /\ j + 1 \in 1..Len(seq)
    BY <1>1, <1>3, <1>2, <1>5
  <2>2. i < j + 1
    BY <1>3, <1>2
  <2> QED BY <2>1, <2>2 DEF Ascending
<1>6. CASE slot <= i
  <2>1. /\ i + 1 \in 1..Len(seq) /\ j + 1 \in 1..Len(seq) /\ i + 1 < j + 1
        /\ ~ (i < slot) /\ ~ (j < slot)
    BY <1>3, <1>2, <1>6
  <2>2. w[i] = seq[i + 1] /\ w[j] = seq[j + 1]
    BY <1>1, <1>3, <2>1
  <2> QED BY <2>1, <2>2 DEF Ascending
<1> QED BY <1>3, <1>2, <1>4, <1>5, <1>6

LEMMA WithoutElements ==
  ASSUME NEW seq \in Seq(Nat), NEW slot \in 1..Len(seq), Ascending(seq)
  PROVE  Elements(Without(seq, slot)) = Elements(seq) \ {seq[slot]}
<1> DEFINE w == Without(seq, slot)
<1>0. Len(seq) \in Nat
  OBVIOUS
<1>1. /\ Len(w) = Len(seq) - 1 /\ Len(seq) \in Nat
      /\ \A i \in 1..(Len(seq) - 1) : w[i] = IF i < slot THEN seq[i] ELSE seq[i + 1]
  BY <1>0, WithoutProperties, ZenonT(60)
<1> HIDE DEF w
<1>2. ASSUME NEW i \in 1..Len(w) PROVE w[i] \in Elements(seq) /\ w[i] # seq[slot]
  <2>1. CASE i < slot
    <3>1. w[i] = seq[i] /\ seq[i] < seq[slot] /\ i \in 1..Len(seq)
      BY <1>1, <2>1 DEF Ascending
    <3>2. seq[i] \in Nat /\ seq[slot] \in Nat
      BY <3>1
    <3> QED BY <3>1, <3>2 DEF Elements
  <2>2. CASE slot <= i
    <3>1. i + 1 \in 1..Len(seq) /\ slot < i + 1 /\ w[i] = seq[i + 1]
      BY <1>1, <2>2
    <3>2. seq[slot] < seq[i + 1]
      BY <3>1 DEF Ascending
    <3>3. seq[i + 1] \in Nat /\ seq[slot] \in Nat
      BY <3>1
    <3> QED BY <3>1, <3>2, <3>3 DEF Elements
  <2> QED BY <1>1, <2>1, <2>2
<1>3. ASSUME NEW i \in 1..Len(seq), seq[i] # seq[slot] PROVE seq[i] \in Elements(w)
  <2>1. CASE i < slot
    <3>1. i \in 1..Len(w) /\ w[i] = seq[i]
      BY <1>1, <2>1
    <3> QED BY <3>1 DEF Elements
  <2>2. CASE slot < i
    <3>1. i - 1 \in 1..Len(w) /\ w[i - 1] = seq[i]
      BY <1>1, <2>2
    <3> QED BY <3>1 DEF Elements
  <2> QED BY <1>1, <1>3, <2>1, <2>2
<1> QED BY <1>2, <1>3 DEF Elements, w

LEMMA SpanProperties ==
  ASSUME NEW from \in Nat, NEW to \in Nat, 1 <= from, from <= to
  PROVE  /\ Span(from, to) \in Seq(Nat)
         /\ Len(Span(from, to)) = to - from
         /\ \A i \in 1..(to - from) : Span(from, to)[i] = from + i - 1
BY DEF Span

LEMMA ExtendProperties ==
  ASSUME NEW seq \in Seq(Nat), Ascending(seq),
         NEW from \in Nat, NEW to \in Nat, 1 <= from, from <= to,
         \A e \in Elements(seq) : e < from
  PROVE  /\ seq \o Span(from, to) \in Seq(Nat)
         /\ Ascending(seq \o Span(from, to))
         /\ Elements(seq \o Span(from, to)) = Elements(seq) \union from..(to - 1)
<1> DEFINE n == Len(seq)
           w == seq \o Span(from, to)
<1>0. n \in Nat
  OBVIOUS
<1>1. /\ w \in Seq(Nat) /\ Len(w) = n + (to - from)
      /\ \A i \in 1..(n + (to - from)) :
           w[i] = IF i <= n THEN seq[i] ELSE from + (i - n) - 1
  <2>1. /\ w \in Seq(Nat) /\ Len(w) = n + Len(Span(from, to))
        /\ \A i \in 1..(n + Len(Span(from, to))) :
             w[i] = IF i <= n THEN seq[i] ELSE Span(from, to)[i - n]
    BY SpanProperties, ConcatProperties, ZenonT(60)
  <2>2. /\ Len(Span(from, to)) = to - from
        /\ \A i \in 1..(to - from) : Span(from, to)[i] = from + i - 1
    BY SpanProperties
  <2> HIDE DEF n, w
  <2>3. ASSUME NEW i \in 1..(n + (to - from))
        PROVE  w[i] = IF i <= n THEN seq[i] ELSE from + (i - n) - 1
    <3>1. CASE i <= n
      BY <2>1, <2>2, <3>1
    <3>2. CASE n < i
      <4>1. i - n \in 1..(to - from)
        BY <1>0, <3>2
      <4> QED BY <1>0, <2>1, <2>2, <3>2, <4>1
    <3> QED BY <1>0, <3>1, <3>2
  <2> QED BY <2>1, <2>2, <2>3
<1>2. \A i \in 1..n : seq[i] \in Nat /\ seq[i] < from
  BY DEF Elements
<1> HIDE DEF n, w
<1>3. Ascending(w)
  <2> SUFFICES ASSUME NEW i \in 1..Len(w), NEW j \in 1..Len(w), i < j
               PROVE  w[i] < w[j]
    BY DEF Ascending
  <2>1. CASE j <= n
    <3>1. w[i] = seq[i] /\ w[j] = seq[j] /\ i \in 1..n /\ j \in 1..n
      BY <1>0, <1>1, <2>1
    <3> QED BY <3>1 DEF Ascending, n
  <2>2. CASE i <= n /\ n < j
    <3>1. w[i] = seq[i] /\ w[j] = from + (j - n) - 1 /\ i \in 1..n
      BY <1>0, <1>1, <2>2
    <3> QED BY <1>0, <1>1, <1>2, <2>2, <3>1
  <2>3. CASE n < i
    <3>1. w[i] = from + (i - n) - 1 /\ w[j] = from + (j - n) - 1
      BY <1>0, <1>1, <2>3
    <3> QED BY <1>0, <1>1, <2>3, <3>1
  <2> QED BY <1>0, <1>1, <2>1, <2>2, <2>3
<1>4. Elements(w) = Elements(seq) \union from..(to - 1)
  <2>1. ASSUME NEW i \in 1..Len(w) PROVE w[i] \in Elements(seq) \union from..(to - 1)
    <3>1. CASE i <= n
      <4>1. w[i] = seq[i] /\ i \in 1..n
        BY <1>0, <1>1, <3>1
      <4> QED BY <4>1 DEF Elements, n
    <3>2. CASE n < i
      <4>1. w[i] = from + (i - n) - 1
        BY <1>0, <1>1, <3>2
      <4> QED BY <1>0, <1>1, <3>2, <4>1
    <3> QED BY <1>0, <1>1, <3>1, <3>2
  <2>2. ASSUME NEW i \in 1..n PROVE seq[i] \in Elements(w)
    <3>1. i \in 1..Len(w) /\ w[i] = seq[i]
      BY <1>0, <1>1
    <3> QED BY <3>1 DEF Elements
  <2>3. ASSUME NEW q \in from..(to - 1) PROVE q \in Elements(w)
    <3>1. n + (q - from) + 1 \in 1..Len(w) /\ w[n + (q - from) + 1] = q
      BY <1>0, <1>1
    <3> QED BY <3>1 DEF Elements
  <2> QED BY <2>1, <2>2, <2>3 DEF Elements, n
<1> QED BY <1>1, <1>3, <1>4 DEF w

-----------------------------------------------------------------------------
(* The ladder. *)

LEMMA RungType == ASSUME NEW live, NEW r PROVE Rung(live, r) \in 1..4
<1>1. CASE live = r
  BY <1>1 DEF Rung
<1>2. CASE live # r
  BY <1>2 DEF Rung
<1> QED BY <1>1, <1>2

(* Rung 1 is equality and nothing else is (#matchAt's hash comparison). *)
LEMMA RungOneIsEquality ==
  ASSUME NEW live, NEW r PROVE Rung(live, r) = 1 <=> live = r
<1>1. CASE live = r
  BY <1>1 DEF Rung
<1>2. CASE live # r
  BY <1>2 DEF Rung
<1> QED BY <1>1, <1>2

-----------------------------------------------------------------------------
(* The inductive invariant: types, the books, and the order of the held. *)

IInv == MatcherTypeOK /\ AnsweredOrOwed /\ HeldInOrder

LEMMA InitIInv == MatcherInit => IInv
<1> SUFFICES ASSUME MatcherInit PROVE IInv
  OBVIOUS
<1>1. recorded \in Seq(Requests)
  BY BoundsAssumption DEF MatcherInit, Recordings
<1>2. NoResult \in Results
  BY RequestsAssumption DEF NoResult, Results
<1>3. deferred \in Seq(Nat) /\ Held = {} /\ Ascending(deferred)
  BY DEF MatcherInit, Held, Elements, Ascending
<1>4. MatcherTypeOK
  BY <1>1, <1>2, <1>3 DEF MatcherInit, MatcherTypeOK, Positions
<1>5. AnsweredOrOwed
  BY <1>1 DEF MatcherInit, AnsweredOrOwed, Positions
<1>6. HeldInOrder
  BY <1>3 DEF HeldInOrder
<1> QED BY <1>4, <1>5, <1>6 DEF IInv

LEMMA AnswerType ==
  ASSUME MatcherTypeOK, NEW live \in Requests, NEW p \in Positions,
         NEW reordered \in BOOLEAN, NEW skipped \in Nat,
         Answer(live, p, reordered, skipped)
  PROVE  /\ recorded' = recorded
         /\ Positions' = Positions
         /\ served' \in [Positions -> Nat]
         /\ last' \in Results
         /\ served'[p] = served[p] + 1
         /\ \A q \in Positions : q # p => served'[q] = served[q]
         /\ last'.index = p /\ last'.live = live /\ last'.rung = RungAt(live, p)
<1>1. recorded' = recorded /\ Positions' = Positions
  BY DEF Answer, Positions
<1>2. p \in Nat /\ served \in [Positions -> Nat]
  BY DEF MatcherTypeOK, Positions
<1>3. /\ served' \in [Positions -> Nat]
      /\ served'[p] = served[p] + 1
      /\ \A q \in Positions : q # p => served'[q] = served[q]
  BY <1>2 DEF Answer
<1>4. RungAt(live, p) \in 1..4
  BY RungType DEF RungAt
<1>5. last' = [live |-> live, index |-> p, rung |-> RungAt(live, p),
               reordered |-> reordered, skipped |-> skipped]
  BY DEF Answer
<1>6. last' \in Results /\ last'.index = p /\ last'.live = live
      /\ last'.rung = RungAt(live, p)
  BY <1>2, <1>4, <1>5 DEF Results
<1> QED BY <1>1, <1>3, <1>6

(* Each way of taking a position keeps the books balanced. *)

LEMMA TakeCursorKeeps ==
  ASSUME IInv, NEW live \in Requests, cursor \in Positions, TakeCursor(live)
  PROVE  IInv'
<1>1. MatcherTypeOK /\ AnsweredOrOwed /\ HeldInOrder
  BY DEF IInv
<1>2. /\ recorded' = recorded /\ Positions' = Positions
      /\ served' \in [Positions -> Nat] /\ last' \in Results
      /\ served'[cursor] = served[cursor] + 1
      /\ \A q \in Positions : q # cursor => served'[q] = served[q]
  BY <1>1, AnswerType DEF TakeCursor
<1>3. cursor' = cursor + 1 /\ deferred' = deferred /\ Held' = Held
  BY DEF TakeCursor, Held
<1>4. Len(recorded) \in Nat /\ Positions = 1..Len(recorded) /\ cursor \in 1..Len(recorded)
  BY <1>1 DEF MatcherTypeOK, Positions
<1>5. MatcherTypeOK'
  BY <1>1, <1>2, <1>3, <1>4 DEF MatcherTypeOK
<1>6. cursor \notin Held
  BY <1>1, <1>4 DEF HeldInOrder
<1>7. AnsweredOrOwed'
  BY <1>1, <1>2, <1>3, <1>4, <1>6 DEF AnsweredOrOwed
<1>8. HeldInOrder'
  BY <1>1, <1>3, <1>4 DEF HeldInOrder
<1> QED BY <1>5, <1>7, <1>8 DEF IInv

LEMMA TakeHeldKeeps ==
  ASSUME IInv, NEW live \in Requests, NEW slot \in 1..Len(deferred),
         TakeHeld(live, slot)
  PROVE  IInv'
<1> DEFINE p == deferred[slot]
<1>1. MatcherTypeOK /\ AnsweredOrOwed /\ HeldInOrder
  BY DEF IInv
<1>2. /\ Len(recorded) \in Nat /\ Positions = 1..Len(recorded)
      /\ cursor \in 1..(Len(recorded) + 1) /\ deferred \in Seq(Nat)
  BY <1>1 DEF MatcherTypeOK, Positions
<1>3. p \in Positions /\ p < cursor /\ p \in Held
  <2>1. p \in Held
    BY <1>2 DEF Held, Elements
  <2> HIDE DEF p
  <2> QED BY <1>1, <1>2, <2>1 DEF HeldInOrder
<1>4. /\ recorded' = recorded /\ Positions' = Positions
      /\ served' \in [Positions -> Nat] /\ last' \in Results
      /\ served'[p] = served[p] + 1
      /\ \A q \in Positions : q # p => served'[q] = served[q]
  <2>1. Answer(live, p, TRUE, 0)
    BY DEF TakeHeld
  <2> HIDE DEF p
  <2> QED BY <1>1, <1>3, <2>1, AnswerType
<1>5. cursor' = cursor /\ deferred' = Without(deferred, slot)
  BY DEF TakeHeld
<1>6. deferred' \in Seq(Nat) /\ Ascending(deferred')
  BY <1>1, <1>2, <1>5, WithoutProperties, WithoutAscending DEF HeldInOrder
<1>7. MatcherTypeOK'
  BY <1>1, <1>2, <1>4, <1>5, <1>6 DEF MatcherTypeOK
<1>8. Held' = Held \ {p}
  BY <1>1, <1>2, <1>5, WithoutElements DEF HeldInOrder, Held
<1> HIDE DEF p
<1>9. AnsweredOrOwed'
  BY <1>1, <1>2, <1>3, <1>4, <1>5, <1>8 DEF AnsweredOrOwed
<1>10. HeldInOrder'
  BY <1>1, <1>5, <1>6, <1>8 DEF HeldInOrder
<1> QED BY <1>7, <1>9, <1>10 DEF IInv

LEMMA SkipToKeeps ==
  ASSUME IInv, NEW live \in Requests, NEW p \in Positions, p > cursor,
         SkipTo(live, p)
  PROVE  IInv'
<1>1. MatcherTypeOK /\ AnsweredOrOwed /\ HeldInOrder
  BY DEF IInv
<1>2. /\ Len(recorded) \in Nat /\ Positions = 1..Len(recorded)
      /\ cursor \in 1..(Len(recorded) + 1) /\ deferred \in Seq(Nat)
  BY <1>1 DEF MatcherTypeOK, Positions
<1>3. /\ recorded' = recorded /\ Positions' = Positions
      /\ served' \in [Positions -> Nat] /\ last' \in Results
      /\ served'[p] = served[p] + 1
      /\ \A q \in Positions : q # p => served'[q] = served[q]
  <2>1. Answer(live, p, TRUE, p - cursor)
    BY DEF SkipTo
  <2>2. p - cursor \in Nat
    BY <1>2
  <2> QED BY <1>1, <2>1, <2>2, AnswerType
<1>4. cursor' = p + 1 /\ deferred' = deferred \o Span(cursor, p)
  BY DEF SkipTo
<1>5. \A e \in Held : e < cursor
  BY <1>1, <1>2 DEF HeldInOrder
<1>6. /\ deferred' \in Seq(Nat) /\ Ascending(deferred')
      /\ Held' = Held \union cursor..(p - 1)
  <2>1. cursor \in Nat /\ p \in Nat /\ 1 <= cursor /\ cursor <= p
    BY <1>2
  <2> QED BY <1>1, <1>2, <1>4, <1>5, <2>1, ExtendProperties DEF HeldInOrder, Held
<1>7. MatcherTypeOK'
  BY <1>1, <1>2, <1>3, <1>4, <1>6 DEF MatcherTypeOK
<1>8. AnsweredOrOwed'
  <2> SUFFICES ASSUME NEW q \in Positions
               PROVE  served'[q] = IF q < cursor' /\ q \notin Held' THEN 1 ELSE 0
    BY <1>3 DEF AnsweredOrOwed
  <2>1. q \in Nat /\ p \in Nat /\ cursor \in Nat
    BY <1>2
  <2>2. served[q] = IF q < cursor /\ q \notin Held THEN 1 ELSE 0
    BY <1>1 DEF AnsweredOrOwed
  <2>3. CASE q = p
    <3>1. served[q] = 0 /\ served'[q] = 1
      BY <1>3, <2>1, <2>2, <2>3
    <3>2. q \notin Held'
      BY <1>5, <1>6, <2>1, <2>3
    <3> QED BY <1>4, <2>1, <2>3, <3>1, <3>2
  <2>4. CASE q < cursor
    BY <1>3, <1>4, <1>6, <2>1, <2>2, <2>4
  <2>5. CASE q \in cursor..(p - 1)
    BY <1>3, <1>4, <1>6, <2>1, <2>2, <2>5
  <2>6. CASE q > p
    BY <1>3, <1>4, <2>1, <2>2, <2>6
  <2> QED BY <2>1, <2>3, <2>4, <2>5, <2>6
<1>9. HeldInOrder'
  <2>1. \A e \in Held' : e \in 1..(cursor' - 1)
    BY <1>1, <1>2, <1>4, <1>6 DEF HeldInOrder
  <2> QED BY <1>6, <2>1 DEF HeldInOrder
<1> QED BY <1>7, <1>8, <1>9 DEF IInv

-----------------------------------------------------------------------------
(* Every return of match() keeps the invariant. *)

LEMMA MatchKeeps ==
  ASSUME IInv, NEW live \in Requests, NEW busy \in Nat, Match(live, busy)
  PROVE  IInv'
<1>1. MatcherTypeOK
  BY DEF IInv
<1>2. CASE MatchCursorExactly(live)
  BY <1>2, TakeCursorKeeps DEF MatchCursorExactly, ExactAtCursor
<1>3. CASE MatchHeldExactly(live)
  BY <1>3, TakeHeldKeeps DEF MatchHeldExactly, ExactHeld
<1>4. CASE MatchAheadExactly(live)
  BY <1>4, SkipToKeeps DEF MatchAheadExactly, ExactAhead
<1>5. CASE MatchNearestHeld(live)
  BY <1>5, TakeHeldKeeps DEF MatchNearestHeld
<1>6. CASE MatchNearest(live, busy)
  <2>1. PICK p \in NearCandidates(live, busy) :
          \/ p = cursor /\ TakeCursor(live)
          \/ \E slot \in 1..Len(deferred) : deferred[slot] = p /\ TakeHeld(live, slot)
          \/ p > cursor /\ SkipTo(live, p)
    BY <1>6 DEF MatchNearest
  <2>2. CASE p = cursor /\ TakeCursor(live)
    BY <1>6, <2>2, TakeCursorKeeps DEF MatchNearest
  <2>3. CASE \E slot \in 1..Len(deferred) : deferred[slot] = p /\ TakeHeld(live, slot)
    BY <2>3, TakeHeldKeeps
  <2>4. CASE p > cursor /\ SkipTo(live, p)
    <3>1. \A q \in Held : q <= cursor
      BY <1>1 DEF IInv, HeldInOrder, MatcherTypeOK
    <3>2. p \in Positions
      BY <1>1, <2>1, <2>4, <3>1
      DEF NearCandidates, CursorCandidate, NearAhead, MatcherTypeOK, Positions
    <3> QED BY <2>4, <3>2, SkipToKeeps
  <2> QED BY <2>1, <2>2, <2>3, <2>4
<1>7. CASE Miss(live, busy)
  <2>1. UNCHANGED <<recorded, cursor, deferred, served>>
    BY <1>7 DEF Miss
  <2>2. last' \in Results
    <3>1. cursor \in Nat
      BY <1>1 DEF MatcherTypeOK
    <3>2. last' = [live |-> live, index |-> IF cursor \in Positions THEN cursor ELSE 0,
                   rung |-> 4, reordered |-> FALSE, skipped |-> 0]
      BY <1>7 DEF Miss, NoResult
    <3> QED BY <3>1, <3>2 DEF Results
  <2> QED BY <2>1, <2>2
      DEF IInv, MatcherTypeOK, AnsweredOrOwed, HeldInOrder, Held, Positions
<1> QED BY <1>2, <1>3, <1>4, <1>5, <1>6, <1>7 DEF Match

LEMMA NextKeeps == IInv /\ [MatcherNext]_matcherVars => IInv'
<1> SUFFICES ASSUME IInv, [MatcherNext]_matcherVars PROVE IInv'
  OBVIOUS
<1>1. CASE MatcherNext
  <2>1. PICK live \in Requests, busy \in 0..MaxPeak : Match(live, busy)
    BY <1>1 DEF MatcherNext
  <2>2. busy \in Nat
    BY BoundsAssumption
  <2> QED BY <2>1, <2>2, MatchKeeps
<1>2. CASE UNCHANGED matcherVars
  BY <1>2 DEF matcherVars, IInv, MatcherTypeOK, AnsweredOrOwed, HeldInOrder,
              Held, Positions
<1> QED BY <1>1, <1>2

THEOREM Invariant == MatcherSpec => []IInv
BY InitIInv, NextKeeps, PTL DEF MatcherSpec

(* The state of the matcher keeps its type (matching.ts, class RequestMatcher). *)
THEOREM TypeCorrect == MatcherSpec => []MatcherTypeOK
<1>1. IInv => MatcherTypeOK
  BY DEF IInv
<1> QED BY <1>1, Invariant, PTL

(* No recorded answer is handed out twice, and none that a match stepped   *)
(* over is lost: it is held until it is served (#deferred, #skipTo).       *)
THEOREM BooksBalance == MatcherSpec => []AnsweredOrOwed
<1>1. IInv => AnsweredOrOwed
  BY DEF IInv
<1> QED BY <1>1, Invariant, PTL

(* The held positions ascend and lie behind the cursor (#matchDeferred).    *)
THEOREM HeldAscend == MatcherSpec => []HeldInOrder
<1>1. IInv => HeldInOrder
  BY DEF IInv
<1> QED BY <1>1, Invariant, PTL

-----------------------------------------------------------------------------
(* What an exact answer is worth. *)

(* The three exact searches of match() overlook no unused position. *)
LEMMA NoExactIsComplete ==
  ASSUME IInv, NEW live, NoExact(live), NEW q \in Unserved
  PROVE  recorded[q] # live
<1>1. /\ q \in Positions /\ q \in Nat /\ cursor \in Nat \ {0}
      /\ q >= cursor \/ q \in Held
  BY DEF IInv, Unserved, AnsweredOrOwed, MatcherTypeOK, Positions
<1>2. CASE q = cursor
  BY <1>1, <1>2 DEF NoExact, ExactAtCursor
<1>3. CASE q > cursor
  BY <1>1, <1>3 DEF NoExact, ExactAhead
<1>4. CASE q \in Held
  BY <1>4 DEF Held, Elements, NoExact, ExactHeld
<1> QED BY <1>1, <1>2, <1>3, <1>4

LEMMA ExactOrNoExact ==
  ASSUME IInv, NEW live \in Requests, NEW busy, Match(live, busy)
  PROVE  /\ last'.live = live
         /\ last'.rung = 1 \/ NoExact(live)
<1>1. \A p, reordered, skipped : Answer(live, p, reordered, skipped)
        => last'.live = live /\ last'.rung = RungAt(live, p)
  BY DEF Answer
<1>2. \A p : recorded[p] = live => RungAt(live, p) = 1
  BY RungOneIsEquality DEF RungAt
<1>3. CASE MatchCursorExactly(live)
  BY <1>1, <1>2, <1>3 DEF MatchCursorExactly, ExactAtCursor, TakeCursor
<1>4. CASE MatchHeldExactly(live)
  BY <1>1, <1>2, <1>4 DEF MatchHeldExactly, ExactHeld, TakeHeld
<1>5. CASE MatchAheadExactly(live)
  BY <1>1, <1>2, <1>5 DEF MatchAheadExactly, ExactAhead, SkipTo
<1>6. CASE MatchNearestHeld(live)
  BY <1>1, <1>6 DEF MatchNearestHeld, TakeHeld
<1>7. CASE MatchNearest(live, busy)
  BY <1>1, <1>7 DEF MatchNearest, TakeCursor, TakeHeld, SkipTo
<1>8. CASE Miss(live, busy)
  BY <1>8 DEF Miss, NoResult
<1> QED BY <1>3, <1>4, <1>5, <1>6, <1>7, <1>8 DEF Match

(* A request that is still unused in the recording, byte for byte, is      *)
(* answered at rung 1 (match(): the cursor, #matchDeferred, #exactAhead    *)
(* before any approximation).                                              *)
THEOREM ExactFirst == MatcherSpec => ExactOutranksApproximate
<1> DEFINE Exact ==
      (\E q \in Unserved : recorded[q] = last'.live) => last'.rung = 1
<1>1. IInv /\ [MatcherNext]_matcherVars => [Exact]_matcherVars
  <2> SUFFICES ASSUME IInv, MatcherNext PROVE Exact
    OBVIOUS
  <2>1. PICK live \in Requests, busy \in 0..MaxPeak : Match(live, busy)
    BY DEF MatcherNext
  <2>2. last'.live = live /\ (last'.rung = 1 \/ NoExact(live))
    BY <2>1, ExactOrNoExact
  <2> QED BY <2>2, NoExactIsComplete
<1> QED BY <1>1, Invariant, PTL DEF MatcherSpec, ExactOutranksApproximate

(* A rerun that asks what was recorded, each request once and in any order,*)
(* is answered byte-identically every time, however its workers interleave *)
(* (match() with #exactAhead and #matchDeferred).                          *)
THEOREM RerunExact == RerunSpec => RerunIsExact
<1>1. IInv /\ [RerunNext]_matcherVars => IInv' /\ [last'.rung = 1]_matcherVars
  <2> SUFFICES ASSUME IInv, RerunNext PROVE IInv' /\ last'.rung = 1
    BY NextKeeps
  <2>1. PICK p \in Positions, busy \in 0..MaxPeak :
          served[p] = 0 /\ Match(recorded[p], busy)
    BY DEF RerunNext
  <2>2. recorded[p] \in Requests /\ p \in Unserved /\ busy \in Nat
    BY <2>1, BoundsAssumption DEF IInv, MatcherTypeOK, Positions, Unserved
  <2>3. IInv'
    BY <2>1, <2>2, MatchKeeps
  <2>4. ~ NoExact(recorded[p])
    BY <2>2, NoExactIsComplete
  <2> QED BY <2>1, <2>2, <2>3, <2>4, ExactOrNoExact
<1> QED BY <1>1, InitIInv, PTL DEF RerunSpec, RerunIsExact

-----------------------------------------------------------------------------
(* What an approximate answer is worth. *)

LEMMA DistanceType ==
  ASSUME NEW a \in Requests, NEW b \in Requests
  PROVE  Distance(a, b) \in Nat /\ (a = b => Distance(a, b) = 0)
<1>1. /\ a.ask \in Nat /\ a.out \in Nat /\ a.count \in Nat /\ a.drift \in Nat
      /\ b.ask \in Nat /\ b.out \in Nat /\ b.count \in Nat /\ b.drift \in Nat
  BY RequestsAssumption DEF RequestShape
<1>2. \A m, n \in Nat : Abs(m - n) \in Nat /\ Abs(m - m) = 0
  BY DEF Abs
<1>3. MessageWeight \in Nat
  BY BoundsAssumption
<1>4. \A n \in Nat : MessageWeight * n \in Nat /\ MessageWeight * 0 = 0
  BY <1>3
<1>5. /\ Abs(a.ask - b.ask) \in Nat /\ Abs(a.out - b.out) \in Nat
      /\ Abs(a.drift - b.drift) \in Nat /\ Abs(a.count - b.count) \in Nat
  BY <1>1, <1>2
<1>6. MessageWeight * Abs(a.count - b.count) \in Nat
  BY <1>4, <1>5
<1>7. ASSUME a = b PROVE Distance(a, b) = 0
  <2>1. /\ Abs(a.ask - b.ask) = 0 /\ Abs(a.out - b.out) = 0
        /\ Abs(a.drift - b.drift) = 0 /\ Abs(a.count - b.count) = 0
    BY <1>1, <1>2, <1>7
  <2>2. MessageWeight * Abs(a.count - b.count) = 0
    BY <1>4, <2>1
  <2> QED BY <2>1, <2>2 DEF Distance, LeafDistance, Comparable
<1>8. Distance(a, b) \in Nat
  BY <1>5, <1>6 DEF Distance, LeafDistance, Comparable
<1> QED BY <1>7, <1>8

\* Equal up to salt is rung 2 at least.
LEMMA EqualUpToSalt ==
  ASSUME NEW live, NEW r, Distance(live, r) = 0 PROVE Rung(live, r) <= 2
BY DEF Rung

\* A step that serves a position serves the one it names.
LEMMA TakesNameWhatTheyServe ==
  ASSUME NEW live, NEW p, NEW reordered, NEW skipped, Answer(live, p, reordered, skipped)
  PROVE  last'.live = live /\ last'.index = p /\ last'.rung = RungAt(live, p)
BY DEF Answer

\* Whatever way a position is taken, the result names the rung it stands on.
LEMMA ServedRung ==
  ASSUME NEW live, NEW busy, Match(live, busy), NEW p \in Positions, Served(p)
  PROVE  last'.live = live /\ last'.rung = RungAt(live, p)
<1>1. ~ Miss(live, busy)
  BY DEF Served, Miss
<1>2. \E q, reordered, skipped : Answer(live, q, reordered, skipped)
  BY <1>1 DEF Match, MatchCursorExactly, MatchHeldExactly, MatchAheadExactly,
     MatchNearestHeld, MatchNearest, TakeCursor, TakeHeld, SkipTo
<1> QED BY <1>2, TakesNameWhatTheyServe DEF Served

(* rank() weighs a unit of distance 1e3 and a position by how far it is    *)
(* from the cursor, so the distance leads only where no position is        *)
(* farther than that: in a recording of up to a thousand requests.         *)
DistanceLeads == MaxRecorded <= DistanceWeight

RecInv == IInv /\ Len(recorded) <= MaxRecorded

LEMMA RecInvHolds == MatcherSpec => []RecInv
<1>1. MatcherInit => RecInv
  <2>1. ASSUME MatcherInit PROVE Len(recorded) <= MaxRecorded
    <3>1. PICK n \in 0..MaxRecorded : recorded \in [1..n -> Requests]
      BY <2>1 DEF MatcherInit, Recordings
    <3>2. n \in Nat /\ n <= MaxRecorded
      BY BoundsAssumption
    <3> QED BY <3>1, <3>2
  <2> QED BY <2>1, InitIInv DEF RecInv
<1>2. RecInv /\ [MatcherNext]_matcherVars => RecInv'
  <2>1. ASSUME NEW live, NEW busy, Match(live, busy) PROVE recorded' = recorded
    <3>1. \/ Miss(live, busy)
          \/ \E q, reordered, skipped : Answer(live, q, reordered, skipped)
      BY <2>1 DEF Match, MatchCursorExactly, MatchHeldExactly, MatchAheadExactly,
         MatchNearestHeld, MatchNearest, TakeCursor, TakeHeld, SkipTo
    <3> QED BY <3>1 DEF Miss, Answer
  <2>2. ASSUME [MatcherNext]_matcherVars PROVE recorded' = recorded
    BY <2>1, <2>2 DEF MatcherNext, matcherVars
  <2> QED BY <2>2, NextKeeps DEF RecInv
<1> QED BY <1>1, <1>2, PTL DEF MatcherSpec

\* Where nothing matches exactly, the position served is the best of its candidates,
\* and anything unused and equal up to salt within reach is one of them.
Candidates(live, busy) ==
  IF cursor \in Positions THEN NearCandidates(live, busy) ELSE HeldCandidates(live)

LEMMA ServesTheBest ==
  ASSUME IInv, NEW live \in Requests, NEW busy \in 0..MaxPeak, Match(live, busy),
         NoExact(live), NEW p \in Positions, Served(p)
  PROVE  IsBest(live, p, Candidates(live, busy))
<1>1. CASE MatchNearestHeld(live)
  <2>1. PICK slot \in 1..Len(deferred) :
          /\ IsBest(live, deferred[slot], HeldCandidates(live))
          /\ TakeHeld(live, slot)
    BY <1>1 DEF MatchNearestHeld
  <2>2. last'.index = deferred[slot]
    BY <2>1 DEF TakeHeld, Answer
  <2>3. cursor \notin Positions
    BY <1>1 DEF MatchNearestHeld, Positions, IInv, MatcherTypeOK
  <2> QED BY <2>1, <2>2, <2>3 DEF Served, Candidates
<1>2. CASE MatchNearest(live, busy)
  <2>1. PICK q \in NearCandidates(live, busy) :
          /\ IsBest(live, q, NearCandidates(live, busy))
          /\ \/ q = cursor /\ TakeCursor(live)
             \/ \E slot \in 1..Len(deferred) : deferred[slot] = q /\ TakeHeld(live, slot)
             \/ q > cursor /\ SkipTo(live, q)
    BY <1>2 DEF MatchNearest
  <2>2. last'.index = q
    BY <2>1 DEF TakeCursor, TakeHeld, SkipTo, Answer
  <2>3. cursor \in Positions
    BY <1>2 DEF MatchNearest
  <2> QED BY <2>1, <2>2, <2>3 DEF Served, Candidates
<1>3. ~ Miss(live, busy)
  BY DEF Served, Miss
<1>4. ~ MatchCursorExactly(live) /\ ~ MatchHeldExactly(live) /\ ~ MatchAheadExactly(live)
  BY DEF NoExact, MatchCursorExactly, MatchHeldExactly, MatchAheadExactly
<1> QED BY <1>1, <1>2, <1>3, <1>4 DEF Match

LEMMA OwnIsCandidate ==
  ASSUME IInv, NEW live \in Requests, NEW busy \in 0..MaxPeak,
         NEW q \in Unserved, q <= cursor + Lookahead, Distance(live, recorded[q]) = 0
  PROVE  q \in Candidates(live, busy)
<1>1. /\ q \in Positions /\ q \in Nat /\ cursor \in Nat \ {0}
      /\ q >= cursor \/ q \in Held
      /\ Held \subseteq 1..(cursor - 1) /\ cursor <= Len(recorded) + 1
      /\ Positions = 1..Len(recorded) /\ Len(recorded) \in Nat
  BY DEF IInv, Unserved, AnsweredOrOwed, MatcherTypeOK, HeldInOrder, Positions
<1>2. RungAt(live, q) <= 2 /\ RungAt(live, q) <= 3
  BY EqualUpToSalt, RungType DEF RungAt
<1>3. CASE q = cursor
  BY <1>1, <1>2, <1>3 DEF Candidates, NearCandidates, CursorCandidate
<1>4. CASE q \in Held
  BY <1>2, <1>4 DEF Candidates, NearCandidates, HeldCandidates
<1>5. CASE q > cursor
  <2>1. cursor \in Positions
    BY <1>1, <1>5
  <2>2. Lookahead \in Nat /\ busy \in Nat /\ Lookahead <= Window(busy) /\ Window(busy) \in Nat
    BY BoundsAssumption DEF Window
  <2>3. q <= cursor + Window(busy)
    BY <1>1, <2>2
  <2> QED BY <1>1, <1>2, <1>5, <2>1, <2>3 DEF Candidates, NearCandidates, NearAhead
<1> QED BY <1>1, <1>3, <1>4, <1>5

\* One whose distance is nothing outranks any other, if distance leads.
LEMMA OwnOutranks ==
  ASSUME RecInv, DistanceLeads, NEW live \in Requests,
         NEW p \in Positions, NEW q \in Positions,
         Distance(live, recorded[q]) = 0, Distance(live, recorded[p]) > 0,
         RungAt(live, q) <= RungAt(live, p)
  PROVE  /\ Rank(live, q) < Rank(live, p)
         /\ Rank(live, q) \in Int /\ Rank(live, p) \in Int
<1> DEFINE d == Distance(live, recorded[p])
           k == RungAt(live, p)
           j == RungAt(live, q)
<1>1. /\ recorded[p] \in Requests /\ p \in 1..MaxRecorded /\ q \in 1..MaxRecorded
      /\ cursor \in 1..(MaxRecorded + 1) /\ Len(recorded) \in Nat
      /\ p <= Len(recorded) /\ q <= Len(recorded) /\ cursor <= Len(recorded) + 1
      /\ Len(recorded) <= MaxRecorded
  BY BoundsAssumption DEF RecInv, IInv, MatcherTypeOK, Positions
<1>2. d \in Nat /\ d >= 1
  BY <1>1, DistanceType
<1>3. k \in 1..4 /\ j \in 1..4 /\ j <= k
  BY RungType DEF RungAt
<1>4. /\ RungWeight \in Nat /\ DistanceWeight \in Nat /\ MaxRecorded \in Nat
      /\ MaxRecorded <= DistanceWeight
  BY BoundsAssumption DEF DistanceLeads
<1>5. /\ Abs(p - cursor) \in Nat /\ Abs(q - cursor) \in Nat
      /\ Abs(q - cursor) < MaxRecorded + Abs(p - cursor)
  BY <1>1, <1>4 DEF Abs
<1>6. Rank(live, p) = k * RungWeight + d * DistanceWeight + Abs(p - cursor)
  BY DEF Rank
<1>7. Rank(live, q) = j * RungWeight + 0 * DistanceWeight + Abs(q - cursor)
  BY DEF Rank
<1> HIDE DEF d, k, j
<1>8. /\ j * RungWeight <= k * RungWeight
      /\ j * RungWeight \in Nat /\ k * RungWeight \in Nat
  <2>1. /\ 1 * RungWeight = RungWeight /\ 2 * RungWeight = RungWeight + RungWeight
        /\ 3 * RungWeight = RungWeight + RungWeight + RungWeight
        /\ 4 * RungWeight = RungWeight + RungWeight + RungWeight + RungWeight
    BY <1>4
  <2>2. j \in {1, 2, 3, 4} /\ k \in {1, 2, 3, 4}
    BY <1>3
  <2> QED BY <1>3, <1>4, <2>1, <2>2
<1>9. d * DistanceWeight >= DistanceWeight /\ d * DistanceWeight \in Nat
  <2>1. (d - 1) * DistanceWeight \in Nat
    BY <1>2, <1>4
  <2>2. d * DistanceWeight = (d - 1) * DistanceWeight + DistanceWeight
    BY <1>2, <1>4
  <2> QED BY <1>4, <2>1, <2>2
<1>10. 0 * DistanceWeight = 0
  BY <1>4
<1> QED BY <1>4, <1>5, <1>6, <1>7, <1>8, <1>9, <1>10

(* A position that really differs is not served while one that is equal up *)
(* to salt is held or at the cursor or within the window (#nearest and     *)
(* rank(): the distance before nearness).                                  *)
THEOREM OwnAnswerFirst == DistanceLeads /\ MatcherSpec => OwnAnswerPreferred
<1> DEFINE Own == \A p \in Positions :
               Served(p) /\ Distance(last'.live, recorded[p]) > 0
                 => \A q \in Unserved :
                      q <= cursor + Lookahead => Distance(last'.live, recorded[q]) > 0
<1> SUFFICES ASSUME DistanceLeads PROVE MatcherSpec => OwnAnswerPreferred
  OBVIOUS
<1>1. RecInv /\ [MatcherNext]_matcherVars => [Own]_matcherVars
  <2> SUFFICES ASSUME RecInv, MatcherNext,
                      NEW p \in Positions, Served(p), Distance(last'.live, recorded[p]) > 0,
                      NEW q \in Unserved, q <= cursor + Lookahead,
                      ~ (Distance(last'.live, recorded[q]) > 0)
               PROVE  FALSE
    OBVIOUS
  <2>1. PICK live \in Requests, busy \in 0..MaxPeak : Match(live, busy)
    BY DEF MatcherNext
  <2>2. IInv
    BY DEF RecInv
  <2>3. last'.live = live /\ (last'.rung = 1 \/ NoExact(live))
    BY <2>1, <2>2, ExactOrNoExact
  <2>4. recorded[p] \in Requests /\ recorded[q] \in Requests /\ q \in Positions
    BY <2>2 DEF IInv, MatcherTypeOK, Positions, Unserved
  <2>5. Distance(live, recorded[q]) = 0
    BY <2>3, <2>4, DistanceType
  <2>6. recorded[p] # live
    BY <2>3, <2>4, DistanceType
  <2>7. last'.rung = RungAt(live, p)
    BY <2>1, <2>2, ServedRung
  <2>8. NoExact(live)
    BY <2>3, <2>6, <2>7, RungOneIsEquality DEF RungAt
  <2>9. IsBest(live, p, Candidates(live, busy)) /\ q \in Candidates(live, busy)
    BY <2>1, <2>2, <2>5, <2>8, ServesTheBest, OwnIsCandidate
  <2>10. RungAt(live, q) <= RungAt(live, p)
    <3>1. RungAt(live, q) <= 2 /\ RungAt(live, q) \in 1..4 /\ RungAt(live, p) \in 1..4
      BY <2>5, EqualUpToSalt, RungType DEF RungAt
    <3>2. RungAt(live, p) # 1
      BY <2>6, RungOneIsEquality DEF RungAt
    <3> QED BY <3>1, <3>2
  <2>11. Rank(live, q) < Rank(live, p) /\ Rank(live, q) \in Int /\ Rank(live, p) \in Int
    BY <2>3, <2>4, <2>5, <2>10, OwnOutranks
  <2> QED BY <2>9, <2>11 DEF IsBest
<1> QED BY <1>1, RecInvHolds, PTL DEF MatcherSpec, OwnAnswerPreferred

(* Rung 3 is served in place only, and an approximate skip never leaves    *)
(* the window, which is as wide as the widest concurrency reported.        *)
THEOREM OutOfPlaceClose == MatcherSpec => OutOfPlaceIsClose
<1> DEFINE Close == \A p \in Positions :
               Served(p) /\ p # cursor
                 => /\ last'.rung <= 2
                    /\ last'.rung = 2 => p <= cursor + Window(MaxPeak)
<1>1. IInv /\ [MatcherNext]_matcherVars => [Close]_matcherVars
  <2> SUFFICES ASSUME IInv, MatcherNext, NEW p \in Positions, Served(p), p # cursor
               PROVE  last'.rung <= 2 /\ (last'.rung = 2 => p <= cursor + Window(MaxPeak))
    OBVIOUS
  <2>1. PICK live \in Requests, busy \in 0..MaxPeak : Match(live, busy)
    BY DEF MatcherNext
  <2>2. last'.live = live /\ (last'.rung = 1 \/ NoExact(live))
    BY <2>1, ExactOrNoExact
  <2>3. CASE last'.rung = 1
    BY <2>3
  <2>4. CASE NoExact(live)
    <3>1. p \in Candidates(live, busy) /\ last'.rung = RungAt(live, p)
      BY <2>1, <2>4, ServesTheBest, ServedRung DEF IsBest
    <3>2. RungAt(live, p) <= 2 /\ (p \in Held \/ p \in NearAhead(busy))
      BY <3>1 DEF Candidates, NearCandidates, CursorCandidate, HeldCandidates
    <3>3. /\ cursor \in Nat /\ p \in Nat /\ busy \in Nat /\ busy <= MaxPeak
          /\ Held \subseteq 1..(cursor - 1)
      BY BoundsAssumption DEF IInv, MatcherTypeOK, HeldInOrder, Positions
    <3>4. Window(busy) <= Window(MaxPeak) /\ Window(busy) \in Nat /\ Window(MaxPeak) \in Nat
      BY <3>3, BoundsAssumption DEF Window
    <3>5. p <= cursor + Window(MaxPeak)
      BY <3>2, <3>3, <3>4 DEF NearAhead
    <3> QED BY <3>1, <3>2, <3>5
  <2> QED BY <2>2, <2>3, <2>4
<1> QED BY <1>1, Invariant, PTL DEF MatcherSpec, OutOfPlaceIsClose

-----------------------------------------------------------------------------
(* The proxy. *)

(* What one match() does to the books, as a handler sees it. *)

LEMMA AnswerIsNew ==
  ASSUME IInv, NEW live \in Requests, NEW p \in Positions, IInv',
         NEW reordered \in BOOLEAN, NEW skipped \in Nat,
         Answer(live, p, reordered, skipped)
  PROVE  /\ recorded' = recorded
         /\ last'.index = p /\ last'.index \in Nat
         /\ last'.rung = Rung(live, recorded[p])
         /\ served[p] = 0 /\ served'[p] = 1
         /\ \A q \in Positions : served[q] = 1 => served'[q] = 1
<1>1. MatcherTypeOK /\ AnsweredOrOwed /\ AnsweredOrOwed'
  BY DEF IInv
<1>2. /\ recorded' = recorded /\ Positions' = Positions
      /\ served'[p] = served[p] + 1
      /\ \A q \in Positions : q # p => served'[q] = served[q]
      /\ last'.index = p /\ last'.rung = RungAt(live, p)
  BY <1>1, AnswerType
<1>3. served[p] \in {0, 1} /\ served'[p] \in {0, 1} /\ p \in Nat
  BY <1>1, <1>2 DEF AnsweredOrOwed, Positions
<1>4. served[p] = 0 /\ served'[p] = 1
  BY <1>2, <1>3
<1> QED BY <1>2, <1>3, <1>4 DEF RungAt

LEMMA AnswersNeverFail ==
  ASSUME IInv, NEW live \in Requests, NEW wide \in Nat, Match(live, wide)
  PROVE  \/ \E p \in Positions, reordered \in BOOLEAN, skipped \in Nat :
              Answer(live, p, reordered, skipped)
         \/ Miss(live, wide)
<1>1. MatcherTypeOK /\ cursor \in Nat /\ Positions \subseteq Nat
  BY DEF IInv, MatcherTypeOK, Positions
<1>2. \A slot \in 1..Len(deferred) : deferred[slot] \in Positions
  <2>1. \A slot \in 1..Len(deferred) : deferred[slot] \in 1..(cursor - 1)
    BY DEF IInv, HeldInOrder, Held, Elements
  <2>2. cursor \in 1..(Len(recorded) + 1) /\ Len(recorded) \in Nat
    BY <1>1 DEF MatcherTypeOK
  <2> QED BY <2>1, <2>2 DEF Positions
<1>3. \A slot \in 1..Len(deferred) : TakeHeld(live, slot)
        => \E p \in Positions, reordered \in BOOLEAN, skipped \in Nat :
             Answer(live, p, reordered, skipped)
  BY <1>2 DEF TakeHeld
<1>4. cursor \in Positions /\ TakeCursor(live)
        => \E p \in Positions, reordered \in BOOLEAN, skipped \in Nat :
             Answer(live, p, reordered, skipped)
  BY DEF TakeCursor
<1>5. \A p \in Positions : p > cursor /\ SkipTo(live, p)
        => \E q \in Positions, reordered \in BOOLEAN, skipped \in Nat :
             Answer(live, q, reordered, skipped)
  <2> SUFFICES ASSUME NEW p \in Positions, p > cursor, SkipTo(live, p)
               PROVE  \E q \in Positions, reordered \in BOOLEAN, skipped \in Nat :
                        Answer(live, q, reordered, skipped)
    OBVIOUS
  <2>1. p - cursor \in Nat
    BY <1>1
  <2> QED BY <2>1 DEF SkipTo
<1>6. CASE MatchCursorExactly(live)
  BY <1>4, <1>6 DEF MatchCursorExactly, ExactAtCursor
<1>7. CASE MatchHeldExactly(live)
  BY <1>3, <1>7 DEF MatchHeldExactly, ExactHeld
<1>8. CASE MatchAheadExactly(live)
  BY <1>5, <1>8 DEF MatchAheadExactly, ExactAhead
<1>9. CASE MatchNearestHeld(live)
  BY <1>3, <1>9 DEF MatchNearestHeld
<1>10. CASE MatchNearest(live, wide)
  <2>1. PICK p \in NearCandidates(live, wide) :
          \/ p = cursor /\ TakeCursor(live)
          \/ \E slot \in 1..Len(deferred) : deferred[slot] = p /\ TakeHeld(live, slot)
          \/ p > cursor /\ SkipTo(live, p)
    BY <1>10 DEF MatchNearest
  <2>2. CASE p > cursor /\ SkipTo(live, p)
    <3>1. \A q \in Held : q <= cursor
      BY <1>1 DEF IInv, HeldInOrder, MatcherTypeOK
    <3>2. p \in Positions
      BY <1>1, <2>1, <2>2, <3>1
      DEF NearCandidates, CursorCandidate, NearAhead, MatcherTypeOK, Positions
    <3> QED BY <1>5, <2>2, <3>2
  <2> QED BY <1>3, <1>4, <1>10, <2>1, <2>2 DEF MatchNearest
<1> QED BY <1>6, <1>7, <1>8, <1>9, <1>10 DEF Match

LEMMA CursorAdvances ==
  ASSUME IInv, NEW live \in Requests, NEW wide \in Nat, Match(live, wide)
  PROVE  cursor \in Nat /\ cursor' \in Nat /\ cursor <= cursor'
<1>1. cursor \in Nat /\ Positions \subseteq Nat
  BY DEF IInv, MatcherTypeOK, Positions
<1>2. \/ cursor' = cursor \/ cursor' = cursor + 1
      \/ \E p \in NearCandidates(live, wide) \union ExactAhead(live) :
           p > cursor /\ cursor' = p + 1
  BY DEF Match, MatchCursorExactly, MatchHeldExactly, MatchAheadExactly,
         MatchNearestHeld, MatchNearest, Miss, TakeCursor, TakeHeld, SkipTo, ExactAhead
<1>3. \A p \in NearCandidates(live, wide) \union ExactAhead(live) :
        p \in Nat
  BY <1>1 DEF NearCandidates, CursorCandidate, NearAhead, ExactAhead, Held, Elements, IInv,
              MatcherTypeOK
<1> QED BY <1>1, <1>2, <1>3

LEMMA MatchStep ==
  ASSUME IInv, NEW live \in Requests, NEW wide \in Nat, Match(live, wide)
  PROVE  /\ IInv' /\ recorded' = recorded
         /\ cursor \in Nat /\ cursor' \in Nat /\ cursor <= cursor'
         /\ last'.index \in Nat
         /\ \A q \in Positions : served[q] = 1 => served'[q] = 1
         /\ last'.rung # 4 =>
              /\ last'.index \in Positions
              /\ served[last'.index] = 0 /\ served'[last'.index] = 1
              /\ last'.rung = Rung(live, recorded[last'.index])
<1>1. IInv'
  BY MatchKeeps
<1>2. cursor \in Nat /\ cursor' \in Nat /\ cursor <= cursor'
  BY CursorAdvances
<1>3. CASE Miss(live, wide)
  <2>1. last'.rung = 4 /\ recorded' = recorded /\ served' = served
    BY <1>3 DEF Miss, NoResult
  <2>2. last'.index \in Nat
    BY <1>1 DEF IInv, MatcherTypeOK, Results
  <2> QED BY <1>1, <1>2, <2>1, <2>2
<1>4. CASE \E p \in Positions, reordered \in BOOLEAN, skipped \in Nat :
             Answer(live, p, reordered, skipped)
  BY <1>1, <1>2, <1>4, AnswerIsNew
<1> QED BY <1>3, <1>4, AnswersNeverFail

-----------------------------------------------------------------------------
(***************************************************************************)
(* The inductive invariant.  Counting bounds the concurrency the matcher   *)
(* is told; Prefix ties the matcher's recording to the fork point; the     *)
(* other parts strengthen the properties they are named for.               *)
(***************************************************************************)
Phases == {"none", "reading", "fetching", "translating", "piping", "blocked", "done"}
Ways == {"none", "trace", "record", "fork", "miss", "pass", "halted", "refused"}

Counting ==
  /\ inFlight = Cardinality(Open)
  /\ peak <= Cardinality(Conns)

Prefix == config.mode = "hybrid" => Len(recorded) = config.forkAt

Offline ==
  Strict =>
    /\ \A c \in Conns : /\ conn[c].phase \in {"none", "reading", "done"}
                        /\ conn[c].via \notin {"record", "fork", "miss", "pass"}
    /\ captured = << >> /\ netEvents = << >>

Quiet ==
  \A c \in Conns :
    /\ conn[c].via = "record" => config.mode = "record"
    /\ conn[c].via = "fork" => config.mode = "record" \/ cursor > Len(recorded)
    /\ conn[c].via = "miss" => c \in diverged

Distinct ==
  /\ \A c \in Conns : conn[c].via = "trace" =>
       /\ conn[c].index \in Positions
       /\ served[conn[c].index] = 1
       /\ Rung(conn[c].request, recorded[conn[c].index]) <= 3
  /\ \A c, d \in Conns :
       conn[c].via = "trace" /\ conn[d].via = "trace" /\ conn[c].index = conn[d].index
         => c = d

ProxyIInv ==
  ProxyTypeOK /\ IInv /\ Counting /\ Prefix /\ Offline /\ Quiet /\ Distinct

-----------------------------------------------------------------------------
(* How a step of a handler changes its connection. *)

Changes(c, phase, via, index) ==
  /\ conn' \in [Conns -> Connections]
  /\ conn'[c].phase = phase /\ conn'[c].via = via /\ conn'[c].index = index
  /\ conn'[c].request = conn[c].request /\ conn'[c].kind = conn[c].kind
  /\ \A d \in Conns : d # c => conn'[d] = conn[d]

LEMMA ConnFacts ==
  ASSUME ProxyTypeOK, NEW c \in Conns
  PROVE  /\ conn \in [Conns -> Connections] /\ conn[c] \in Connections
         /\ conn[c].kind \in Kinds \union {"none"} /\ conn[c].request \in Requests
         /\ conn[c].phase \in Phases /\ conn[c].via \in Ways /\ conn[c].index \in Nat
<1>1. conn[c] \in Connections
  BY DEF ProxyTypeOK
<1> QED BY <1>1 DEF ProxyTypeOK, Connections, Phases, Ways

LEMMA TwoFields ==
  ASSUME NEW r \in Connections, NEW phase, NEW via
  PROVE  [r EXCEPT !.phase = phase, !.via = via]
           = [kind |-> r.kind, request |-> r.request, phase |-> phase,
              via |-> via, index |-> r.index]
<1> DEFINE q == [r EXCEPT !.phase = phase]
<1>1. q = [kind |-> r.kind, request |-> r.request, phase |-> phase,
           via |-> r.via, index |-> r.index]
  BY DEF Connections
<1>2. [q EXCEPT !.via = via] = [kind |-> r.kind, request |-> r.request, phase |-> phase,
                                via |-> via, index |-> r.index]
  <2> HIDE DEF q
  <2> QED BY <1>1
<1> QED BY <1>2

LEMMA ThreeFields ==
  ASSUME NEW r \in Connections, NEW phase, NEW via, NEW index
  PROVE  [r EXCEPT !.phase = phase, !.via = via, !.index = index]
           = [kind |-> r.kind, request |-> r.request, phase |-> phase,
              via |-> via, index |-> index]
<1> DEFINE q == [r EXCEPT !.phase = phase, !.via = via]
<1>1. q = [kind |-> r.kind, request |-> r.request, phase |-> phase,
           via |-> via, index |-> r.index]
  BY TwoFields
<1>2. [q EXCEPT !.index = index] = [kind |-> r.kind, request |-> r.request,
                                    phase |-> phase, via |-> via, index |-> index]
  <2> HIDE DEF q
  <2> QED BY <1>1
<1> QED BY <1>2

LEMMA FinishChanges ==
  ASSUME ProxyTypeOK, NEW c \in Conns, NEW via \in Ways, NEW index \in Nat,
         Finish(c, via, index)
  PROVE  Changes(c, "done", via, index)
<1>1. conn' = [conn EXCEPT ![c] = [conn[c] EXCEPT !.phase = "done", !.via = via,
                                                  !.index = index]]
  BY DEF Finish
<1>2. [conn[c] EXCEPT !.phase = "done", !.via = via, !.index = index]
        = [kind |-> conn[c].kind, request |-> conn[c].request, phase |-> "done",
           via |-> via, index |-> index]
  <2>1. conn[c] \in Connections
    BY ConnFacts
  <2> QED BY <2>1, ThreeFields
<1> QED BY <1>1, <1>2, ConnFacts DEF Changes, Connections, Phases, Ways

LEMMA FetchChanges ==
  ASSUME ProxyTypeOK, NEW c \in Conns, NEW via \in Ways, Fetch(c, via)
  PROVE  Changes(c, "fetching", via, conn[c].index)
<1>1. conn' = [conn EXCEPT ![c] = [conn[c] EXCEPT !.phase = "fetching", !.via = via]]
  BY DEF Fetch
<1>2. [conn[c] EXCEPT !.phase = "fetching", !.via = via]
        = [kind |-> conn[c].kind, request |-> conn[c].request, phase |-> "fetching",
           via |-> via, index |-> conn[c].index]
  BY ConnFacts, TwoFields
<1> QED BY <1>1, <1>2, ConnFacts DEF Changes, Connections, Phases, Ways

LEMMA PhaseChanges ==
  ASSUME ProxyTypeOK, NEW c \in Conns, NEW phase \in Phases,
         conn' = [conn EXCEPT ![c].phase = phase]
  PROVE  Changes(c, phase, conn[c].via, conn[c].index)
<1>1. conn' = [conn EXCEPT ![c] = [conn[c] EXCEPT !.phase = phase]]
  BY ConnFacts
<1>2. [conn[c] EXCEPT !.phase = phase]
        = [kind |-> conn[c].kind, request |-> conn[c].request, phase |-> phase,
           via |-> conn[c].via, index |-> conn[c].index]
  BY ConnFacts DEF Connections
<1> QED BY <1>1, <1>2, ConnFacts DEF Changes, Connections, Phases, Ways

LEMMA ArriveChanges ==
  ASSUME ProxyTypeOK, NEW c \in Conns, NEW kind \in Kinds, NEW request \in Requests,
         Arrive(c, kind, request)
  PROVE  /\ conn' \in [Conns -> Connections]
         /\ conn'[c].phase = "reading" /\ conn'[c].via = "none"
         /\ \A d \in Conns : d # c => conn'[d] = conn[d]
<1> DEFINE new == [kind |-> kind, request |-> request, phase |-> "reading",
                   via |-> "none", index |-> 0]
<1>1. new \in Connections
  BY DEF Connections
<1>2. conn' = [conn EXCEPT ![c] = new]
  BY DEF Arrive
<1>3. new.phase = "reading" /\ new.via = "none"
  OBVIOUS
<1> HIDE DEF new
<1> QED BY <1>1, <1>2, <1>3, ConnFacts

(* What is left of a step of one handler once its own work is put aside. *)
Leaves(c) == UNCHANGED conn /\ inFlight' = inFlight
Handles(c) ==
  /\ c \in Open
  /\ \E phase \in Phases \ {"none"}, via \in Ways, index \in Nat :
       /\ Changes(c, phase, via, index)
       /\ IF phase = "done" THEN Closed ELSE inFlight' = inFlight

LEMMA DecideHandles ==
  ASSUME ProxyIInv, NEW c \in Conns, Decide(c)
  PROVE  Handles(c) /\ peak' = peak
<1>1. ProxyTypeOK /\ IInv /\ conn[c].request \in Requests /\ peak \in Nat
  BY ConnFacts DEF ProxyIInv, ProxyTypeOK
<1>2. conn[c].phase = "reading" /\ c \in Open
  BY DEF Decide, BodyAborted, AnswerAtOnce, PassThrough, GoLive, ServeRecorded, Halt,
         GoLiveOnMiss, Consults, Reading, Open
<1>3. \A via \in Ways, index \in Nat : Finish(c, via, index) => Handles(c) /\ peak' = peak
  BY <1>1, <1>2, FinishChanges DEF Handles, Finish, Phases
<1>4. \A via \in Ways : Fetch(c, via) => Handles(c) /\ peak' = peak
  <2> SUFFICES ASSUME NEW via \in Ways, Fetch(c, via) PROVE Handles(c) /\ peak' = peak
    OBVIOUS
  <2>1. Changes(c, "fetching", via, conn[c].index) /\ conn[c].index \in Nat
    BY <1>1, FetchChanges, ConnFacts
  <2>2. inFlight' = inFlight /\ peak' = peak
    BY DEF Fetch
  <2> QED BY <1>2, <2>1, <2>2 DEF Handles, Phases
<1>5. Match(conn[c].request, peak) => last'.index \in Nat
  BY <1>1, MatchStep
<1>6. CASE BodyAborted(c) \/ AnswerAtOnce(c) \/ Halt(c)
  BY <1>3, <1>6 DEF BodyAborted, AnswerAtOnce, Halt, Ways
<1>7. CASE PassThrough(c)
  BY <1>3, <1>4, <1>7 DEF PassThrough, Ways
<1>8. CASE GoLive(c)
  BY <1>4, <1>8 DEF GoLive, Ways
<1>9. CASE GoLiveOnMiss(c)
  BY <1>4, <1>9 DEF GoLiveOnMiss, Ways
<1>10. CASE ServeRecorded(c)
  BY <1>3, <1>5, <1>10 DEF ServeRecorded, Consults, Ways
<1> QED BY <1>6, <1>7, <1>8, <1>9, <1>10 DEF Decide

(* The steps after the first await: the answer arrives, moves on or ends. *)
Forwards(c) ==
  Fetched(c) \/ Translate(c) \/ ChunkBlocks(c) \/ Drained(c) \/ UpstreamEnds(c)

LEMMA ForwardHandles ==
  ASSUME ProxyTypeOK, NEW c \in Conns, Forwards(c)
  PROVE  /\ conn[c].phase \in {"fetching", "translating", "piping", "blocked"}
         /\ Handles(c) /\ peak' = peak
         /\ \E phase \in Phases : Changes(c, phase, conn[c].via, conn[c].index)
         /\ UNCHANGED <<matcherVars, optionVars, gone, stats, diverged, alive>>
<1>1. /\ conn[c].phase \in {"fetching", "translating", "piping", "blocked"}
      /\ c \in Open
  BY DEF Forwards, Fetched, Translate, ChunkBlocks, Drained, UpstreamEnds, FetchFails,
         FetchAnswers, Translated, TranslationFails, In, Open
<1>2. conn[c].via \in Ways /\ conn[c].index \in Nat
  BY ConnFacts
<1>3. CASE End(c)
  <2>1. Changes(c, "done", conn[c].via, conn[c].index)
    BY <1>3, PhaseChanges DEF End, Phases
  <2>2. Handles(c)
    BY <1>1, <1>2, <1>3, <2>1 DEF Handles, End, Phases
  <2> QED BY <1>1, <1>3, <2>1, <2>2 DEF End, Phases
<1>4. CASE \E phase \in {"translating", "piping", "blocked"} : Move(c, phase)
  <2>1. PICK phase \in {"translating", "piping", "blocked"} : Move(c, phase)
    BY <1>4
  <2>2. Changes(c, phase, conn[c].via, conn[c].index)
    BY <2>1, PhaseChanges DEF Move, Phases
  <2>3. Handles(c)
    BY <1>1, <1>2, <2>1, <2>2 DEF Handles, Move, Phases
  <2> QED BY <1>1, <2>1, <2>2, <2>3 DEF Move, Phases
<1> QED BY <1>3, <1>4 DEF Forwards, Fetched, Translate, ChunkBlocks, Drained, UpstreamEnds,
           FetchFails, FetchAnswers, Translated, TranslationFails

(* A step that belongs to the client or to nobody. *)
Stirs(c) == ClientLeaves(c) \/ UpstreamBreaks(c)

LEMMA StirLeaves ==
  ASSUME NEW c \in Conns, Stirs(c)
  PROVE  /\ UNCHANGED <<matcherVars, optionVars, conn, inFlight, peak, stats, traceVars,
                        diverged>>
         /\ gone' = gone \union {c} \/ gone' = gone
         /\ alive' = FALSE \/ alive' = alive
BY DEF Stirs, ClientLeaves, UpstreamBreaks

LEMMA StepKinds ==
  ASSUME NEW c \in Conns, Step(c)
  PROVE  Decide(c) \/ Forwards(c) \/ Stirs(c)
BY DEF Step, Forwards, Stirs

-----------------------------------------------------------------------------
(* Counting: the number in flight is the number of open connections. *)

LEMMA OpenIsFinite ==
  /\ IsFiniteSet(Open) /\ Cardinality(Open) \in Nat
  /\ Cardinality(Open) <= Cardinality(Conns) /\ Cardinality(Conns) \in Nat
<1>1. IsFiniteSet(Conns) /\ Open \in SUBSET Conns
  BY ProxyAssumption DEF Open
<1> QED BY <1>1, FS_Subset, FS_CardinalityType

LEMMA HandlesCounts ==
  ASSUME ProxyTypeOK, Counting, NEW c \in Conns, Handles(c), peak' = peak
  PROVE  Counting' /\ inFlight' \in Nat
<1>1. PICK phase \in Phases \ {"none"}, via \in Ways, index \in Nat :
        /\ Changes(c, phase, via, index)
        /\ IF phase = "done" THEN Closed ELSE inFlight' = inFlight
  BY DEF Handles
<1>2. c \in Open
  BY DEF Handles
<1>3. CASE phase = "done"
  <2>1. Open' = Open \ {c}
    BY <1>1, <1>2, <1>3 DEF Open, Changes
  <2>2. Cardinality(Open \ {c}) = Cardinality(Open) - 1
        /\ IsFiniteSet(Open \ {c})
    BY <1>2, OpenIsFinite, FS_RemoveElement
  <2>3. Cardinality(Open \ {c}) \in Nat
    BY <2>2, FS_CardinalityType
  <2>4. inFlight' = inFlight - 1 /\ inFlight' \in Nat
    BY <1>1, <1>3, <2>2, <2>3, OpenIsFinite DEF Closed, Counting
  <2> QED BY <2>1, <2>2, <2>3, <2>4 DEF Counting
<1>4. CASE phase # "done"
  <2>1. Open' = Open
    BY <1>1, <1>2, <1>4 DEF Open, Changes
  <2>2. inFlight' = inFlight
    BY <1>1, <1>4
  <2> QED BY <2>1, <2>2 DEF Counting, ProxyTypeOK
<1> QED BY <1>3, <1>4

LEMMA ArriveCounts ==
  ASSUME ProxyTypeOK, Counting, NEW c \in Conns, NEW kind \in Kinds,
         NEW request \in Requests, Arrive(c, kind, request)
  PROVE  Counting' /\ inFlight' \in Nat /\ peak' \in Nat
<1>1. conn[c].phase = "none" /\ c \notin Open
  BY DEF Arrive, Open
<1>2. Open' = Open \union {c}
  BY <1>1, ArriveChanges DEF Open
<1>3. Cardinality(Open \union {c}) = Cardinality(Open) + 1
  BY <1>1, OpenIsFinite, FS_AddElement
<1>4. Cardinality(Open \union {c}) <= Cardinality(Conns)
  <2>1. IsFiniteSet(Conns) /\ Open \union {c} \in SUBSET Conns
    BY ProxyAssumption DEF Open
  <2> QED BY <2>1, FS_Subset
<1>5. inFlight' = inFlight + 1 /\ peak' = IF inFlight + 1 > peak THEN inFlight + 1 ELSE peak
  BY DEF Arrive
<1> QED BY <1>2, <1>3, <1>4, <1>5, OpenIsFinite DEF Counting, ProxyTypeOK

-----------------------------------------------------------------------------
(* Types. *)

LEMMA StatsType ==
  ASSUME ProxyTypeOK, NEW c \in Conns,
         Decide(c)
  PROVE  stats' \in [Counters -> Nat]
<1>1. /\ stats \in [Counters -> Nat]
      /\ \A k \in Counters : stats[k] \in Nat /\ stats[k] + 1 \in Nat
                                                       /\ stats[k] + 0 \in Nat
  BY DEF ProxyTypeOK
<1>2. CASE BodyAborted(c) \/ AnswerAtOnce(c)
  BY <1>1, <1>2 DEF BodyAborted, AnswerAtOnce
<1>3. CASE PassThrough(c)
  BY <1>1, <1>3 DEF PassThrough, Counters
<1>4. CASE GoLive(c)
  BY <1>1, <1>4 DEF GoLive, Counters
<1>5. CASE Halt(c)
  BY <1>1, <1>5 DEF Halt, Counters
<1>6. CASE GoLiveOnMiss(c)
  <2>1. stats' = [stats EXCEPT !.unmatched = @ + 1, !.divergences = @ + 1, !.liveCalls = @ + 1]
    BY <1>6 DEF GoLiveOnMiss
  <2> QED BY <1>1, <2>1 DEF Counters
<1>7. CASE ServeRecorded(c)
  <2>1. stats' = [stats EXCEPT
          !.reordered = @ + (IF last'.reordered THEN 1 ELSE 0),
          !.matchedExact = @ + (IF last'.rung = 1 THEN 1 ELSE 0),
          !.matchedInexact = @ + (IF last'.rung = 1 THEN 0 ELSE 1),
          !.divergences = @ + (IF last'.rung = 1 THEN 0 ELSE 1)]
    BY <1>7 DEF ServeRecorded
  <2> DEFINE a == IF last'.reordered THEN 1 ELSE 0
             b == IF last'.rung = 1 THEN 1 ELSE 0
             d == IF last'.rung = 1 THEN 0 ELSE 1
  <2>2. \A k \in Counters : stats[k] + a \in Nat /\ stats[k] + b \in Nat /\ stats[k] + d \in Nat
    BY <1>1
  <2>3. stats' = [stats EXCEPT !.reordered = @ + a, !.matchedExact = @ + b,
                               !.matchedInexact = @ + d, !.divergences = @ + d]
    BY <2>1
  <2> HIDE DEF a, b, d
  <2> QED BY <1>1, <2>2, <2>3 DEF Counters
<1> QED BY <1>2, <1>3, <1>4, <1>5, <1>6, <1>7 DEF Decide

LEMMA DecideRest ==
  ASSUME ProxyTypeOK, NEW c \in Conns, Decide(c)
  PROVE  /\ UNCHANGED <<optionVars, gone, peak, traceVars, alive>>
         /\ diverged' = diverged \/ diverged' = diverged \union {c}
BY DEF Decide, BodyAborted, AnswerAtOnce, PassThrough, GoLive, ServeRecorded, Halt,
       GoLiveOnMiss, Finish, Fetch

LEMMA AppendType ==
  ASSUME NEW S, NEW seq \in Seq(S), NEW e \in S
  PROVE  Append(seq, e) \in Seq(S)
OBVIOUS

LEMMA TracesType ==
  ASSUME ProxyTypeOK, NEW c \in Conns, Forwards(c)
  PROVE  captured' \in Seq([conn : Conns, seq : Nat]) /\ netEvents' \in Seq(Conns)
<1>1. captured \in Seq([conn : Conns, seq : Nat]) /\ netEvents \in Seq(Conns)
      /\ [conn |-> c, seq |-> Len(captured)] \in [conn : Conns, seq : Nat]
  BY DEF ProxyTypeOK
<1>2. Record(c) \/ NoRecord
  BY DEF Forwards, Fetched, Translate, ChunkBlocks, Drained, UpstreamEnds, FetchFails,
         FetchAnswers, Translated, TranslationFails, Move, NoRecord
<1>3. CASE Record(c)
  <2>1. CASE conn[c].kind = "model"
    <3>1. /\ captured' = Append(captured, [conn |-> c, seq |-> Len(captured)])
          /\ netEvents' = netEvents
      BY <1>3, <2>1 DEF Record
    <3> QED BY <1>1, <3>1, AppendType
  <2>2. CASE conn[c].kind # "model"
    BY <1>1, <1>3, <2>2 DEF Record
  <2> QED BY <2>1, <2>2
<1>4. CASE NoRecord
  BY <1>1, <1>4 DEF NoRecord, traceVars
<1> QED BY <1>2, <1>3, <1>4

LEMMA HandledConn ==
  ASSUME NEW c \in Conns, Handles(c)
  PROVE  conn' \in [Conns -> Connections]
BY DEF Handles, Changes

LEMMA TypeKeeps ==
  ASSUME ProxyIInv, ProxyNext
  PROVE  ProxyTypeOK' /\ Counting' /\ optionVars' = optionVars
<1>0. ProxyTypeOK /\ Counting
  BY DEF ProxyIInv
<1>1. PICK c \in Conns :
        (\E kind \in Kinds, request \in Requests : Arrive(c, kind, request)) \/ Step(c)
  BY DEF ProxyNext
<1>2. CASE \E kind \in Kinds, request \in Requests : Arrive(c, kind, request)
  <2>1. PICK kind \in Kinds, request \in Requests : Arrive(c, kind, request)
    BY <1>2
  <2>2. conn' \in [Conns -> Connections]
    BY <1>0, <2>1, ArriveChanges
  <2>3. Counting' /\ inFlight' \in Nat /\ peak' \in Nat
    BY <1>0, <2>1, ArriveCounts
  <2>4. UNCHANGED <<optionVars, gone, stats, traceVars, diverged, alive>>
    BY <2>1 DEF Arrive
  <2> QED BY <1>0, <2>2, <2>3, <2>4 DEF ProxyTypeOK, optionVars, traceVars
<1>3. CASE Decide(c)
  <2>1. Handles(c) /\ peak' = peak
    BY <1>3, DecideHandles
  <2>2. conn' \in [Conns -> Connections] /\ Counting' /\ inFlight' \in Nat
    BY <1>0, <2>1, HandledConn, HandlesCounts
  <2>3. stats' \in [Counters -> Nat]
    BY <1>0, <1>3, StatsType
  <2>4. /\ UNCHANGED <<optionVars, gone, peak, traceVars, alive>>
        /\ diverged' = diverged \/ diverged' = diverged \union {c}
    BY <1>0, <1>3, DecideRest
  <2> QED BY <1>0, <2>2, <2>3, <2>4 DEF ProxyTypeOK, optionVars, traceVars
<1>4. CASE Forwards(c)
  <2>1. /\ Handles(c) /\ peak' = peak
        /\ UNCHANGED <<optionVars, gone, stats, diverged, alive>>
    BY <1>0, <1>4, ForwardHandles
  <2>2. conn' \in [Conns -> Connections] /\ Counting' /\ inFlight' \in Nat
    BY <1>0, <2>1, HandledConn, HandlesCounts
  <2>3. captured' \in Seq([conn : Conns, seq : Nat]) /\ netEvents' \in Seq(Conns)
    BY <1>0, <1>4, TracesType
  <2> QED BY <1>0, <2>1, <2>2, <2>3 DEF ProxyTypeOK, optionVars
<1>5. CASE Stirs(c)
  <2>1. /\ UNCHANGED <<optionVars, conn, inFlight, peak, stats, traceVars, diverged>>
        /\ gone' = gone \union {c} \/ gone' = gone
        /\ alive' = FALSE \/ alive' = alive
    BY <1>5, StirLeaves
  <2>2. Counting'
    BY <1>0, <2>1 DEF Counting, Open
  <2>3. alive' \in BOOLEAN /\ gone' \subseteq Conns
    BY <1>0, <2>1 DEF ProxyTypeOK
  <2> QED BY <1>0, <2>1, <2>2, <2>3 DEF ProxyTypeOK, optionVars, traceVars
<1> QED BY <1>1, <1>2, <1>3, <1>4, <1>5, StepKinds

-----------------------------------------------------------------------------
(* The matcher: the handlers use it as its own specification allows. *)

LEMMA MatcherMoves ==
  ASSUME ProxyIInv, ProxyNext
  PROVE  /\ IInv' /\ recorded' = recorded
         /\ cursor \in Nat /\ cursor' \in Nat /\ cursor <= cursor'
         /\ \A q \in Positions : served[q] = 1 => served'[q] = 1
         /\ [MatcherNext]_matcherVars
<1>0. ProxyTypeOK /\ IInv /\ cursor \in Nat
  BY DEF ProxyIInv, IInv, MatcherTypeOK
<1>1. CASE UNCHANGED matcherVars
  <2>1. IInv'
    BY <1>0, <1>1, NextKeeps
  <2> QED BY <1>0, <1>1, <2>1 DEF matcherVars
<1>2. CASE \E c \in Conns : Consults(c)
  <2>1. PICK c \in Conns : Consults(c)
    BY <1>2
  <2>2. Match(conn[c].request, peak) /\ conn[c].request \in Requests /\ peak \in Nat
    BY <1>0, <2>1, ConnFacts DEF Consults, ProxyTypeOK
  <2>3. peak \in 0..MaxPeak
    BY <2>2, ProxyAssumption, OpenIsFinite, BoundsAssumption DEF ProxyIInv, Counting
  <2> QED BY <1>0, <2>2, <2>3, MatchStep DEF MatcherNext
<1>3. \A c \in Conns : Decide(c) => Consults(c) \/ UNCHANGED matcherVars
  BY DEF Decide, BodyAborted, AnswerAtOnce, PassThrough, GoLive, ServeRecorded, Halt,
         GoLiveOnMiss
<1>4. \A c \in Conns : Forwards(c) => UNCHANGED matcherVars
  BY <1>0, ForwardHandles
<1>5. \A c \in Conns : Stirs(c) => UNCHANGED matcherVars
  BY StirLeaves
<1>6. \A c \in Conns, kind \in Kinds, request \in Requests :
        Arrive(c, kind, request) => UNCHANGED matcherVars
  BY DEF Arrive
<1> QED BY <1>1, <1>2, <1>3, <1>4, <1>5, <1>6, StepKinds DEF ProxyNext

-----------------------------------------------------------------------------
(* A strict replay decides without the network, so it never forwards. *)

LEMMA OfflineKeeps ==
  ASSUME ProxyIInv, ProxyNext
  PROVE  Offline'
<1>0. ProxyTypeOK /\ Offline
  BY DEF ProxyIInv
<1>1. config' = config
  BY TypeKeeps DEF optionVars
<1>2. SUFFICES ASSUME Strict
      PROVE  /\ \A c \in Conns : /\ conn'[c].phase \in {"none", "reading", "done"}
                                 /\ conn'[c].via \notin {"record", "fork", "miss", "pass"}
             /\ captured' = << >> /\ netEvents' = << >>
  BY <1>1 DEF Offline, Strict
<1>3. /\ \A c \in Conns : /\ conn[c].phase \in {"none", "reading", "done"}
                          /\ conn[c].via \notin {"record", "fork", "miss", "pass"}
      /\ captured = << >> /\ netEvents = << >>
      /\ config.mode = "replay" /\ ~ config.loose
  BY <1>0, <1>2 DEF Offline, Strict
<1>4. PICK c \in Conns :
        (\E kind \in Kinds, request \in Requests : Arrive(c, kind, request)) \/ Step(c)
  BY DEF ProxyNext
<1>5. CASE \E kind \in Kinds, request \in Requests : Arrive(c, kind, request)
  <2>1. PICK kind \in Kinds, request \in Requests : Arrive(c, kind, request)
    BY <1>5
  <2>2. UNCHANGED traceVars
    BY <2>1 DEF Arrive
  <2> QED BY <1>0, <1>3, <2>1, <2>2, ArriveChanges DEF traceVars
<1>6. CASE Decide(c)
  <2>1. UNCHANGED traceVars
    BY <1>0, <1>6, DecideRest
  <2>2. \E via \in {"refused", "halted", "trace"}, index \in Nat : Finish(c, via, index)
    <3>1. ServeRecorded(c) => last'.index \in Nat
      BY <1>0, ConnFacts, MatchStep
      DEF ProxyIInv, ProxyTypeOK, ServeRecorded, Consults
    <3> QED BY <1>2, <1>3, <1>6, <3>1
            DEF Decide, BodyAborted, AnswerAtOnce, PassThrough, GoLive, ServeRecorded, Halt,
                GoLiveOnMiss, BeyondFork
  <2>3. PICK via \in {"refused", "halted", "trace"}, index \in Nat : Finish(c, via, index)
    BY <2>2
  <2>4. Changes(c, "done", via, index)
    BY <1>0, <2>3, FinishChanges DEF Ways
  <2> QED BY <1>3, <2>1, <2>4 DEF Changes, traceVars
<1>7. CASE Forwards(c)
  BY <1>0, <1>3, <1>7, ForwardHandles
<1>8. CASE Stirs(c)
  BY <1>3, <1>8, StirLeaves DEF traceVars
<1> QED BY <1>4, <1>5, <1>6, <1>7, <1>8, StepKinds

-----------------------------------------------------------------------------
(* A call goes live silently only where the recording is over. *)

LEMMA QuietKeeps ==
  ASSUME ProxyIInv, ProxyNext
  PROVE  Quiet'
<1>0. ProxyTypeOK /\ Quiet /\ Prefix /\ Len(recorded) \in Nat
  BY DEF ProxyIInv, IInv, MatcherTypeOK
<1>1. /\ config' = config /\ recorded' = recorded
      /\ cursor \in Nat /\ cursor' \in Nat /\ cursor <= cursor'
  BY TypeKeeps, MatcherMoves DEF optionVars
<1>2. diverged \subseteq diverged'
  BY <1>0, DecideRest, ForwardHandles, StirLeaves, StepKinds DEF ProxyNext, Arrive
<1>3. SUFFICES ASSUME NEW d \in Conns, conn'[d].via # conn[d].via
      PROVE  /\ conn'[d].via = "record" => config.mode = "record"
             /\ conn'[d].via = "fork" => config.mode = "record" \/ cursor' > Len(recorded)
             /\ conn'[d].via = "miss" => d \in diverged'
  BY <1>0, <1>1, <1>2 DEF Quiet
<1>4. PICK c \in Conns :
        (\E kind \in Kinds, request \in Requests : Arrive(c, kind, request)) \/ Step(c)
  BY DEF ProxyNext
<1>5. CASE \E kind \in Kinds, request \in Requests : Arrive(c, kind, request)
  <2>1. conn'[c].via = "none" /\ \A e \in Conns : e # c => conn'[e] = conn[e]
    BY <1>0, <1>5, ArriveChanges
  <2> QED BY <1>3, <2>1
<1>6. CASE Decide(c)
  <2>1. \A via \in Ways, index \in Nat : Finish(c, via, index)
          => conn'[c].via = via /\ \A e \in Conns : e # c => conn'[e] = conn[e]
    BY <1>0, FinishChanges DEF Changes
  <2>2. \A via \in Ways : Fetch(c, via)
          => conn'[c].via = via /\ \A e \in Conns : e # c => conn'[e] = conn[e]
    BY <1>0, FetchChanges DEF Changes
  <2>3. CASE BodyAborted(c) \/ AnswerAtOnce(c) \/ Halt(c)
    BY <1>3, <2>1, <2>3 DEF BodyAborted, AnswerAtOnce, Halt, Ways
  <2>4. CASE PassThrough(c)
    BY <1>3, <2>1, <2>2, <2>4 DEF PassThrough, Ways
  <2>5. CASE ServeRecorded(c)
    <3>1. last'.index \in Nat
      BY <1>0, <2>5, ConnFacts, MatchStep DEF ProxyIInv, ProxyTypeOK, ServeRecorded, Consults
    <3> QED BY <1>3, <2>1, <2>5, <3>1 DEF ServeRecorded, Ways
  <2>6. CASE GoLiveOnMiss(c)
    BY <1>3, <2>2, <2>6 DEF GoLiveOnMiss, Ways
  <2>7. CASE GoLive(c)
    <3>1. config.mode = "record" \/ cursor > Len(recorded)
      BY <1>0, <1>1, <2>7 DEF GoLive, BeyondFork, Prefix
    <3>2. cursor' = cursor
      BY <2>7 DEF GoLive, matcherVars
    <3>3. Fetch(c, IF config.mode = "record" THEN "record" ELSE "fork")
      BY <2>7 DEF GoLive
    <3> QED BY <1>3, <2>2, <3>1, <3>2, <3>3 DEF Ways
  <2> QED BY <1>6, <2>3, <2>4, <2>5, <2>6, <2>7 DEF Decide
<1>7. CASE Forwards(c)
  <2>1. \E phase \in Phases : Changes(c, phase, conn[c].via, conn[c].index)
    BY <1>0, <1>7, ForwardHandles
  <2> QED BY <1>3, <2>1 DEF Changes
<1>8. CASE Stirs(c)
  BY <1>3, <1>8, StirLeaves
<1> QED BY <1>4, <1>5, <1>6, <1>7, <1>8, StepKinds

(* A position that answers one connection answers no other. *)

LEMMA DistinctKeeps ==
  ASSUME ProxyIInv, ProxyNext
  PROVE  Distinct'
<1>0. ProxyTypeOK /\ Distinct /\ IInv
  BY DEF ProxyIInv
<1>1. /\ recorded' = recorded /\ Positions' = Positions
      /\ \A q \in Positions : served[q] = 1 => served'[q] = 1
  BY MatcherMoves DEF Positions
<1>2. PICK c \in Conns :
        (\E kind \in Kinds, request \in Requests : Arrive(c, kind, request)) \/ Step(c)
  BY DEF ProxyNext
<1>3. ASSUME \A d \in Conns : conn'[d].via = "trace"
               => /\ conn[d].via = "trace" /\ conn'[d].index = conn[d].index
                  /\ conn'[d].request = conn[d].request
      PROVE  Distinct'
  BY <1>0, <1>1, <1>3 DEF Distinct
<1>4. CASE \E kind \in Kinds, request \in Requests : Arrive(c, kind, request)
  <2>1. conn'[c].via = "none" /\ \A e \in Conns : e # c => conn'[e] = conn[e]
    BY <1>0, <1>4, ArriveChanges
  <2> QED BY <1>3, <2>1
<1>5. CASE Forwards(c)
  <2>1. \E phase \in Phases : Changes(c, phase, conn[c].via, conn[c].index)
    BY <1>0, <1>5, ForwardHandles
  <2> QED BY <1>3, <2>1 DEF Changes
<1>6. CASE Stirs(c)
  BY <1>3, <1>6, StirLeaves
<1>7. CASE Decide(c) /\ ~ ServeRecorded(c)
  <2>1. \A via \in Ways, index \in Nat : Finish(c, via, index)
          => conn'[c].via = via /\ \A e \in Conns : e # c => conn'[e] = conn[e]
    BY <1>0, FinishChanges DEF Changes
  <2>2. \A via \in Ways : Fetch(c, via)
          => conn'[c].via = via /\ \A e \in Conns : e # c => conn'[e] = conn[e]
    BY <1>0, FetchChanges DEF Changes
  <2>3. conn'[c].via # "trace" /\ \A e \in Conns : e # c => conn'[e] = conn[e]
    BY <1>7, <2>1, <2>2
       DEF Decide, BodyAborted, AnswerAtOnce, PassThrough, GoLive, Halt, GoLiveOnMiss, Ways
  <2> QED BY <1>3, <2>3
<1>8. CASE ServeRecorded(c)
  <2> DEFINE p == last'.index
  <2>1. /\ Match(conn[c].request, peak) /\ conn[c].request \in Requests /\ peak \in Nat
        /\ last'.rung # 4
    BY <1>0, <1>8, ConnFacts DEF ServeRecorded, Consults, ProxyTypeOK
  <2>2. /\ p \in Nat /\ p \in Positions /\ served[p] = 0 /\ served'[p] = 1
        /\ last'.rung = Rung(conn[c].request, recorded[p])
    BY <1>0, <2>1, MatchStep
  <2>3. Rung(conn[c].request, recorded[p]) <= 3
    BY <2>1, <2>2, RungType
  <2>4. Changes(c, "done", "trace", p)
    BY <1>0, <1>8, <2>2, FinishChanges DEF ServeRecorded, Ways
  <2> HIDE DEF p
  <2>5. \A d \in Conns : d # c /\ conn[d].via = "trace" => conn[d].index # p
    BY <1>0, <2>2 DEF Distinct
  <2>6. /\ conn'[c].index = p /\ conn'[c].request = conn[c].request
        /\ \A d \in Conns : d # c => conn'[d] = conn[d]
    BY <2>4 DEF Changes
  <2>7. \A d \in Conns : conn'[d].via = "trace" =>
          /\ conn'[d].index \in Positions /\ served'[conn'[d].index] = 1
          /\ Rung(conn'[d].request, recorded[conn'[d].index]) <= 3
    <3> TAKE d \in Conns
    <3>1. CASE d = c
      BY <2>2, <2>3, <2>6, <3>1
    <3>2. CASE d # c
      BY <1>0, <1>1, <2>6, <3>2 DEF Distinct
    <3> QED BY <3>1, <3>2
  <2>8. \A d, e \in Conns :
          conn'[d].via = "trace" /\ conn'[e].via = "trace" /\ conn'[d].index = conn'[e].index
            => d = e
    BY <1>0, <2>5, <2>6 DEF Distinct
  <2> QED BY <1>1, <2>7, <2>8 DEF Distinct
<1> QED BY <1>2, <1>4, <1>5, <1>6, <1>7, <1>8, StepKinds

-----------------------------------------------------------------------------
LEMMA PrefixType ==
  ASSUME NEW S, NEW seq \in Seq(S), NEW n \in 0..Len(seq)
  PROVE  SubSeq(seq, 1, n) \in [1..n -> S] /\ Len(SubSeq(seq, 1, n)) = n
<1>1. /\ SubSeq(seq, 1, n) \in Seq(S) /\ n \in Nat
      /\ Len(SubSeq(seq, 1, n)) = IF 1 <= n THEN n - 1 + 1 ELSE 0
  <2>1. n \in Int /\ 1 \in Int /\ n \in Nat /\ \A i \in 1..n : seq[i] \in S
    OBVIOUS
  <2> QED BY <2>1, SubSeqProperties
<1>2. \A q \in Seq(S) : Len(q) = (IF 1 <= n THEN n - 1 + 1 ELSE 0)
                       => Len(q) = n /\ q \in [1..n -> S]
  OBVIOUS
<1> QED BY <1>1, <1>2

LEMMA InitRecording ==
  ASSUME ProxyInit
  PROVE  MatcherInit /\ Prefix
<1>1. full \in Seq(Requests) /\ Len(full) \in 0..MaxRecorded
  BY BoundsAssumption DEF ProxyInit, Recordings
<1>2. CASE config.mode = "hybrid"
  <2>1. config.forkAt \in Nat /\ config.forkAt <= Len(full)
        /\ recorded = SubSeq(full, 1, config.forkAt)
    <3>1. config \in [mode : {"hybrid"}, loose : {FALSE}, forkAt : 0..MaxRecorded,
                      cross : BOOLEAN]
      <4>1. config \in Configs
        BY DEF ProxyInit
      <4> QED BY <1>2, <4>1 DEF Configs
    <3>2. config.forkAt \in Nat
      BY <3>1, BoundsAssumption
    <3> QED BY <1>2, <3>2 DEF ProxyInit
  <2>2. /\ recorded \in [1..config.forkAt -> Requests] /\ Len(recorded) = config.forkAt
    BY <1>1, <2>1, PrefixType
  <2>3. config.forkAt \in 0..MaxRecorded
    BY <1>1, <2>1, BoundsAssumption
  <2> QED BY <2>2, <2>3 DEF ProxyInit, MatcherInit, Prefix, Recordings
<1>3. CASE config.mode # "hybrid"
  BY <1>3 DEF ProxyInit, MatcherInit, Prefix
<1> QED BY <1>2, <1>3

LEMMA ProxyInitIInv == ProxyInit => ProxyIInv
<1> SUFFICES ASSUME ProxyInit PROVE ProxyIInv
  OBVIOUS
<1>1. IInv /\ Prefix
  BY InitRecording, InitIInv
<1>2. AnyRequest \in Requests
  BY RequestsAssumption DEF AnyRequest
<1>3. /\ conn \in [Conns -> Connections]
      /\ \A c \in Conns : conn[c].phase = "none" /\ conn[c].via = "none"
  BY <1>2 DEF ProxyInit, Connections
<1>4. stats \in [Counters -> Nat]
  BY DEF ProxyInit, Counters
<1>5. ProxyTypeOK
  BY <1>3, <1>4 DEF ProxyInit, ProxyTypeOK
<1>6. Open = {}
  BY <1>3 DEF Open
<1>7. Counting
  BY <1>6, FS_EmptySet, OpenIsFinite DEF ProxyInit, Counting
<1> QED BY <1>1, <1>3, <1>5, <1>7 DEF ProxyInit, ProxyIInv, Offline, Quiet, Distinct

LEMMA ProxyNextKeeps == ProxyIInv /\ [ProxyNext]_proxyVars => ProxyIInv'
<1> SUFFICES ASSUME ProxyIInv, [ProxyNext]_proxyVars PROVE ProxyIInv'
  OBVIOUS
<1>1. CASE ProxyNext
  <2>1. Prefix'
    BY <1>1, TypeKeeps, MatcherMoves DEF optionVars, Prefix, ProxyIInv
  <2> QED BY <1>1, <2>1, TypeKeeps, MatcherMoves, OfflineKeeps, QuietKeeps, DistinctKeeps
          DEF ProxyIInv
<1>2. CASE UNCHANGED proxyVars
  <2>1. UNCHANGED <<matcherVars, config, full, conn, gone, inFlight, peak, stats, captured,
                    netEvents, diverged, alive>>
    BY <1>2 DEF proxyVars, optionVars, traceVars
  <2>2. IInv'
    BY <2>1, NextKeeps DEF ProxyIInv
  <2>3. UNCHANGED <<recorded, cursor, served>>
    BY <2>1 DEF matcherVars
  <2>4. ProxyTypeOK'
    BY <2>1 DEF ProxyIInv, ProxyTypeOK
  <2>5. Counting' /\ Prefix' /\ Offline' /\ Quiet'
    BY <2>1, <2>3 DEF ProxyIInv, Counting, Open, Prefix, Offline, Strict, Quiet
  <2>6. Distinct'
    BY <2>1, <2>3 DEF ProxyIInv, Distinct, Positions
  <2> QED BY <2>2, <2>4, <2>5, <2>6 DEF ProxyIInv
<1> QED BY <1>1, <1>2

(* The inductive invariant holds of every behaviour of createProxy().       *)
THEOREM ProxyInvariant == ProxySpec => []ProxyIInv
BY ProxyInitIInv, ProxyNextKeeps, PTL DEF ProxySpec

(* The state of the proxy keeps its type (server.ts, createProxy). *)
THEOREM ProxyTypeCorrect == ProxySpec => []ProxyTypeOK
<1>1. ProxyIInv => ProxyTypeOK
  BY DEF ProxyIInv
<1> QED BY <1>1, ProxyInvariant, PTL

(* Whatever the agent sends, a strict replay forwards nothing and records  *)
(* nothing (handle() and passThrough() of server.ts).                      *)
THEOREM StaysOffline == ProxySpec => []StrictStaysOffline
<1>1. ProxyIInv => StrictStaysOffline
  BY DEF ProxyIInv, Offline, StrictStaysOffline, Forwarded, Live, Via
<1> QED BY <1>1, ProxyInvariant, PTL

(* No two connections are answered from one recorded position, and each    *)
(* is answered by a request the ladder accepts (handle() and match()).     *)
THEOREM AnswersDistinct == ProxySpec => []AnswersAreDistinct
<1>1. ProxyIInv => AnswersAreDistinct
  BY DEF ProxyIInv, Distinct, AnswersAreDistinct, Via
<1> QED BY <1>1, ProxyInvariant, PTL

(* A replay that goes live without reporting a divergence has come to the  *)
(* end of what it replays (handle(), beyondFork and onDivergence).         *)
THEOREM MissesAreAnnounced == ProxySpec => []NoQuietMiss
<1>1. ProxyIInv => NoQuietMiss
  <2> SUFFICES ASSUME ProxyIInv, config.mode # "record", NEW c \in Live \ diverged,
                      NEW p \in Positions
               PROVE  served[p] > 0 \/ p \in Held
    BY DEF NoQuietMiss
  <2>1. cursor > Len(recorded)
    BY DEF ProxyIInv, Quiet, Live, Via
  <2>2. p < cursor
    BY <2>1 DEF ProxyIInv, IInv, MatcherTypeOK, Positions
  <2>3. p \in Held \/ served[p] = 1
    BY <2>2 DEF ProxyIInv, IInv, AnsweredOrOwed
  <2> QED BY <2>3
<1> QED BY <1>1, ProxyInvariant, PTL

(* The handlers, however they interleave, use the matcher as RequestMatcher*)
(* allows any caller to, so all that is proved of it holds in the proxy    *)
(* (handle() calls match() with concurrency: () => peakInFlight).          *)
THEOREM ProxyDrivesMatcher == ProxySpec => DrivesMatcher
<1>1. ProxyInit => MatcherInit
  BY InitRecording
<1>2. ProxyIInv /\ [ProxyNext]_proxyVars => [MatcherNext]_matcherVars
  BY MatcherMoves DEF proxyVars
<1> QED BY <1>1, <1>2, ProxyInvariant, PTL DEF ProxySpec, MatcherSpec, DrivesMatcher

-----------------------------------------------------------------------------
(***************************************************************************)
(* What becomes of a connection.  Written follows a forwarded call from    *)
(* the decision to its one record: what was forwarded is of a kind its way *)
(* tells, waits for the network or is done, and has no record before its   *)
(* end.  Tallied adds to the counters that a divergence is reported of     *)
(* misses only, so that a miss is reported once.                           *)
(***************************************************************************)
Awaits == {"fetching", "translating", "piping", "blocked"}
LiveWays == {"record", "fork", "miss"}

CapturedOf(c) == {i \in 1..Len(captured) : captured[i].conn = c}
NotedOf(c) == {i \in 1..Len(netEvents) : netEvents[i] = c}
Unwritten(c) == CapturedOf(c) = {} /\ NotedOf(c) = {}
WrittenOnce(c) ==
  \/ (\E i \in Nat : CapturedOf(c) = {i}) /\ NotedOf(c) = {}
  \/ CapturedOf(c) = {} /\ (\E i \in Nat : NotedOf(c) = {i})

WayTaken(c) ==
  /\ conn[c].phase \in {"none", "reading"} => conn[c].via = "none"
  /\ conn[c].phase \in Awaits => conn[c].via \in LiveWays \union {"pass"}
  /\ conn[c].phase = "translating" => config.cross /\ conn[c].kind = "model"
  /\ conn[c].via \in LiveWays => conn[c].kind = "model"
  /\ conn[c].via = "pass" => conn[c].kind = "opaque"

Numbered == \A i \in 1..Len(captured) : captured[i].seq = i - 1

WrittenOf(c) ==
  IF conn[c].via \in LiveWays \union {"pass"} /\ conn[c].phase = "done"
    THEN \/ WrittenOnce(c)
         \/ config.cross /\ conn[c].via \in LiveWays /\ Unwritten(c)
    ELSE Unwritten(c)

Written == Numbered /\ \A c \in Conns : WayTaken(c) /\ WrittenOf(c)

(* Ways: no handler is left without one, and none changes its way. *)

\* What a handler decides, between the end of its body and its first await.
Decides(c, phase, via) ==
  /\ \E index \in Nat : Changes(c, phase, via, index)
  /\ \/ phase = "done" /\ via \in {"trace", "halted", "refused"}
     \/ phase = "fetching" /\ via \in LiveWays /\ conn[c].kind = "model"
     \/ phase = "fetching" /\ via = "pass" /\ conn[c].kind = "opaque"

LEMMA DecideDecides ==
  ASSUME ProxyIInv, NEW c \in Conns, Decide(c)
  PROVE  /\ conn[c].phase = "reading"
         /\ \E phase \in Phases, via \in Ways : Decides(c, phase, via)
<1>0. ProxyTypeOK /\ IInv /\ conn[c].index \in Nat
  BY ConnFacts DEF ProxyIInv
<1>1. conn[c].phase = "reading"
  BY DEF Decide, BodyAborted, AnswerAtOnce, PassThrough, GoLive, ServeRecorded, Halt,
         GoLiveOnMiss, Consults, Reading
<1>2. \A via \in Ways, index \in Nat : Finish(c, via, index) => Changes(c, "done", via, index)
  BY <1>0, FinishChanges
<1>3. \A via \in Ways : Fetch(c, via) => Changes(c, "fetching", via, conn[c].index)
  BY <1>0, FetchChanges
<1>4. CASE BodyAborted(c) \/ AnswerAtOnce(c) \/ Halt(c)
  <2>1. \E via \in {"halted", "refused"} : Finish(c, via, 0)
    BY <1>4 DEF BodyAborted, AnswerAtOnce, Halt
  <2> QED BY <1>1, <1>2, <2>1 DEF Decides, Phases, Ways
<1>5. CASE PassThrough(c)
  <2>1. conn[c].kind = "opaque" /\ (Finish(c, "halted", 0) \/ Fetch(c, "pass"))
    BY <1>5 DEF PassThrough, Reading
  <2> QED BY <1>0, <1>1, <1>2, <1>3, <2>1 DEF Decides, Phases, Ways
<1>6. CASE GoLive(c) \/ GoLiveOnMiss(c)
  <2>1. conn[c].kind = "model" /\ \E via \in LiveWays : Fetch(c, via)
    BY <1>6 DEF GoLive, GoLiveOnMiss, Consults, Reading, LiveWays
  <2> QED BY <1>0, <1>1, <1>3, <2>1 DEF Decides, Phases, Ways, LiveWays
<1>7. CASE ServeRecorded(c)
  <2>1. last'.index \in Nat /\ Finish(c, "trace", last'.index)
    BY <1>0, <1>7, ConnFacts, MatchStep DEF ProxyTypeOK, ServeRecorded, Consults
  <2> QED BY <1>1, <1>2, <2>1 DEF Decides, Phases, Ways
<1> QED BY <1>4, <1>5, <1>6, <1>7 DEF Decide

LEMMA KindStays ==
  ASSUME NEW c \in Conns, NEW phase, NEW via, NEW index, Changes(c, phase, via, index)
  PROVE  /\ conn'[c].kind = conn[c].kind
         /\ \A d \in Conns : d # c => conn'[d] = conn[d]
         /\ conn'[c].phase = phase /\ conn'[c].via = via /\ conn'[c].index = index
BY DEF Changes

LEMMA ForwardEnds ==
  ASSUME ProxyTypeOK, NEW c \in Conns, Forwards(c)
  PROVE  \/ (Record(c) \/ TranslationFails(c)) /\ conn'[c].phase = "done"
         \/ UNCHANGED traceVars /\ conn'[c].phase \in {"piping", "blocked"}
         \/ /\ UNCHANGED traceVars /\ conn'[c].phase = "translating"
            /\ config.cross /\ conn[c].kind = "model"
<1>1. conn[c] \in Connections /\ conn \in [Conns -> Connections]
  BY ConnFacts
<1>2. End(c) => conn'[c].phase = "done"
  BY <1>1, PhaseChanges DEF End, Changes, Phases
<1>3. \A phase \in Phases : Move(c, phase) => conn'[c].phase = phase /\ UNCHANGED traceVars
  BY <1>1, PhaseChanges DEF Move, Changes
<1> QED BY <1>2, <1>3
        DEF Forwards, Fetched, Translate, ChunkBlocks, Drained, UpstreamEnds,
            FetchFails, FetchAnswers, Translated, TranslationFails, Phases

LEMMA WaysKeep ==
  ASSUME ProxyIInv, Written, ProxyNext
  PROVE  \A d \in Conns : WayTaken(d)'
<1>0. ProxyTypeOK /\ config' = config /\ \A d \in Conns : WayTaken(d)
  BY TypeKeeps DEF ProxyIInv, Written, optionVars
<1>1. ASSUME NEW d \in Conns, conn'[d] = conn[d] PROVE WayTaken(d)'
  BY <1>0, <1>1 DEF WayTaken
<1>2. PICK c \in Conns :
        (\E kind \in Kinds, request \in Requests : Arrive(c, kind, request)) \/ Step(c)
  BY DEF ProxyNext
<1>3. SUFFICES /\ \A d \in Conns : d # c => conn'[d] = conn[d]
               /\ WayTaken(c)'
  BY <1>1
<1>4. CASE \E kind \in Kinds, request \in Requests : Arrive(c, kind, request)
  <2>1. /\ conn'[c].phase = "reading" /\ conn'[c].via = "none"
        /\ \A d \in Conns : d # c => conn'[d] = conn[d]
    BY <1>0, <1>4, ArriveChanges
  <2> QED BY <2>1 DEF WayTaken, Awaits, LiveWays
<1>5. CASE Decide(c)
  <2>1. PICK phase \in Phases, via \in Ways : Decides(c, phase, via)
    BY <1>5, DecideDecides
  <2>2. PICK index \in Nat : Changes(c, phase, via, index)
    BY <2>1 DEF Decides
  <2>3. /\ conn'[c].kind = conn[c].kind /\ conn'[c].phase = phase /\ conn'[c].via = via
        /\ \A d \in Conns : d # c => conn'[d] = conn[d]
    BY <2>2, KindStays
  <2> QED BY <2>1, <2>3 DEF WayTaken, Decides, Awaits, LiveWays
<1>6. CASE Forwards(c)
  <2>1. PICK phase \in Phases : Changes(c, phase, conn[c].via, conn[c].index)
    BY <1>0, <1>6, ForwardHandles
  <2>2. /\ conn'[c].kind = conn[c].kind /\ conn'[c].phase = phase
        /\ conn'[c].via = conn[c].via
        /\ \A d \in Conns : d # c => conn'[d] = conn[d]
    BY <2>1, KindStays
  <2>3. conn[c].phase \in Awaits
    BY <1>0, <1>6, ForwardHandles DEF Awaits
  <2>4. /\ phase \in Awaits \union {"done"}
        /\ phase = "translating" => config.cross /\ conn[c].kind = "model"
    BY <1>0, <1>6, <2>2, ForwardEnds DEF Awaits
  <2> QED BY <1>0, <2>2, <2>3, <2>4 DEF WayTaken, Awaits
<1>7. CASE Stirs(c)
  BY <1>1, <1>7, StirLeaves
<1> QED BY <1>2, <1>4, <1>5, <1>6, <1>7, StepKinds

-----------------------------------------------------------------------------
(* Records: each is the first of its connection and stands at its end. *)

LEMMA AppendWhere ==
  ASSUME NEW S, NEW seq \in Seq(S), NEW e \in S
  PROVE  /\ Len(seq) \in Nat /\ Len(Append(seq, e)) = Len(seq) + 1
         /\ \A i \in 1..Len(seq) : Append(seq, e)[i] = seq[i]
         /\ Append(seq, e)[Len(seq) + 1] = e
OBVIOUS

CapturedAlike(c) == CapturedOf(c)' = CapturedOf(c)
NotedAlike(c) == NotedOf(c)' = NotedOf(c)

LEMMA RecordCaptures ==
  ASSUME ProxyTypeOK, Numbered, NEW c \in Conns,
         captured' = Append(captured, [conn |-> c, seq |-> Len(captured)])
  PROVE  /\ Numbered' /\ Len(captured) + 1 \in Nat
         /\ CapturedOf(c)' = CapturedOf(c) \union {Len(captured) + 1}
         /\ \A d \in Conns : d # c => CapturedAlike(d)
<1> DEFINE event == [conn |-> c, seq |-> Len(captured)]
           Events == [conn : Conns, seq : Nat]
           longer == Append(captured, event)
<1>1. captured \in Seq(Events) /\ event \in Events /\ captured' = longer
  BY DEF ProxyTypeOK
<1>2. /\ Len(captured) \in Nat /\ Len(longer) = Len(captured) + 1
      /\ \A i \in 1..Len(captured) : longer[i] = captured[i]
      /\ longer[Len(captured) + 1] = event
  BY <1>1, AppendWhere
<1>3. event.conn = c /\ event.seq = Len(captured)
  OBVIOUS
<1> HIDE DEF event, longer
<1>4. \A i : i \in 1..(Len(captured) + 1) <=> i \in 1..Len(captured) \/ i = Len(captured) + 1
  BY <1>2
<1>5. Numbered'
  <2>1. \A i \in 1..(Len(captured) + 1) : longer[i].seq = i - 1
    BY <1>2, <1>3, <1>4 DEF Numbered
  <2> QED BY <1>1, <1>2, <2>1 DEF Numbered
<1>6. CapturedOf(c)' = CapturedOf(c) \union {Len(captured) + 1}
  <2>1. CapturedOf(c)' = {i \in 1..(Len(captured) + 1) : longer[i].conn = c}
    BY <1>1, <1>2 DEF CapturedOf
  <2> QED BY <1>2, <1>3, <1>4, <2>1 DEF CapturedOf
<1>7. ASSUME NEW d \in Conns, d # c PROVE CapturedAlike(d)
  <2>1. CapturedOf(d)' = {i \in 1..(Len(captured) + 1) : longer[i].conn = d}
    BY <1>1, <1>2 DEF CapturedOf
  <2>2. {i \in 1..(Len(captured) + 1) : longer[i].conn = d} = CapturedOf(d)
    BY <1>2, <1>3, <1>4, <1>7 DEF CapturedOf
  <2> QED BY <2>1, <2>2 DEF CapturedAlike
<1>8. Len(captured) + 1 \in Nat
  BY <1>2
<1> QED BY <1>5, <1>6, <1>7, <1>8

LEMMA RecordNotes ==
  ASSUME ProxyTypeOK, NEW c \in Conns, netEvents' = Append(netEvents, c)
  PROVE  /\ Len(netEvents) + 1 \in Nat
         /\ NotedOf(c)' = NotedOf(c) \union {Len(netEvents) + 1}
         /\ \A d \in Conns : d # c => NotedAlike(d)
<1> DEFINE longer == Append(netEvents, c)
<1>1. netEvents \in Seq(Conns) /\ netEvents' = longer
  BY DEF ProxyTypeOK
<1>2. /\ Len(netEvents) \in Nat /\ Len(longer) = Len(netEvents) + 1
      /\ \A i \in 1..Len(netEvents) : longer[i] = netEvents[i]
      /\ longer[Len(netEvents) + 1] = c
  BY <1>1, AppendWhere
<1> HIDE DEF longer
<1>3. \A i : i \in 1..(Len(netEvents) + 1)
               <=> i \in 1..Len(netEvents) \/ i = Len(netEvents) + 1
  BY <1>2
<1>4. NotedOf(c)' = NotedOf(c) \union {Len(netEvents) + 1}
  <2>1. NotedOf(c)' = {i \in 1..(Len(netEvents) + 1) : longer[i] = c}
    BY <1>1, <1>2 DEF NotedOf
  <2> QED BY <1>2, <1>3, <2>1 DEF NotedOf
<1>5. ASSUME NEW d \in Conns, d # c PROVE NotedAlike(d)
  <2>1. NotedOf(d)' = {i \in 1..(Len(netEvents) + 1) : longer[i] = d}
    BY <1>1, <1>2 DEF NotedOf
  <2>2. {i \in 1..(Len(netEvents) + 1) : longer[i] = d} = NotedOf(d)
    BY <1>2, <1>3, <1>5 DEF NotedOf
  <2> QED BY <2>1, <2>2 DEF NotedAlike
<1>6. Len(netEvents) + 1 \in Nat
  BY <1>2
<1> QED BY <1>4, <1>5, <1>6

LEMMA RecordWrites ==
  ASSUME ProxyTypeOK, Numbered, NEW c \in Conns, Unwritten(c), Record(c)
  PROVE  /\ Numbered' /\ WrittenOnce(c)'
         /\ \A d \in Conns : d # c => CapturedAlike(d) /\ NotedAlike(d)
<1>1. CASE conn[c].kind = "model"
  <2>1. /\ captured' = Append(captured, [conn |-> c, seq |-> Len(captured)])
        /\ netEvents' = netEvents
    BY <1>1 DEF Record
  <2>2. NotedOf(c)' = NotedOf(c) /\ \A d \in Conns : NotedAlike(d)
    BY <2>1 DEF NotedOf, NotedAlike
  <2>3. CapturedOf(c)' = {Len(captured) + 1} /\ Len(captured) + 1 \in Nat
    BY <2>1, RecordCaptures DEF Unwritten
  <2>4. WrittenOnce(c)'
    BY <2>2, <2>3 DEF WrittenOnce, Unwritten
  <2> QED BY <2>1, <2>2, <2>4, RecordCaptures
<1>2. CASE conn[c].kind # "model"
  <2>1. captured' = captured /\ netEvents' = Append(netEvents, c)
    BY <1>2 DEF Record
  <2>2. /\ Numbered' /\ CapturedOf(c)' = CapturedOf(c)
        /\ \A d \in Conns : CapturedAlike(d)
    BY <2>1 DEF CapturedOf, CapturedAlike, Numbered
  <2>3. NotedOf(c)' = {Len(netEvents) + 1} /\ Len(netEvents) + 1 \in Nat
    BY <2>1, RecordNotes DEF Unwritten
  <2>4. WrittenOnce(c)'
    BY <2>2, <2>3 DEF WrittenOnce, Unwritten
  <2> QED BY <2>1, <2>2, <2>4, RecordNotes
<1> QED BY <1>1, <1>2

LEMMA WrittenKeeps ==
  ASSUME ProxyIInv, Written, ProxyNext
  PROVE  Written'
<1>0. /\ ProxyTypeOK /\ config' = config /\ Numbered
      /\ \A d \in Conns : WayTaken(d) /\ WrittenOf(d)
  BY TypeKeeps DEF ProxyIInv, Written, optionVars
<1>1. \A d \in Conns : WayTaken(d)'
  BY WaysKeep
<1>2. ASSUME UNCHANGED traceVars
      PROVE  /\ Numbered'
             /\ \A d \in Conns : CapturedAlike(d) /\ NotedAlike(d)
  <2>1. captured' = captured /\ netEvents' = netEvents
    BY <1>2 DEF traceVars
  <2> QED BY <1>0, <2>1 DEF Numbered, CapturedOf, NotedOf, CapturedAlike, NotedAlike
<1>3. ASSUME NEW d \in Conns, conn'[d] = conn[d], CapturedAlike(d), NotedAlike(d)
      PROVE  WrittenOf(d)'
  BY <1>0, <1>3
  DEF WrittenOf, WrittenOnce, Unwritten, CapturedAlike, NotedAlike
<1>4. PICK c \in Conns :
        (\E kind \in Kinds, request \in Requests : Arrive(c, kind, request)) \/ Step(c)
  BY DEF ProxyNext
<1>5. ASSUME Unwritten(c), UNCHANGED traceVars,
             \A d \in Conns : d # c => conn'[d] = conn[d],
             \/ conn'[c].phase # "done"
             \/ conn'[c].via \notin LiveWays \union {"pass"}
             \/ config.cross /\ conn'[c].via \in LiveWays
      PROVE  Written'
  <2>1. Unwritten(c)'
    BY <1>2, <1>5 DEF Unwritten, CapturedAlike, NotedAlike
  <2>2. WrittenOf(c)'
    BY <1>0, <1>5, <2>1 DEF WrittenOf
  <2> QED BY <1>1, <1>2, <1>3, <1>5, <2>2 DEF Written
<1>6. CASE \E kind \in Kinds, request \in Requests : Arrive(c, kind, request)
  <2>1. conn[c].phase = "none" /\ UNCHANGED traceVars
    BY <1>6 DEF Arrive
  <2>2. Unwritten(c)
    BY <1>0, <2>1 DEF WrittenOf
  <2>3. /\ conn'[c].phase = "reading"
        /\ \A d \in Conns : d # c => conn'[d] = conn[d]
    BY <1>0, <1>6, ArriveChanges
  <2> QED BY <1>5, <2>1, <2>2, <2>3
<1>7. CASE Decide(c)
  <2>1. conn[c].phase = "reading" /\ UNCHANGED traceVars
    BY <1>0, <1>7, DecideDecides, DecideRest
  <2>2. Unwritten(c)
    BY <1>0, <2>1 DEF WrittenOf
  <2>3. PICK phase \in Phases, via \in Ways : Decides(c, phase, via)
    BY <1>7, DecideDecides
  <2>4. PICK index \in Nat : Changes(c, phase, via, index)
    BY <2>3 DEF Decides
  <2>5. /\ conn'[c].phase = phase /\ conn'[c].via = via
        /\ \A d \in Conns : d # c => conn'[d] = conn[d]
    BY <2>4, KindStays
  <2> QED BY <1>5, <2>1, <2>2, <2>3, <2>5 DEF Decides, LiveWays
<1>8. CASE Forwards(c)
  <2>1. conn[c].phase \in Awaits
    BY <1>0, <1>8, ForwardHandles DEF Awaits
  <2>2. Unwritten(c) /\ conn[c].via \in LiveWays \union {"pass"}
    BY <1>0, <2>1 DEF WrittenOf, WayTaken, Awaits
  <2>3. PICK phase \in Phases : Changes(c, phase, conn[c].via, conn[c].index)
    BY <1>0, <1>8, ForwardHandles
  <2>4. /\ conn'[c].phase = phase /\ conn'[c].via = conn[c].via
        /\ \A d \in Conns : d # c => conn'[d] = conn[d]
    BY <2>3, KindStays
  <2>5. CASE Record(c) /\ conn'[c].phase = "done"
    <3>1. /\ Numbered' /\ WrittenOnce(c)'
          /\ \A d \in Conns : d # c => CapturedAlike(d) /\ NotedAlike(d)
      BY <1>0, <2>2, <2>5, RecordWrites
    <3>2. WrittenOf(c)'
      BY <2>2, <2>4, <2>5, <3>1 DEF WrittenOf
    <3> QED BY <1>1, <1>3, <2>4, <3>1, <3>2 DEF Written
  <2>6. CASE TranslationFails(c)
    <3>1. UNCHANGED traceVars /\ config.cross /\ conn[c].kind = "model"
      BY <1>0, <2>6 DEF TranslationFails, NoRecord, In, WayTaken
    <3>2. conn[c].via \in LiveWays
      BY <1>0, <2>2, <3>1 DEF WayTaken
    <3> QED BY <1>5, <2>2, <2>4, <3>1, <3>2
  <2>7. CASE UNCHANGED traceVars /\ conn'[c].phase # "done"
    BY <1>5, <2>2, <2>4, <2>7
  <2> QED BY <1>0, <1>8, <2>5, <2>6, <2>7, ForwardEnds
<1>9. CASE Stirs(c)
  <2>1. conn' = conn /\ UNCHANGED traceVars
    BY <1>9, StirLeaves
  <2> QED BY <1>1, <1>2, <1>3, <2>1 DEF Written
<1> QED BY <1>4, <1>6, <1>7, <1>8, <1>9, StepKinds

LEMMA ProxyInitWritten == ProxyInit => Written
<1> SUFFICES ASSUME ProxyInit PROVE Written
  OBVIOUS
<1>1. \A c \in Conns : conn[c].phase = "none" /\ conn[c].via = "none"
  BY DEF ProxyInit
<1>2. \A c \in Conns : Unwritten(c)
  BY DEF ProxyInit, Unwritten, CapturedOf, NotedOf
<1>3. \A c \in Conns : WayTaken(c) /\ WrittenOf(c)
  BY <1>1, <1>2 DEF WayTaken, WrittenOf, Awaits, LiveWays
<1>4. Numbered
  BY DEF ProxyInit, Numbered
<1> QED BY <1>3, <1>4 DEF Written

LEMMA WrittenStands ==
  ASSUME Written, UNCHANGED proxyVars
  PROVE  Written'
<1>1. conn' = conn /\ config' = config /\ captured' = captured /\ netEvents' = netEvents
  BY DEF proxyVars, optionVars, traceVars
<1>2. Numbered'
  BY <1>1 DEF Written, Numbered
<1>3. ASSUME NEW c \in Conns PROVE WayTaken(c)' /\ WrittenOf(c)'
  <2>1. WayTaken(c) /\ WrittenOf(c)
    BY DEF Written
  <2> QED BY <1>1, <2>1
          DEF WayTaken, WrittenOf, WrittenOnce, Unwritten, CapturedOf, NotedOf
<1> QED BY <1>2, <1>3 DEF Written

LEMMA WrittenAlways == ProxySpec => []Written
<1>1. ProxyIInv /\ Written /\ [ProxyNext]_proxyVars => Written'
  BY WrittenKeeps, WrittenStands
<1> QED BY <1>1, ProxyInitWritten, ProxyInvariant, PTL DEF ProxySpec

(* However handlers interleave, fail or are left by their clients, what was*)
(* forwarded is written down once and when it has ended, model exchanges   *)
(* numbered in that order; what was not forwarded is not (recordExchange() *)
(* and onNetExchange of server.ts).                                        *)
THEOREM WrittenDownOnce == ProxySpec => []RecordedOnce
<1>1. Written => RecordedOnce
  <2> SUFFICES ASSUME Written, NEW c \in Conns
      PROVE  IF c \in Forwarded /\ conn[c].phase = "done"
               THEN \/ RecordsOf(c) = 1
                    \/ config.cross /\ c \in Live /\ RecordsOf(c) = 0
               ELSE RecordsOf(c) = 0
    BY DEF RecordedOnce, Written, Numbered
  <2>1. RecordsOf(c) = Cardinality(CapturedOf(c)) + Cardinality(NotedOf(c))
    BY DEF RecordsOf, CapturedOf, NotedOf
  <2>2. Cardinality({}) = 0
    BY FS_EmptySet
  <2>3. \A i \in Nat : Cardinality({i}) = 1
    BY FS_Singleton
  <2>4. Unwritten(c) => RecordsOf(c) = 0
    BY <2>1, <2>2 DEF Unwritten
  <2>5. WrittenOnce(c) => RecordsOf(c) = 1
    BY <2>1, <2>2, <2>3 DEF WrittenOnce
  <2>6. /\ c \in Forwarded <=> conn[c].via \in LiveWays \union {"pass"}
        /\ c \in Live <=> conn[c].via \in LiveWays
    BY DEF Forwarded, Live, Via, LiveWays
  <2>7. WrittenOf(c)
    BY DEF Written
  <2> QED BY <2>4, <2>5, <2>6, <2>7 DEF WrittenOf
<1> QED BY <1>1, WrittenAlways, PTL

-----------------------------------------------------------------------------
(* Counters: who decides gets a way, and the counters of that way move.     *)

Exactly == {c \in Via({"trace"}) : conn[c].request = recorded[conn[c].index]}
Reported == diverged \subseteq Via({"miss"})

ExactCount == Cardinality(Exactly)
InexactCount == Cardinality(Via({"trace"}) \ Exactly)
UnmatchedCount == Cardinality(Via({"miss", "halted"}))
LiveCount == Cardinality(Via(LiveWays))
PassedCount == Cardinality(Via({"pass"}))
ReportedCount == Cardinality(diverged)

Tallies ==
  /\ stats.matchedExact = ExactCount
  /\ stats.matchedInexact = InexactCount
  /\ stats.unmatched = UnmatchedCount
  /\ stats.liveCalls = LiveCount
  /\ stats.passedThrough = PassedCount
  /\ stats.divergences = stats.matchedInexact + ReportedCount

Fates == Reported /\ Tallies

SetWays == SUBSET (Ways \ {"none"})

LEMMA ViaIsFinite ==
  ASSUME NEW ways
  PROVE  /\ IsFiniteSet(Via(ways)) /\ Cardinality(Via(ways)) \in Nat
         /\ IsFiniteSet(Exactly) /\ Cardinality(Exactly) \in Nat
         /\ IsFiniteSet(Via(ways) \ Exactly) /\ Cardinality(Via(ways) \ Exactly) \in Nat
<1>1. /\ IsFiniteSet(Conns) /\ Via(ways) \in SUBSET Conns /\ Exactly \in SUBSET Conns
      /\ Via(ways) \ Exactly \in SUBSET Conns
  BY ProxyAssumption DEF Via, Exactly
<1> QED BY <1>1, FS_Subset, FS_CardinalityType

\* The counts when one connection takes its way, and when none does.
Grows(c, ways, via) ==
  Cardinality(Via(ways))' = Cardinality(Via(ways)) + (IF via \in ways THEN 1 ELSE 0)

LEMMA WayGrows ==
  ASSUME NEW c \in Conns, conn[c].via = "none", NEW via \in Ways, conn'[c].via = via,
         \A d \in Conns : d # c => conn'[d] = conn[d], NEW ways \in SetWays
  PROVE  Grows(c, ways, via)
<1>1. c \notin Via(ways)
  BY DEF Via, SetWays
<1>2. CASE via \in ways
  <2>1. Via(ways)' = Via(ways) \union {c}
    BY <1>2 DEF Via
  <2>2. Cardinality(Via(ways) \union {c}) = Cardinality(Via(ways)) + 1
    BY <1>1, ViaIsFinite, FS_AddElement
  <2>3. Cardinality(Via(ways))' = Cardinality(Via(ways) \union {c})
    BY <2>1
  <2> QED BY <1>2, <2>2, <2>3 DEF Grows
<1>3. CASE via \notin ways
  <2>1. Via(ways)' = Via(ways)
    BY <1>1, <1>3 DEF Via
  <2>2. Cardinality(Via(ways))' = Cardinality(Via(ways)) /\ Cardinality(Via(ways)) \in Nat
    BY <2>1, ViaIsFinite
  <2> QED BY <1>3, <2>2 DEF Grows
<1> QED BY <1>2, <1>3

\* How a trace answer is counted: the rung tells equality.
LEMMA ExactGrows ==
  ASSUME NEW c \in Conns, conn[c].via = "none", conn'[c].via = "trace",
         recorded' = recorded, \A d \in Conns : d # c => conn'[d] = conn[d]
  PROVE  IF conn'[c].request = recorded[conn'[c].index]
           THEN /\ Cardinality(Exactly)' = Cardinality(Exactly) + 1
                /\ Cardinality(Via({"trace"}) \ Exactly)' = Cardinality(Via({"trace"}) \ Exactly)
           ELSE /\ Cardinality(Exactly)' = Cardinality(Exactly)
                /\ Cardinality(Via({"trace"}) \ Exactly)'
                     = Cardinality(Via({"trace"}) \ Exactly) + 1
<1> DEFINE rest == Via({"trace"}) \ Exactly
<1>1. c \notin Via({"trace"}) /\ c \notin Exactly /\ c \notin rest
  BY DEF Via, Exactly
<1>2. /\ Cardinality(Exactly \union {c}) = Cardinality(Exactly) + 1
      /\ Cardinality(rest \union {c}) = Cardinality(rest) + 1
  BY <1>1, ViaIsFinite, FS_AddElement
<1>3. CASE conn'[c].request = recorded[conn'[c].index]
  <2>1. Exactly' = Exactly \union {c} /\ rest' = rest
    BY <1>1, <1>3 DEF Exactly, Via
  <2>2. /\ Cardinality(Exactly)' = Cardinality(Exactly \union {c})
        /\ Cardinality(rest)' = Cardinality(rest)
    BY <2>1
  <2> QED BY <1>2, <1>3, <2>2
<1>4. CASE conn'[c].request # recorded[conn'[c].index]
  <2>1. Exactly' = Exactly /\ rest' = rest \union {c}
    BY <1>1, <1>4 DEF Exactly, Via
  <2>2. /\ Cardinality(Exactly)' = Cardinality(Exactly)
        /\ Cardinality(rest)' = Cardinality(rest \union {c})
    BY <2>1
  <2> QED BY <1>2, <1>4, <2>2
<1> QED BY <1>3, <1>4

LEMMA ExactStays ==
  ASSUME \A d \in Conns : \/ conn'[d] = conn[d]
                          \/ conn[d].via # "trace" /\ conn'[d].via # "trace",
         recorded' = recorded
  PROVE  /\ Cardinality(Exactly)' = Cardinality(Exactly)
         /\ Cardinality(Via({"trace"}) \ Exactly)' = Cardinality(Via({"trace"}) \ Exactly)
<1>1. Exactly' = Exactly /\ Via({"trace"})' = Via({"trace"})
  BY DEF Exactly, Via
<1> QED BY <1>1

LEMMA ReportGrows ==
  ASSUME Reported, NEW c \in Conns, conn[c].via = "none", diverged' = diverged \union {c}
  PROVE  Cardinality(diverged') = Cardinality(diverged) + 1
<1>1. c \notin diverged /\ diverged \in SUBSET Conns /\ IsFiniteSet(Conns)
  BY ProxyAssumption DEF Reported, Via
<1>2. IsFiniteSet(diverged)
  BY <1>1, FS_Subset
<1> QED BY <1>1, <1>2, FS_AddElement

\* What the counts of the other ways do while one connection takes its own.
Counts(c, via) ==
  /\ UnmatchedCount' = UnmatchedCount + (IF via \in {"miss", "halted"} THEN 1 ELSE 0)
  /\ LiveCount' = LiveCount + (IF via \in LiveWays THEN 1 ELSE 0)
  /\ PassedCount' = PassedCount + (IF via \in {"pass"} THEN 1 ELSE 0)

ExactAlike ==
  ExactCount' = ExactCount /\ InexactCount' = InexactCount

LEMMA TakesWay ==
  ASSUME NEW c \in Conns, conn[c].via = "none", NEW via \in Ways, NEW phase, NEW index,
         Changes(c, phase, via, index), recorded' = recorded
  PROVE  Counts(c, via) /\ (via # "trace" => ExactAlike)
<1>1. conn'[c].via = via /\ \A d \in Conns : d # c => conn'[d] = conn[d]
  BY DEF Changes
<1>2. {{"miss", "halted"}, LiveWays, {"pass"}} \subseteq SetWays
  BY DEF SetWays, Ways, LiveWays
<1>3. Counts(c, via)
  <2>1. /\ Grows(c, {"miss", "halted"}, via) /\ Grows(c, LiveWays, via)
        /\ Grows(c, {"pass"}, via)
    BY <1>1, <1>2, WayGrows
  <2> QED BY <2>1 DEF Counts, Grows, UnmatchedCount, LiveCount, PassedCount
<1>4. via # "trace" => ExactAlike
  BY <1>1, ExactStays DEF ExactAlike, ExactCount, InexactCount
<1> QED BY <1>3, <1>4

\* The numbers behind Tallies.
LEMMA TallyTypes ==
  ASSUME ProxyTypeOK
  PROVE  /\ stats \in [Counters -> Nat]
         /\ ExactCount \in Nat /\ InexactCount \in Nat /\ UnmatchedCount \in Nat
         /\ LiveCount \in Nat /\ PassedCount \in Nat /\ ReportedCount \in Nat
<1>1. IsFiniteSet(Conns) /\ diverged \in SUBSET Conns
  BY ProxyAssumption DEF ProxyTypeOK
<1> QED BY <1>1, ViaIsFinite, FS_Subset, FS_CardinalityType
        DEF ProxyTypeOK, ExactCount, InexactCount, UnmatchedCount, LiveCount, PassedCount,
            ReportedCount

LEMMA QuietFatesKeep ==
  ASSUME ProxyTypeOK, Fates, NEW c \in Conns, recorded' = recorded, stats' = stats,
         diverged' = diverged,
         \A d \in Conns : d # c => conn'[d] = conn[d],
         conn'[c].via = conn[c].via,
         conn[c].via = "trace" => conn'[c].request = conn[c].request
                                    /\ conn'[c].index = conn[c].index
  PROVE  Fates'
<1>1. \A ways : Via(ways)' = Via(ways)
  BY DEF Via
<1>2. Exactly' = Exactly
  BY DEF Exactly, Via
<1>3. /\ ExactCount' = ExactCount /\ InexactCount' = InexactCount
      /\ UnmatchedCount' = UnmatchedCount /\ LiveCount' = LiveCount
      /\ PassedCount' = PassedCount /\ ReportedCount' = ReportedCount
  BY <1>1, <1>2
  DEF ExactCount, InexactCount, UnmatchedCount, LiveCount, PassedCount, ReportedCount
<1> QED BY <1>1, <1>3 DEF Fates, Reported, Tallies

LEMMA DecidedFatesKeep ==
  ASSUME ProxyIInv, Written, Fates, NEW c \in Conns, Decide(c), ProxyTypeOK',
         recorded' = recorded
  PROVE  Fates'
<1>0. /\ ProxyTypeOK /\ IInv /\ stats \in [Counters -> Nat] /\ Reported /\ Tallies
      /\ conn[c].index \in Nat
  BY ConnFacts, TallyTypes DEF ProxyIInv, Fates
<1>1. conn[c].via = "none" /\ c \notin diverged
  <2>1. conn[c].phase = "reading"
    BY DecideDecides
  <2> QED BY <1>0, <2>1 DEF Written, WayTaken, Reported, Via
<1>2. \A via \in Ways, index \in Nat :
        Finish(c, via, index)
          => /\ Counts(c, via) /\ (via # "trace" => ExactAlike)
             /\ Changes(c, "done", via, index)
  BY <1>0, <1>1, FinishChanges, TakesWay
<1>3. \A via \in Ways :
        Fetch(c, via)
          => /\ Counts(c, via) /\ (via # "trace" => ExactAlike)
             /\ Changes(c, "fetching", via, conn[c].index)
  BY <1>0, <1>1, FetchChanges, TakesWay
<1>4. ASSUME NEW phase, NEW via \in Ways, NEW index, Changes(c, phase, via, index),
             \/ diverged' = diverged
             \/ diverged' = diverged \union {c} /\ via = "miss"
      PROVE  Reported'
  <2>1. conn'[c].via = via /\ \A d \in Conns : d # c => conn'[d] = conn[d]
    BY <1>4 DEF Changes
  <2> QED BY <1>0, <1>1, <1>4, <2>1 DEF Reported, Via
<1>0a. diverged' = diverged => ReportedCount' = ReportedCount
  BY DEF ReportedCount
<1>5. CASE BodyAborted(c) \/ AnswerAtOnce(c)
  <2>1. Finish(c, "refused", 0) /\ stats' = stats /\ diverged' = diverged
    BY <1>5 DEF BodyAborted, AnswerAtOnce
  <2>2. Counts(c, "refused") /\ ExactAlike /\ Reported'
    BY <1>2, <1>4, <2>1 DEF Ways
  <2>3. Tallies'
    BY <1>0, <1>0a, <2>1, <2>2, TallyTypes DEF Counts, ExactAlike, Tallies, LiveWays
  <2> QED BY <2>2, <2>3 DEF Fates
<1>6. CASE PassThrough(c) /\ config.mode = "replay"
  <2>1. /\ Finish(c, "halted", 0) /\ diverged' = diverged
        /\ stats' = [stats EXCEPT !.unmatched = @ + 1]
    BY <1>6 DEF PassThrough
  <2>2. Counts(c, "halted") /\ ExactAlike /\ Reported'
    BY <1>2, <1>4, <2>1 DEF Ways
  <2>3. Tallies'
    BY <1>0, <1>0a, <2>1, <2>2, TallyTypes
    DEF Counts, ExactAlike, Tallies, LiveWays, Counters
  <2> QED BY <2>2, <2>3 DEF Fates
<1>7. CASE PassThrough(c) /\ config.mode # "replay"
  <2>1. /\ Fetch(c, "pass") /\ diverged' = diverged
        /\ stats' = [stats EXCEPT !.passedThrough = @ + 1]
    BY <1>7 DEF PassThrough
  <2>2. Counts(c, "pass") /\ ExactAlike /\ Reported'
    BY <1>3, <1>4, <2>1 DEF Ways
  <2>3. Tallies'
    BY <1>0, <1>0a, <2>1, <2>2, TallyTypes
    DEF Counts, ExactAlike, Tallies, LiveWays, Counters
  <2> QED BY <2>2, <2>3 DEF Fates
<1>8. CASE GoLive(c)
  <2>1. PICK via \in {"record", "fork"} : Fetch(c, via)
    BY <1>8 DEF GoLive
  <2>2. diverged' = diverged /\ stats' = [stats EXCEPT !.liveCalls = @ + 1]
    BY <1>8 DEF GoLive
  <2>3. Counts(c, via) /\ ExactAlike /\ Reported'
    BY <1>3, <1>4, <2>1, <2>2 DEF Ways
  <2>4. Tallies'
    BY <1>0, <1>0a, <2>1, <2>2, <2>3, TallyTypes
    DEF Counts, ExactAlike, Tallies, LiveWays, Counters
  <2> QED BY <2>3, <2>4 DEF Fates
<1>9. CASE Halt(c)
  <2>1. /\ Finish(c, "halted", 0) /\ diverged' = diverged
        /\ stats' = [stats EXCEPT !.unmatched = @ + 1]
    BY <1>9 DEF Halt
  <2>2. Counts(c, "halted") /\ ExactAlike /\ Reported'
    BY <1>2, <1>4, <2>1 DEF Ways
  <2>3. Tallies'
    BY <1>0, <1>0a, <2>1, <2>2, TallyTypes
    DEF Counts, ExactAlike, Tallies, LiveWays, Counters
  <2> QED BY <2>2, <2>3 DEF Fates
<1>10. CASE GoLiveOnMiss(c)
  <2>1. /\ Fetch(c, "miss") /\ diverged' = diverged \union {c}
        /\ stats' = [stats EXCEPT !.unmatched = @ + 1, !.divergences = @ + 1,
                                  !.liveCalls = @ + 1]
    BY <1>10 DEF GoLiveOnMiss
  <2>2. Counts(c, "miss") /\ ExactAlike /\ Reported'
    BY <1>3, <1>4, <2>1 DEF Ways
  <2>3. ReportedCount' = ReportedCount + 1
    BY <1>0, <1>1, <2>1, ReportGrows DEF ReportedCount
  <2>4. /\ stats'.matchedExact = stats.matchedExact
        /\ stats'.matchedInexact = stats.matchedInexact
        /\ stats'.unmatched = stats.unmatched + 1
        /\ stats'.liveCalls = stats.liveCalls + 1
        /\ stats'.passedThrough = stats.passedThrough
        /\ stats'.divergences = stats.divergences + 1
    BY <1>0, <2>1 DEF Counters
  <2>5. Tallies'
    BY <1>0, <1>0a, <2>2, <2>3, <2>4, TallyTypes
    DEF Counts, ExactAlike, Tallies, LiveWays, Counters
  <2> QED BY <2>2, <2>5 DEF Fates
<1>11. CASE ServeRecorded(c)
  <2>1. /\ Match(conn[c].request, peak) /\ conn[c].request \in Requests /\ peak \in Nat
        /\ last'.rung # 4 /\ diverged' = diverged
    BY <1>0, <1>11, ConnFacts DEF ServeRecorded, Consults, ProxyTypeOK
  <2>2. /\ last'.index \in Nat
        /\ last'.rung = Rung(conn[c].request, recorded[last'.index])
    BY <1>0, <2>1, MatchStep
  <2>3. Finish(c, "trace", last'.index)
    BY <1>11 DEF ServeRecorded
  <2>4. /\ Counts(c, "trace") /\ Changes(c, "done", "trace", last'.index) /\ Reported'
    BY <1>2, <1>4, <2>1, <2>2, <2>3 DEF Ways
  <2>5. /\ conn'[c].via = "trace" /\ conn'[c].request = conn[c].request
        /\ conn'[c].index = last'.index
        /\ \A d \in Conns : d # c => conn'[d] = conn[d]
    BY <2>4 DEF Changes
  <2>6. last'.rung = 1 <=> conn'[c].request = recorded[conn'[c].index]
    BY <2>2, <2>5, RungOneIsEquality
  <2> DEFINE exact == last'.rung = 1
  <2>7. /\ stats'.matchedExact = stats.matchedExact + (IF exact THEN 1 ELSE 0)
        /\ stats'.matchedInexact = stats.matchedInexact + (IF exact THEN 0 ELSE 1)
        /\ stats'.unmatched = stats.unmatched
        /\ stats'.liveCalls = stats.liveCalls
        /\ stats'.passedThrough = stats.passedThrough
        /\ stats'.divergences = stats.divergences + (IF exact THEN 0 ELSE 1)
    <3>1. stats' = [stats EXCEPT
            !.reordered = @ + (IF last'.reordered THEN 1 ELSE 0),
            !.matchedExact = @ + (IF last'.rung = 1 THEN 1 ELSE 0),
            !.matchedInexact = @ + (IF last'.rung = 1 THEN 0 ELSE 1),
            !.divergences = @ + (IF last'.rung = 1 THEN 0 ELSE 1)]
      BY <1>11 DEF ServeRecorded
    <3> QED BY <1>0, <3>1 DEF Counters
  <2>8. /\ ExactCount' = ExactCount + (IF exact THEN 1 ELSE 0)
        /\ InexactCount' = InexactCount + (IF exact THEN 0 ELSE 1)
    <3>1. IF exact
            THEN ExactCount' = ExactCount + 1 /\ InexactCount' = InexactCount
            ELSE ExactCount' = ExactCount /\ InexactCount' = InexactCount + 1
      BY <1>1, <2>5, <2>6, ExactGrows DEF ExactCount, InexactCount
    <3> QED BY <1>0, <3>1, TallyTypes
  <2> HIDE DEF exact
  <2>9. Tallies'
    BY <1>0, <1>0a, <2>1, <2>4, <2>7, <2>8, TallyTypes
    DEF Counts, Tallies, LiveWays, Counters
  <2> QED BY <2>4, <2>9 DEF Fates
<1> QED BY <1>5, <1>6, <1>7, <1>8, <1>9, <1>10, <1>11 DEF Decide

LEMMA FatesKeep ==
  ASSUME ProxyIInv, Written, Fates, ProxyNext
  PROVE  Fates'
<1>0. ProxyTypeOK /\ ProxyTypeOK' /\ recorded' = recorded
  BY TypeKeeps, MatcherMoves DEF ProxyIInv
<1>1. PICK c \in Conns :
        (\E kind \in Kinds, request \in Requests : Arrive(c, kind, request)) \/ Step(c)
  BY DEF ProxyNext
<1>2. CASE \E kind \in Kinds, request \in Requests : Arrive(c, kind, request)
  <2>1. conn[c].phase = "none" /\ stats' = stats /\ diverged' = diverged
    BY <1>2 DEF Arrive
  <2>2. conn[c].via = "none"
    BY <2>1 DEF Written, WayTaken
  <2>3. conn'[c].via = "none" /\ \A d \in Conns : d # c => conn'[d] = conn[d]
    BY <1>0, <1>2, ArriveChanges
  <2> QED BY <1>0, <2>1, <2>2, <2>3, QuietFatesKeep
<1>3. CASE Decide(c)
  BY <1>0, <1>3, DecidedFatesKeep
<1>4. CASE Forwards(c)
  <2>1. stats' = stats /\ diverged' = diverged
    BY <1>0, <1>4, ForwardHandles
  <2>2. PICK phase \in Phases : Changes(c, phase, conn[c].via, conn[c].index)
    BY <1>0, <1>4, ForwardHandles
  <2>3. /\ conn'[c].via = conn[c].via /\ conn'[c].index = conn[c].index
        /\ conn'[c].request = conn[c].request
        /\ \A d \in Conns : d # c => conn'[d] = conn[d]
    BY <2>2 DEF Changes
  <2> QED BY <1>0, <2>1, <2>3, QuietFatesKeep
<1>5. CASE Stirs(c)
  <2>1. conn' = conn /\ stats' = stats /\ diverged' = diverged
    BY <1>5, StirLeaves
  <2> QED BY <1>0, <2>1, QuietFatesKeep
<1> QED BY <1>1, <1>2, <1>3, <1>4, <1>5, StepKinds

LEMMA ProxyInitFates == ProxyInit => Fates
<1> SUFFICES ASSUME ProxyInit PROVE Fates
  OBVIOUS
<1>1. \A c \in Conns : conn[c].via = "none"
  BY DEF ProxyInit
<1>2. \A ways \in SetWays : Via(ways) = {}
  BY <1>1 DEF Via, SetWays
<1>3. Exactly = {} /\ diverged = {}
  BY <1>1 DEF Exactly, Via, ProxyInit
<1>4. Cardinality({}) = 0
  BY FS_EmptySet
<1>5. {{"miss", "halted"}, LiveWays, {"pass"}, {"trace"}} \subseteq SetWays
  BY DEF SetWays, Ways, LiveWays
<1>6. /\ Via({"miss", "halted"}) = {} /\ Via(LiveWays) = {} /\ Via({"pass"}) = {}
      /\ Via({"trace"}) \ Exactly = {}
  BY <1>2, <1>3, <1>5
<1>7. Tallies
  <2>1. /\ ExactCount = 0 /\ InexactCount = 0 /\ UnmatchedCount = 0
        /\ LiveCount = 0 /\ PassedCount = 0 /\ ReportedCount = 0
    BY <1>3, <1>4, <1>6
    DEF ExactCount, InexactCount, UnmatchedCount, LiveCount, PassedCount, ReportedCount
  <2>2. /\ stats.matchedExact = 0 /\ stats.matchedInexact = 0 /\ stats.unmatched = 0
        /\ stats.liveCalls = 0 /\ stats.passedThrough = 0 /\ stats.divergences = 0
    BY DEF ProxyInit
  <2> QED BY <2>1, <2>2 DEF Tallies
<1> QED BY <1>3, <1>7 DEF Fates, Reported

LEMMA FatesStand ==
  ASSUME Fates, UNCHANGED proxyVars
  PROVE  Fates'
<1>1. conn' = conn /\ stats' = stats /\ diverged' = diverged /\ recorded' = recorded
  BY DEF proxyVars, matcherVars
<1>2. Exactly' = Exactly /\ \A ways : Via(ways)' = Via(ways)
  BY <1>1 DEF Exactly, Via
<1>3. /\ ExactCount' = ExactCount /\ InexactCount' = InexactCount
      /\ UnmatchedCount' = UnmatchedCount /\ LiveCount' = LiveCount
      /\ PassedCount' = PassedCount /\ ReportedCount' = ReportedCount
  BY <1>1, <1>2
  DEF ExactCount, InexactCount, UnmatchedCount, LiveCount, PassedCount, ReportedCount
<1> QED BY <1>1, <1>2, <1>3 DEF Fates, Reported, Tallies

LEMMA FatesAlways == ProxySpec => []Fates
<1>1. ProxyIInv /\ Written /\ Fates /\ [ProxyNext]_proxyVars => Fates'
  BY FatesKeep, FatesStand
<1> QED BY <1>1, ProxyInitFates, ProxyInvariant, WrittenAlways, PTL DEF ProxySpec

(* The counters a command's verdict is made of are the fates of the        *)
(* connections: no way out of a handler forgets to count, or to leave the  *)
(* number in flight, and none counts twice (handle() and the server        *)
(* callback of server.ts).                                                 *)
THEOREM CountersTellFates == ProxySpec => []StatsTellFates
<1>1. ProxyIInv /\ Fates => StatsTellFates
  <2> SUFFICES ASSUME ProxyIInv, Fates PROVE StatsTellFates
    OBVIOUS
  <2>1. Live = Via(LiveWays)
    BY DEF Live, LiveWays
  <2>2. inFlight = Cardinality(Open)
    BY DEF ProxyIInv, Counting
  <2>3. Exactly = {c \in Via({"trace"}) : conn[c].request = recorded[conn[c].index]}
    BY DEF Exactly
  <2>4. Tallies
    BY DEF Fates
  <2> QED BY <2>1, <2>2, <2>3, <2>4 
      DEF StatsTellFates, Tallies, ExactCount, InexactCount, UnmatchedCount, LiveCount,
          PassedCount, ReportedCount
<1> QED BY <1>1, FatesAlways, ProxyInvariant, PTL
=============================================================================
