-------------------------- MODULE CausalGraphProofs ---------------------------
(***************************************************************************)
(* What a trace says produced what, for every set of calls a harness may   *)
(* make, any depth of delegation and any number of rejected appends        *)
(* (CausalGraph.tla).                                                      *)
(*                                                                         *)
(* No function of a trace alone could be right about which call an effect  *)
(* came from, or which delegation a request was made under: that the graph *)
(* is depends on the order harness and recorder write in.  GraphBooks says *)
(* what that order is.  Each conversation waits for the next alone, on the *)
(* call it began with (Stack); calls are written in the order they were    *)
(* made, by the exchanges that brought them (CallBooks); a change or a     *)
(* frame not yet read is of a call that has run, within a turn of it       *)
(* unless the tool was quicker than the recorder (EffectBooks); and an     *)
(* exchange still to be written is of the latest delegation that will be   *)
(* open when it is, and carries results of calls that will be known        *)
(* (DelegateBooks).  With the trace as it stands these say of every        *)
(* request that the last delegation still open is its own                  *)
(* (NamesTheDelegate, inductive with them).                                *)
(*                                                                         *)
(* The graph is defined by recursion on seqs; edges point forward, which   *)
(* is all the proofs need of it (ChainIs, ChainReaches).  Each action has  *)
(* a lemma that says what it leaves of the books; Writes, which moves an   *)
(* exchange from the queue into the trace, needs several (WritesIs to      *)
(* WritesNames).                                                           *)
(***************************************************************************)
EXTENDS CausalGraph, FiniteSetTheorems, SequenceTheorems, TLAPS

-----------------------------------------------------------------------------
(* The books. *)

Whats == Changed \union Commands \union {"subagent"}
Doings == {"edit", "run", "name", "delegate"}
CallSet == [does : Doings, what : Whats, seq : Nat, turn : Nat, early : BOOLEAN]
TalkSet == [by : Nat, open : SUBSET Nat, done : SUBSET Nat]
EndedSet == [by : Nat, carries : Seq(Nat), brings : SUBSET Nat]
FrameSet == [what : Whats, call : Nat, at : Nat]
Types == {"tool.result", "model.request", "model.response", "tool.call", "fs.change",
          "shell.exec", "shell.result"}
EntrySet == [type : Types, turn : Nat, causes : SUBSET Nat, what : Whats \union {""},
             of : Nat \union (Nat \X Nat)]

Called == 1..Len(calls)
IsDelegate(c) == calls[c].does = "delegate"
Carries(x) == {x.carries[i] : i \in 1..Len(x.carries)}

GraphTypes ==
  /\ talks \in Seq(TalkSet) /\ calls \in Seq(CallSet) /\ ended \in Seq(EndedSet)
  /\ written \in Seq(EntrySet) /\ frames \in Seq(FrameSet)
  /\ turnNow \in Nat /\ looking \in BOOLEAN /\ dirty \in [Changed -> Nat] /\ lost \in Nat
  /\ \A c \in Called : IsDelegate(c) <=> calls[c].what = "subagent"
  /\ \A i \in 1..Len(talks) : /\ IsFiniteSet(talks[i].open) /\ IsFiniteSet(talks[i].done)
                              /\ talks[i].open \subseteq Called /\ talks[i].done \subseteq Called
  /\ \A q \in 1..Len(ended) : /\ IsFiniteSet(ended[q].brings)
                              /\ ended[q].brings \subseteq Called /\ Carries(ended[q]) \subseteq Called
  /\ \A s \in Seqs : written[s].causes \subseteq 1..(s - 1)

\* Who waits for whom: each conversation for the next alone, on whose call it began.
Stack ==
  /\ talks # << >> => talks[1].by = 0
  /\ \A i \in 2..Len(talks) :
       talks[i].by \in Called /\ IsDelegate(talks[i].by) /\ talks[i - 1].open = {talks[i].by}
  /\ \A i, j \in 1..Len(talks) : j < i => talks[j].by < talks[i].by
  /\ \A i \in 1..Len(talks) : \A c \in talks[i].open \union talks[i].done : talks[i].by < c
  /\ \A i \in 1..Len(talks) : \A c \in talks[i].done :
       IsDelegate(c) => i = Len(talks) /\ talks[i].open = {}

\* Calls are written in the order they were made.
IsCall(s, c) == s \in Seqs /\ written[s].type = "tool.call" /\ written[s].of = c
CallBooks ==
  /\ \A c \in Called : calls[c].seq # 0 =>
       /\ IsCall(calls[c].seq, c) /\ written[calls[c].seq].what = calls[c].what
       /\ written[calls[c].seq].turn = calls[c].turn /\ calls[c].turn <= turnNow
  /\ \A s \in Seqs : written[s].type = "tool.call" =>
       written[s].of \in Called /\ calls[written[s].of].seq = s
  /\ \A c, d \in Called : c < d /\ calls[c].seq # 0 /\ calls[d].seq # 0 => calls[c].seq < calls[d].seq
  /\ \A q \in 1..Len(ended) : \A d \in ended[q].brings :
       /\ calls[d].seq = 0
       /\ \A c \in Called : calls[c].seq # 0 => c < d
       /\ \A p \in 1..(q - 1) : \A c \in ended[p].brings : c < d

\* A call that has run leaves its effect within a turn of it, if it was written first.
Ran(c) == c \in Called /\ \A i \in 1..Len(talks) : c \notin talks[i].open
InTurn(c, turn) ==
  ~ calls[c].early => calls[c].seq # 0 /\ calls[c].turn <= turn /\ turn <= calls[c].turn + TurnReach
EffectBooks ==
  /\ \A i \in 1..Len(talks) : i = Len(talks) => \A c \in talks[i].open : ~ IsDelegate(c) =>
       IF ended = << >> THEN calls[c].seq # 0 => calls[c].turn = turnNow
       ELSE c \in Last(ended).brings
  /\ \A p \in Changed : dirty[p] # 0 =>
       /\ Ran(dirty[p]) /\ calls[dirty[p]].what = p
       /\ lost = 0 => InTurn(dirty[p], turnNow) /\ (~ looking => InTurn(dirty[p], turnNow + 1))
  /\ \A i \in 1..Len(frames) :
       /\ Ran(frames[i].call) /\ frames[i].what = calls[frames[i].call].what
       /\ InTurn(frames[i].call, frames[i].at)
  /\ \A e \in Effects :
       /\ Ran(written[e].of) /\ written[e].what = calls[written[e].of].what
       /\ lost = 0 => /\ InTurn(written[e].of, written[e].turn)
                      /\ ~ calls[written[e].of].early => calls[written[e].of].seq < e

\* What is known of calls and of results when the q-th exchange still to be written is.
KnownAt(q) == {c \in Called : calls[c].seq # 0 \/ \E p \in 1..(q - 1) : c \in ended[p].brings}
Results == {written[r].of : r \in {s \in Seqs : written[s].type = "tool.result"}}
ReturnedAt(q) == Results \union UNION {Carries(ended[p]) : p \in 1..q}
OpenAt(q) == {c \in KnownAt(q) : IsDelegate(c) /\ c \notin ReturnedAt(q)}
IsLatest(c, S) == IF c = 0 THEN S = {} ELSE c \in S /\ \A d \in S : d <= c

\* An exchange is of the latest delegation that is open when it is written.
DelegateBooks ==
  lost = 0 =>
  /\ \A c \in Called : calls[c].seq # 0 \/ \E q \in 1..Len(ended) : c \in ended[q].brings
  /\ \A c \in Called : IsDelegate(c) =>
       \/ c \in ReturnedAt(Len(ended))
       \/ \E i \in 1..Len(talks) : c \in talks[i].open \union talks[i].done
  /\ \A i \in 1..Len(talks) : \A c \in talks[i].open \union talks[i].done :
       IsDelegate(c) => c \notin ReturnedAt(Len(ended))
  /\ \A q \in 1..Len(ended) : IsLatest(ended[q].by, OpenAt(q)) /\ Carries(ended[q]) \subseteq KnownAt(q)
  /\ \A r \in Seqs : written[r].type = "tool.result" =>
       /\ written[r].of \in Called /\ calls[written[r].of].seq # 0
       /\ written[r].causes = {calls[written[r].of].seq}
  /\ \A s \in Seqs : written[s].type = "model.request" =>
       LET by == written[s].of[2]
       IN by # 0 => by \in Called /\ calls[by].seq # 0

\* The inductive invariant.
GraphBooks == GraphTypes /\ Stack /\ CallBooks /\ EffectBooks /\ DelegateBooks /\ NamesTheDelegate

-----------------------------------------------------------------------------
(* Places in order. *)

UpTo(S, x) == {y \in S : y <= x}
PlaceOf(S, x) == Cardinality(UpTo(S, x))

LEMMA PlaceIs ==
  ASSUME NEW S \in SUBSET Nat, IsFiniteSet(S)
  PROVE  /\ \A i \in 1..Cardinality(S) : \E x \in S : PlaceOf(S, x) = i
         /\ \A x \in S : PlaceOf(S, x) \in 1..Cardinality(S)
         /\ \A x, y \in S : PlaceOf(S, x) = PlaceOf(S, y) => x = y
<1> DEFINE f == [x \in S |-> PlaceOf(S, x)]
           n == Cardinality(S)
<1>0. n \in Nat
  BY FS_CardinalityType
<1>1. ASSUME NEW x \in S PROVE PlaceOf(S, x) \in 1..n
  <2>1. UpTo(S, x) \in SUBSET S /\ x \in UpTo(S, x)
    BY DEF UpTo
  <2>2. IsFiniteSet(UpTo(S, x)) /\ PlaceOf(S, x) <= n
    BY <2>1, FS_Subset DEF PlaceOf
  <2>3. PlaceOf(S, x) \in Nat /\ PlaceOf(S, x) # 0
    BY <2>1, <2>2, FS_CardinalityType, FS_EmptySet DEF PlaceOf
  <2> QED
    BY <1>0, <2>2, <2>3
<1>2. ASSUME NEW x \in S, NEW y \in S, x < y PROVE PlaceOf(S, x) # PlaceOf(S, y)
  <2>1. UpTo(S, x) \in SUBSET UpTo(S, y) /\ y \in UpTo(S, y) /\ y \notin UpTo(S, x)
    <3>1. x \in Nat /\ y \in Nat /\ S \subseteq Nat
      OBVIOUS
    <3>2. y <= y /\ ~ (y <= x) /\ \A z \in S : z <= x => z <= y
      BY <3>1, <1>2
    <3> QED
      BY <3>2 DEF UpTo
  <2>2. IsFiniteSet(UpTo(S, y))
    BY FS_Subset DEF UpTo
  <2> QED
    BY <2>1, <2>2, FS_Subset DEF PlaceOf
<1>3. f \in [S -> 1..n] /\ \A x, y \in S : f[x] = f[y] => x = y
  <2>1. ASSUME NEW x \in S, NEW y \in S, x # y PROVE PlaceOf(S, x) # PlaceOf(S, y)
    <3>1. x < y \/ y < x
      BY <2>1
    <3> QED
      BY <3>1, <1>2
  <2> HIDE DEF n
  <2> QED
    BY <1>1, <2>1
<1>4. IsFiniteSet(1..n) /\ Cardinality(1..n) = n
  BY <1>0, FS_Interval
<1>5. f \in Injection(S, 1..n)
  <2> HIDE DEF f, n
  <2> QED
    BY <1>3 DEF Injection, IsInjective
<1>6. f \in Surjection(S, 1..n)
  <2> HIDE DEF f
  <2> QED
    BY <1>4, <1>5, FS_Injection
<1>7. \A i \in 1..n : \E x \in S : f[x] = i
  <2> HIDE DEF f, n
  <2> QED
    BY <1>6 DEF Surjection
<1>8. \A x \in S : f[x] = PlaceOf(S, x)
  OBVIOUS
<1> HIDE DEF f
<1> QED
  BY <1>1, <1>3, <1>7, <1>8

LEMMA AscendingIs ==
  ASSUME NEW S \in SUBSET Nat, IsFiniteSet(S)
  PROVE  /\ Cardinality(S) \in Nat /\ Ascending(S) \in Seq(S) /\ Len(Ascending(S)) = Cardinality(S)
         /\ \A i \in 1..Cardinality(S) : Ascending(S)[i] \in S
         /\ \A x \in S : \E i \in 1..Cardinality(S) : Ascending(S)[i] = x
         /\ \A i, j \in 1..Cardinality(S) : i < j => Ascending(S)[i] < Ascending(S)[j]
<1> DEFINE c == Cardinality(S)
           pick(n) == CHOOSE k \in S : PlaceOf(S, k) = n
<1>1. Ascending(S) = [n \in 1..c |-> pick(n)]
  BY DEF Ascending, PlaceOf, UpTo
<1>2. c \in Nat
  BY FS_CardinalityType
<1>3. \A n \in 1..c : pick(n) \in S /\ PlaceOf(S, pick(n)) = n
  BY PlaceIs
<1> HIDE DEF pick, c
<1>4. Ascending(S) \in Seq(S)
  BY <1>1, <1>2, <1>3, IsASeq
<1>5. Len(Ascending(S)) = c
  BY <1>1, <1>2, <1>4, LenProperties
<1>6. ASSUME NEW x \in S PROVE \E i \in 1..c : Ascending(S)[i] = x
  <2>1. PlaceOf(S, x) \in 1..c
    BY PlaceIs DEF c
  <2>2. PICK y : y = pick(PlaceOf(S, x))
    OBVIOUS
  <2>3. y \in S /\ PlaceOf(S, y) = PlaceOf(S, x)
    BY <1>3, <2>1, <2>2
  <2>4. y = x
    BY <2>3, PlaceIs
  <2> QED
    BY <1>1, <2>1, <2>2, <2>4
<1>7. ASSUME NEW i \in 1..c, NEW j \in 1..c, i < j PROVE Ascending(S)[i] < Ascending(S)[j]
  <2>1. PICK x \in S, y \in S : x = Ascending(S)[i] /\ y = Ascending(S)[j]
                                /\ PlaceOf(S, x) = i /\ PlaceOf(S, y) = j
    BY <1>1, <1>3
  <2>2. CASE y <= x
    <3>1. UpTo(S, y) \in SUBSET UpTo(S, x)
      <4>1. \A z \in S : z <= y => z <= x
        BY <2>2
      <4> QED
        BY <4>1 DEF UpTo
    <3>2. UpTo(S, x) \in SUBSET S
      BY DEF UpTo
    <3>3. IsFiniteSet(UpTo(S, x))
      BY <3>2, FS_Subset
    <3>4. /\ Cardinality(UpTo(S, y)) <= Cardinality(UpTo(S, x))
      BY <3>1, <3>3, FS_Subset
    <3>5. j <= i
      BY <2>1, <3>4 DEF PlaceOf
    <3> QED
      BY <1>2, <1>7, <3>5
  <2> QED
    BY <2>1, <2>2
<1> QED
  BY <1>1, <1>2, <1>3, <1>4, <1>5, <1>6, <1>7 DEF c

LEMMA LeastIs ==
  ASSUME NEW n \in Nat, NEW S \in SUBSET (0..n), S # {}
  PROVE  \E x \in S : \A y \in S : x <= y
<1>1. IsFiniteSet(0..n) /\ (0..n) \subseteq Nat
  BY FS_Interval
<1>2. IsFiniteSet(S) /\ S \in SUBSET Nat
  BY <1>1, FS_Subset
<1>3. Cardinality(S) \in Nat /\ Cardinality(S) # 0
  BY <1>2, FS_CardinalityType, FS_EmptySet
<1>4. PICK x \in S : x = Ascending(S)[1]
  <2>1. 1 \in 1..Cardinality(S)
    BY <1>3
  <2> QED
    BY <1>2, <2>1, AscendingIs
<1>5. ASSUME NEW y \in S PROVE x <= y
  <2>1. PICK i \in 1..Cardinality(S) : Ascending(S)[i] = y
    BY <1>2, AscendingIs
  <2>2. i = 1 \/ Ascending(S)[1] < Ascending(S)[i]
    BY <1>2, <1>3, AscendingIs
  <2> QED
    BY <1>4, <1>2, <2>1, <2>2
<1> QED
  BY <1>5

-----------------------------------------------------------------------------
(* Chains. *)

Forward(edges) == \A edge \in edges : edge \in Seqs \X Seqs /\ edge[1] < edge[2]

\* The chain behind an event is what the edges say it is, for the edges point forward.
LEMMA ChainIs ==
  ASSUME NEW n \in Nat, Seqs = 1..n, NEW edges, Forward(edges)
  PROVE  \A s \in Seqs :
           ChainTo(edges, s) = {s} \union UNION {ChainTo(edges, e[1]) : e \in {d \in edges : d[2] = s}}
<1> DEFINE Behind(f, t) == {t} \union UNION {f[e[1]] : e \in {d \in edges : d[2] = t}}
           Is(f, m) == f = [t \in 1..m |-> Behind(f, t)]
           bad == {m \in 0..n : ~ \E f : Is(f, m)}
<1>1. bad = {}
  <2> SUFFICES ASSUME bad # {} PROVE FALSE
    OBVIOUS
  <2>1. PICK m \in bad : \A y \in bad : m <= y
    <3>1. bad \in SUBSET (0..n)
      OBVIOUS
    <3> HIDE DEF bad
    <3> QED
      BY <3>1, LeastIs
  <2>2. m \in 0..n /\ ~ \E f : Is(f, m)
    OBVIOUS
  <2>3. CASE m = 0
    <3> DEFINE f == [t \in 1..0 |-> {}]
    <3>1. Is(f, 0)
      OBVIOUS
    <3> QED
      BY <2>2, <2>3, <3>1
  <2>4. CASE m # 0
    <3>1. m - 1 \in 0..n /\ ~ (m <= m - 1)
      BY <2>2, <2>4
    <3>2. m - 1 \notin bad
      BY <2>1, <3>1
    <3>3. PICK f : Is(f, m - 1)
      BY <3>1, <3>2
    <3> DEFINE g == [t \in 1..m |-> Behind(f, t)]
    <3>4. ASSUME NEW t \in 1..m, NEW e \in {d \in edges : d[2] = t} PROVE g[e[1]] = f[e[1]]
      <4>1. e[1] \in 1..(m - 1) /\ e[1] \in 1..m
        BY <2>2 DEF Forward
      <4>2. f[e[1]] = Behind(f, e[1]) /\ g[e[1]] = Behind(f, e[1])
        BY <3>3, <4>1
      <4> QED
        BY <4>2
    <3>5. \A t \in 1..m : Behind(g, t) = Behind(f, t)
      <4> HIDE DEF g
      <4> QED
        BY <3>4
    <3>6. Is(g, m)
      BY <3>5
    <3> QED
      BY <2>2, <3>6
  <2> QED
    BY <2>3, <2>4
<1> DEFINE F == CHOOSE f : Is(f, n)
<1>2. Is(F, n)
  <2>1. n \in 0..n
    OBVIOUS
  <2>2. \E f : Is(f, n)
    BY <1>1, <2>1
  <2> HIDE DEF Is
  <2> QED
    BY <2>2
<1>3. \A s \in Seqs : ChainTo(edges, s) = F[s]
  BY DEF ChainTo
<1> HIDE DEF F, bad
<1>4. \A s \in Seqs : F[s] = Behind(F, s)
  BY <1>2
<1>5. \A e \in edges : e[1] \in Seqs
  BY DEF Forward
<1> HIDE DEF Is
<1> QED
  BY <1>3, <1>4, <1>5

LEMMA ChainGrows ==
  ASSUME NEW n \in Nat, Seqs = 1..n, NEW fewer, NEW more, Forward(more), fewer \subseteq more
  PROVE  \A s \in Seqs : ChainTo(fewer, s) \subseteq ChainTo(more, s)
<1> DEFINE bad == {s \in Seqs : ~ (ChainTo(fewer, s) \subseteq ChainTo(more, s))}
<1>1. Forward(fewer)
  BY DEF Forward
<1>2. bad = {}
  <2> SUFFICES ASSUME bad # {} PROVE FALSE
    OBVIOUS
  <2>1. bad \in SUBSET (0..n)
    OBVIOUS
  <2>2. PICK s \in bad : \A y \in bad : s <= y
    <3> HIDE DEF bad
    <3> QED
      BY <2>1, LeastIs
  <2>3. ASSUME NEW e \in {d \in fewer : d[2] = s}
        PROVE  e \in {d \in more : d[2] = s} /\ ChainTo(fewer, e[1]) \subseteq ChainTo(more, e[1])
    <3>1. e[1] \in Seqs /\ e[1] < s /\ s \in Seqs
      BY <1>1 DEF Forward
    <3>2. e[1] \notin bad
      BY <2>2, <3>1
    <3> QED
      BY <3>1, <3>2
  <2>4. /\ ChainTo(fewer, s) = {s} \union UNION {ChainTo(fewer, e[1]) : e \in {d \in fewer : d[2] = s}}
        /\ ChainTo(more, s) = {s} \union UNION {ChainTo(more, e[1]) : e \in {d \in more : d[2] = s}}
    BY <1>1, ChainIs
  <2>5. ChainTo(fewer, s) \subseteq ChainTo(more, s)
    <3> HIDE DEF bad
    <3> QED
      BY <2>3, <2>4
  <2> QED
    BY <2>5
<1> QED
  BY <1>2

LEMMA ChainReaches ==
  ASSUME NEW n \in Nat, Seqs = 1..n, NEW edges, Forward(edges), NEW edge \in edges
  PROVE  ChainTo(edges, edge[1]) \subseteq ChainTo(edges, edge[2])
<1>1. edge[2] \in Seqs /\ edge \in {d \in edges : d[2] = edge[2]}
  BY DEF Forward
<1> QED
  BY <1>1, ChainIs

-----------------------------------------------------------------------------
(* What follows of the graph. *)

LEMMA SeqsAre ==
  ASSUME GraphTypes
  PROVE  Len(written) \in Nat /\ Seqs = 1..Len(written) /\ Len(calls) \in Nat /\ Called = DOMAIN calls
BY DEF GraphTypes, Seqs, Called

LEMMA GraphForward ==
  ASSUME GraphTypes
  PROVE  /\ Forward(RecordedEdges(Seqs)) /\ Forward(RunGraph(Seqs))
         /\ RecordedEdges(Seqs) \subseteq RunGraph(Seqs)
<1>1. /\ Len(written) \in Nat /\ Seqs = 1..Len(written)
      /\ \A s \in Seqs : written[s].causes \subseteq 1..(s - 1)
  BY SeqsAre DEF GraphTypes
<1>2. Forward(RecordedEdges(Seqs))
  BY <1>1 DEF Forward, RecordedEdges
<1>3. \A s : SoleMatchingCall(Seqs, s) \subseteq {r \in Seqs : r < s}
  BY DEF SoleMatchingCall, WithinReach
<1>4. Forward(InferredEdges(Seqs))
  BY <1>3 DEF Forward, InferredEdges
<1> QED
  BY <1>2, <1>4 DEF Forward, RunGraph

\* No later event withdraws an edge: both kinds of edges look backward alone.
LEMMA EdgesDoStand ==
  ASSUME GraphTypes
  PROVE  EdgesStand
<1>1. /\ Len(written) \in Nat /\ Seqs = 1..Len(written)
      /\ \A s \in Seqs : written[s].causes \subseteq 1..(s - 1)
  BY SeqsAre DEF GraphTypes
<1> SUFFICES ASSUME NEW n \in 0..Len(written)
             PROVE  RunGraph(ReadUpTo(n)) = {edge \in RunGraph(Seqs) : edge[2] <= n}
  BY DEF EdgesStand
<1>2. /\ 1..n \subseteq Seqs /\ \A s \in Seqs : s \in 1..n <=> s <= n
      /\ \A s \in Seqs : \A r \in Seqs : r < s /\ s <= n => r <= n
  BY <1>1
<1>3. RecordedEdges(1..n) = {edge \in RecordedEdges(Seqs) : edge[2] <= n}
  <2>1. \A edge \in RecordedEdges(Seqs) : edge[1] < edge[2] /\ edge[1] \in Seqs /\ edge[2] \in Seqs
    BY <1>1 DEF RecordedEdges
  <2>2. \A edge : edge \in RecordedEdges(1..n) => edge \in RecordedEdges(Seqs) /\ edge[2] <= n
    BY <1>2 DEF RecordedEdges
  <2>3. \A edge : edge \in RecordedEdges(Seqs) /\ edge[2] <= n => edge \in RecordedEdges(1..n)
    BY <1>2, <2>1 DEF RecordedEdges
  <2> QED
    BY <2>2, <2>3
<1>4. ASSUME NEW e \in Seqs, e <= n PROVE SoleMatchingCall(1..n, e) = SoleMatchingCall(Seqs, e)
  <2>1. \A s \in Seqs : WithinReach(s, e) => s \in 1..n
    BY <1>2, <1>4 DEF WithinReach
  <2>2. {s \in 1..n : written[s].type = "tool.call" /\ WithinReach(s, e)} =
        {s \in Seqs : written[s].type = "tool.call" /\ WithinReach(s, e)}
    BY <1>2, <2>1
  <2> QED
    BY <2>2 DEF SoleMatchingCall
<1>5. InferredEdges(1..n) = {edge \in InferredEdges(Seqs) : edge[2] <= n}
  <2>1. \A s : SoleMatchingCall(Seqs, s) \subseteq {r \in Seqs : r < s}
    BY DEF SoleMatchingCall, WithinReach
  <2>2. \A edge : edge \in InferredEdges(1..n) => edge \in InferredEdges(Seqs) /\ edge[2] <= n
    BY <1>2, <1>4 DEF InferredEdges
  <2>3. \A edge : edge \in InferredEdges(Seqs) /\ edge[2] <= n => edge \in InferredEdges(1..n)
    BY <1>2, <1>4, <2>1 DEF InferredEdges
  <2> QED
    BY <2>2, <2>3
<1> QED
  BY <1>3, <1>5 DEF RunGraph, ReadUpTo

\* The call that did it is the only candidate, so the graph has the edge.
LEMMA EffectsDoTrace ==
  ASSUME GraphTypes, CallBooks, EffectBooks
  PROVE  EffectsAreTraced
<1>1. Len(written) \in Nat /\ Seqs = 1..Len(written)
  BY SeqsAre
<1>2. Forward(RunGraph(Seqs)) /\ RecordedEdges(Seqs) \subseteq RunGraph(Seqs)
  BY GraphForward
<1> SUFFICES ASSUME lost = 0, NEW e \in Effects,
                    calls[written[e].of].seq # 0, ~ calls[written[e].of].early,
                    {s \in 1..(e - 1) :
                       /\ written[s].type = "tool.call" /\ s # calls[written[e].of].seq
                       /\ written[s].what = written[e].what
                       /\ written[s].turn + TurnReach >= written[e].turn} = {}
             PROVE  CausalChain(Seqs, calls[written[e].of].seq) \subseteq ChainTo(RunGraph(Seqs), e)
  BY DEF EffectsAreTraced
<1>3. PICK c : c = written[e].of
  OBVIOUS
<1>4. PICK a : a = calls[c].seq
  OBVIOUS
<1>5. /\ c \in Called /\ written[e].what = calls[c].what /\ e \in Seqs
      /\ InTurn(c, written[e].turn) /\ a < e
  BY <1>3, <1>4 DEF EffectBooks, Ran, Effects
<1>6. a \in Seqs /\ written[a].type = "tool.call" /\ written[a].what = calls[c].what
      /\ written[a].turn = calls[c].turn
  BY <1>3, <1>4, <1>5 DEF CallBooks, IsCall
<1>7. calls[c].turn \in Nat /\ written[e].turn \in Nat /\ TurnReach = 1
      /\ \A s \in Seqs : written[s].turn \in Nat
  <2>1. calls \in Seq(CallSet) /\ written \in Seq(EntrySet) /\ c \in DOMAIN calls
    BY <1>5, SeqsAre DEF GraphTypes
  <2>2. calls[c] \in CallSet /\ \A s \in Seqs : written[s] \in EntrySet
    BY <1>1, <2>1
  <2> QED
    BY <1>5, <2>2 DEF CallSet, EntrySet, TurnReach
<1>8. calls[c].turn <= written[e].turn /\ written[e].turn <= calls[c].turn + 1
  BY <1>3, <1>5, <1>7 DEF InTurn
<1>9. WithinReach(a, e)
  BY <1>1, <1>5, <1>6, <1>7, <1>8 DEF WithinReach
<1>10. ASSUME NEW s \in Seqs, written[s].type = "tool.call", WithinReach(s, e) PROVE s = a
  <2>1. s \in 1..(e - 1) /\ written[s].what = written[e].what
    BY <1>1, <1>5, <1>10 DEF WithinReach
  <2>2. written[s].turn + TurnReach >= written[e].turn
    BY <1>5, <1>7, <1>10 DEF WithinReach
  <2> QED
    BY <1>3, <1>4, <1>10, <2>1, <2>2
<1>11. {s \in Seqs : written[s].type = "tool.call" /\ WithinReach(s, e)} = {a}
  BY <1>6, <1>9, <1>10
<1>12. SoleMatchingCall(Seqs, e) = {a}
  <2>1. {s \in {a} : \A r \in {a} : written[r].turn <= written[s].turn} = {a}
    BY <1>6, <1>7
  <2>2. Cardinality({a}) = 1
    BY FS_Singleton
  <2> QED
    BY <1>11, <2>1, <2>2 DEF SoleMatchingCall
<1>13. <<a, e>> \in RunGraph(Seqs)
  BY <1>5, <1>6, <1>12 DEF RunGraph, InferredEdges
<1>14. ChainTo(RunGraph(Seqs), a) \subseteq ChainTo(RunGraph(Seqs), e)
  <2>1. PICK edge \in RunGraph(Seqs) : edge[1] = a /\ edge[2] = e
    BY <1>13
  <2>2. ChainTo(RunGraph(Seqs), edge[1]) \subseteq ChainTo(RunGraph(Seqs), edge[2])
    BY <1>1, <1>2, <2>1, ChainReaches
  <2> QED
    BY <2>1, <2>2
<1>15. ChainTo(RecordedEdges(Seqs), a) \subseteq ChainTo(RunGraph(Seqs), a)
  BY <1>1, <1>2, <1>6, ChainGrows
<1> QED
  BY <1>3, <1>4, <1>14, <1>15 DEF CausalChain

-----------------------------------------------------------------------------
(* What a step leaves of the books.  Steps that write nothing come first. *)

LEMMA Members ==
  ASSUME GraphTypes
  PROVE  /\ Len(talks) \in Nat /\ Len(calls) \in Nat /\ Len(ended) \in Nat
         /\ Len(written) \in Nat /\ Len(frames) \in Nat
         /\ Seqs = 1..Len(written) /\ Called = DOMAIN calls
         /\ \A i \in 1..Len(talks) : talks[i] \in TalkSet
         /\ \A c \in Called : calls[c] \in CallSet
         /\ \A q \in 1..Len(ended) : ended[q] \in EndedSet
         /\ \A s \in Seqs : written[s] \in EntrySet
         /\ \A i \in 1..Len(frames) : frames[i] \in FrameSet
BY DEF GraphTypes, Seqs, Called

LEMMA GraphInitBooks == GraphInit => GraphBooks
<1> SUFFICES ASSUME GraphInit PROVE GraphBooks
  OBVIOUS
<1>1. /\ talks = <<Talk(0)>> /\ calls = << >> /\ ended = << >> /\ written = << >>
      /\ turnNow = 0 /\ looking = FALSE /\ dirty = [p \in Changed |-> 0] /\ frames = << >> /\ lost = 0
  BY DEF GraphInit
<1>2. /\ Talk(0) \in TalkSet /\ Talk(0).by = 0 /\ Talk(0).open = {} /\ Talk(0).done = {}
      /\ IsFiniteSet({})
  BY FS_EmptySet DEF Talk, TalkSet
<1> HIDE DEF Talk
<1>3. /\ talks \in Seq(TalkSet) /\ Len(talks) = 1 /\ talks[1] = Talk(0)
      /\ \A i : i \in 1..Len(talks) <=> i = 1
  BY <1>1, <1>2
<1>4. /\ Len(calls) = 0 /\ Len(ended) = 0 /\ Len(frames) = 0 /\ Seqs = {} /\ Called = {}
      /\ (\A q : q \notin 1..Len(ended)) /\ (\A q : q \notin 1..Len(frames))
  BY <1>1 DEF Seqs, Called
<1>5. GraphTypes
  <2>1. /\ calls \in Seq(CallSet) /\ ended \in Seq(EndedSet) /\ written \in Seq(EntrySet)
        /\ frames \in Seq(FrameSet) /\ dirty \in [Changed -> Nat]
    BY <1>1
  <2> QED
    BY <1>1, <1>2, <1>3, <1>4, <2>1 DEF GraphTypes
<1>6. Stack
  <2>1. \A i : i \notin 2..Len(talks)
    BY <1>3
  <2> QED
    BY <1>2, <1>3, <2>1 DEF Stack
<1>7. CallBooks
  BY <1>4 DEF CallBooks
<1>8. EffectBooks
  <2>1. \A p \in Changed : dirty[p] = 0
    BY <1>1
  <2> QED
    BY <1>2, <1>3, <1>4, <2>1 DEF EffectBooks, Effects
<1>9. DelegateBooks
  BY <1>2, <1>3, <1>4 DEF DelegateBooks
<1>10. NamesTheDelegate
  BY <1>4 DEF NamesTheDelegate
<1> QED
  BY <1>5, <1>6, <1>7, <1>8, <1>9, <1>10 DEF GraphBooks

-----------------------------------------------------------------------------
(* What the recorder derives of an exchange, and a task that writes it. *)

LEMMA ListIs ==
  ASSUME NEW S, NEW n \in Nat, NEW f \in [1..n -> S]
  PROVE  f \in Seq(S) /\ Len(f) = n
OBVIOUS

\* A length that is known by its value stays out of the first of these.
LEMMA ConcatIs ==
  ASSUME NEW S, NEW a \in Seq(S), NEW b \in Seq(S)
  PROVE  /\ a \o b \in Seq(S) /\ Len(a \o b) = Len(a) + Len(b)
         /\ Len(a) \in Nat /\ Len(b) \in Nat
         /\ (\A i \in 1..Len(a) : (a \o b)[i] = a[i])
         /\ (\A j \in 1..Len(b) : (a \o b)[Len(a) + j] = b[j])
OBVIOUS

LEMMA ThreeAre ==
  ASSUME NEW S, NEW a \in Seq(S), NEW b \in Seq(S), NEW c \in Seq(S)
  PROVE  /\ a \o b \o c \in Seq(S) /\ Len(a \o b \o c) = Len(a) + Len(b) + Len(c)
         /\ (\A i \in 1..Len(a) : (a \o b \o c)[i] = a[i])
         /\ (\A j \in 1..Len(b) : (a \o b \o c)[Len(a) + j] = b[j])
         /\ (\A j \in 1..Len(c) : (a \o b \o c)[Len(a) + Len(b) + j] = c[j])
<1>1. a \o b \in Seq(S) /\ Len(a \o b) = Len(a) + Len(b)
  OBVIOUS
<1>2. \A i \in 1..Len(a) : (a \o b)[i] = a[i]
  OBVIOUS
<1>3. \A j \in 1..Len(b) : (a \o b)[Len(a) + j] = b[j]
  OBVIOUS
<1>4. PICK d : d = a \o b
  OBVIOUS
<1>5. d \in Seq(S)
  BY ONLY <1>1, <1>4
<1>6. d \o c \in Seq(S) /\ Len(d \o c) = Len(d) + Len(c)
  BY <1>5
<1>7. \A i \in 1..Len(d) : (d \o c)[i] = d[i]
  BY <1>5
<1>8. \A j \in 1..Len(c) : (d \o c)[Len(d) + j] = c[j]
  BY <1>5
<1>9. Len(a) \in Nat /\ Len(b) \in Nat /\ Len(d) = Len(a) + Len(b)
  BY <1>1, <1>4
<1>10. /\ \A i \in 1..Len(a) : i \in 1..Len(d)
       /\ \A j \in 1..Len(b) : Len(a) + j \in 1..Len(d)
  BY <1>9
<1>11. \A i \in 1..Len(a) : (d \o c)[i] = a[i]
  BY ONLY <1>2, <1>4, <1>7, <1>10, Zenon
<1>12. \A j \in 1..Len(b) : (d \o c)[Len(a) + j] = b[j]
  BY ONLY <1>3, <1>4, <1>7, <1>10, Zenon
<1> QED
  BY <1>4, <1>6, <1>8, <1>9, <1>11, <1>12

News(x) == Ascending(x.brings)
ResultOf(x, t, i) == Entry("tool.result", t, {calls[x.carries[i]].seq} \ {0}, "", x.carries[i])
CallOf(x, t, j) ==
  Entry("tool.call", t, {Len(written) + Len(x.carries) + 2}, calls[News(x)[j]].what, News(x)[j])
DerivedSize(x) == Len(x.carries) + 2 + Cardinality(x.brings)

LEMMA NewsAre ==
  ASSUME NEW x \in EndedSet, IsFiniteSet(x.brings)
  PROVE  /\ Len(x.carries) \in Nat /\ Cardinality(x.brings) \in Nat /\ Len(News(x)) = Cardinality(x.brings)
         /\ \A j \in 1..Cardinality(x.brings) : News(x)[j] \in x.brings
         /\ \A c \in x.brings : \E j \in 1..Cardinality(x.brings) : News(x)[j] = c
         /\ \A i, j \in 1..Cardinality(x.brings) : i < j => News(x)[i] < News(x)[j]
<1>1. x.brings \in SUBSET Nat /\ x.carries \in Seq(Nat)
  BY DEF EndedSet
<1>2. Len(x.carries) \in Nat
  BY <1>1, LenProperties
<1> QED
  BY <1>1, <1>2, AscendingIs DEF News

LEMMA DerivedIs ==
  ASSUME GraphTypes, NEW x \in EndedSet, IsFiniteSet(x.brings),
         x.brings \subseteq Called, Carries(x) \subseteq Called, NEW t \in Nat
  PROVE  /\ Derived(x, t) \in Seq(EntrySet) /\ Len(Derived(x, t)) = DerivedSize(x)
         /\ \A i \in 1..Len(x.carries) : Derived(x, t)[i] = ResultOf(x, t, i)
         /\ Derived(x, t)[Len(x.carries) + 1] =
              Entry("model.request", t, (Len(written) + 1)..(Len(written) + Len(x.carries)), "", <<t, x.by>>)
         /\ Derived(x, t)[Len(x.carries) + 2] =
              Entry("model.response", t, {Len(written) + Len(x.carries) + 1}, "", <<t, x.by>>)
         /\ \A j \in 1..Cardinality(x.brings) : Derived(x, t)[Len(x.carries) + 2 + j] = CallOf(x, t, j)
<1>0. PICK k, m, w : k = Len(x.carries) /\ m = Cardinality(x.brings) /\ w = Len(written)
  OBVIOUS
<1>1. /\ k \in Nat /\ m \in Nat /\ w \in Nat /\ Len(News(x)) = m /\ x.by \in Nat
      /\ \A j \in 1..m : News(x)[j] \in Called
      /\ \A i \in 1..k : x.carries[i] \in Called
      /\ \A c \in Called : c \in Nat /\ calls[c].seq \in Nat /\ calls[c].what \in Whats
  <2>1. \A c \in Called : c \in Nat /\ calls[c] \in CallSet
    BY Members DEF Called
  <2>2. \A c \in Called : calls[c].seq \in Nat /\ calls[c].what \in Whats
    BY <2>1 DEF CallSet
  <2>3. \A i \in 1..k : x.carries[i] \in Called
    BY <1>0 DEF Carries
  <2> QED
    BY <1>0, <2>1, <2>2, <2>3, NewsAre, Members DEF EndedSet
<1> DEFINE A == [i \in 1..k |-> ResultOf(x, t, i)]
           asks == Entry("model.request", t, (w + 1)..(w + k), "", <<t, x.by>>)
           replies == Entry("model.response", t, {w + k + 1}, "", <<t, x.by>>)
           B == <<asks, replies>>
           C == [j \in 1..m |-> CallOf(x, t, j)]
<1>2. Derived(x, t) = A \o B \o C
  BY <1>0, <1>1 DEF Derived, ResultOf, CallOf, News
<1>3. A \in Seq(EntrySet) /\ Len(A) = k
  <2>1. ASSUME NEW i \in 1..k PROVE ResultOf(x, t, i) \in EntrySet
    <3>1. calls[x.carries[i]].seq \in Nat /\ x.carries[i] \in Nat
      BY <1>1
    <3> QED
      BY <3>1 DEF ResultOf, Entry, EntrySet, Types
  <2>2. A \in [1..k -> EntrySet]
    BY <2>1
  <2> HIDE DEF A
  <2> QED
    BY <1>1, <2>2, ListIs
<1>4. C \in Seq(EntrySet) /\ Len(C) = m
  <2>1. ASSUME NEW j \in 1..m PROVE CallOf(x, t, j) \in EntrySet
    <3>1. calls[News(x)[j]].what \in Whats /\ News(x)[j] \in Nat /\ w + k + 2 \in Nat
      BY <1>1
    <3> QED
      BY <1>0, <3>1 DEF CallOf, Entry, EntrySet, Types
  <2>2. C \in [1..m -> EntrySet]
    BY <2>1
  <2> HIDE DEF C
  <2> QED
    BY <1>1, <2>2, ListIs
<1>5. B \in Seq(EntrySet) /\ Len(B) = 2 /\ B[1] = asks /\ B[2] = replies
  <2>1. <<t, x.by>> \in Nat \X Nat /\ (w + 1)..(w + k) \in SUBSET Nat /\ {w + k + 1} \in SUBSET Nat
    BY <1>1
  <2>2. asks \in EntrySet /\ replies \in EntrySet
    <3> HIDE DEF B
    <3> QED
      BY <2>1 DEF Entry, EntrySet, Types
  <2> HIDE DEF asks, replies
  <2> QED
    BY <2>2
<1>6. \A i \in 1..k : A[i] = ResultOf(x, t, i)
  OBVIOUS
<1>7. \A j \in 1..m : C[j] = CallOf(x, t, j)
  OBVIOUS
<1> HIDE DEF A, B, C, asks, replies
<1>8. /\ A \o B \o C \in Seq(EntrySet) /\ Len(A \o B \o C) = k + 2 + m
      /\ \A i \in 1..k : (A \o B \o C)[i] = A[i]
      /\ (A \o B \o C)[k + 1] = B[1] /\ (A \o B \o C)[k + 2] = B[2]
      /\ \A j \in 1..m : (A \o B \o C)[k + 2 + j] = C[j]
  <2>0. A \in Seq(EntrySet) /\ B \in Seq(EntrySet) /\ C \in Seq(EntrySet)
    BY <1>3, <1>4, <1>5
  <2>1. A \o B \o C \in Seq(EntrySet) /\ Len(A \o B \o C) = Len(A) + Len(B) + Len(C)
    BY ONLY <2>0, ThreeAre
  <2>2. \A i \in 1..Len(A) : (A \o B \o C)[i] = A[i]
    BY ONLY <2>0, ThreeAre
  <2>3. \A j \in 1..Len(B) : (A \o B \o C)[Len(A) + j] = B[j]
    BY ONLY <2>0, ThreeAre
  <2>4. \A j \in 1..Len(C) : (A \o B \o C)[Len(A) + Len(B) + j] = C[j]
    BY ONLY <2>0, ThreeAre
  <2>5. PICK D : D = A \o B \o C
    OBVIOUS
  <2>6. /\ D \in Seq(EntrySet) /\ Len(D) = k + 2 + m /\ \A i \in 1..k : D[i] = A[i]
        /\ \A j \in 1..2 : D[k + j] = B[j]
        /\ \A j \in 1..m : D[k + 2 + j] = C[j]
    BY ONLY <1>3, <1>4, <1>5, <2>1, <2>2, <2>3, <2>4, <2>5
  <2>7. D[k + 1] = B[1] /\ D[k + 2] = B[2]
    BY <2>6
  <2> QED
    BY ONLY <2>5, <2>6, <2>7, Zenon
<1>9. Derived(x, t) \in Seq(EntrySet) /\ Len(Derived(x, t)) = k + 2 + m
  BY <1>2, <1>8
<1>10. \A i \in 1..k : Derived(x, t)[i] = ResultOf(x, t, i)
  BY <1>2, <1>6, <1>8
<1>11. Derived(x, t)[k + 1] = asks /\ Derived(x, t)[k + 2] = replies
  BY <1>2, <1>5, <1>8
<1>12. \A j \in 1..m : Derived(x, t)[k + 2 + j] = CallOf(x, t, j)
  BY <1>2, <1>7, <1>8
<1> QED
  BY <1>0, <1>9, <1>10, <1>11, <1>12 DEF DerivedSize, asks, replies

-----------------------------------------------------------------------------
(* What a step leaves of the books: those of the harness. *)

LEMMA GraphStutters ==
  ASSUME GraphBooks, UNCHANGED graphVars
  PROVE  GraphBooks'
<1>1. GraphTypes'
  <2>1. UNCHANGED <<talks, calls, ended, written, turnNow, looking, dirty, frames, lost>>
    BY DEF graphVars
  <2>2. /\ Called' = Called /\ Seqs' = Seqs /\ (\A c : IsDelegate(c)' <=> IsDelegate(c))
        /\ \A q : Carries(ended[q])' = Carries(ended[q])
    BY <2>1 DEF Called, Seqs, IsDelegate, Carries
  <2> QED
    BY <2>1, <2>2 DEF GraphBooks, GraphTypes
<1>2. Stack' /\ CallBooks'
  BY DEF GraphBooks, graphVars, Stack, CallBooks, Called, IsDelegate, Seqs, IsCall
<1>3. EffectBooks'
  BY DEF GraphBooks, graphVars, EffectBooks, IsDelegate, Seqs, Ran, InTurn, Effects, Called
<1>4. DelegateBooks'
  <2>1. UNCHANGED <<talks, calls, ended, written, lost>> /\ Called' = Called /\ Seqs' = Seqs
    BY DEF graphVars, Called, Seqs
  <2>2. \A c : IsDelegate(c)' <=> IsDelegate(c)
    BY <2>1 DEF IsDelegate
  <2>3. \A q : /\ ReturnedAt(q)' = ReturnedAt(q) /\ KnownAt(q)' = KnownAt(q) /\ OpenAt(q)' = OpenAt(q)
               /\ Carries(ended[q])' = Carries(ended[q])
    BY <2>1, <2>2 DEF ReturnedAt, Results, KnownAt, OpenAt, Carries, Seqs, Called, IsDelegate
  <2> QED
    BY <2>1, <2>2, <2>3 DEF GraphBooks, DelegateBooks
<1>5. NamesTheDelegate'
  BY DEF GraphBooks, graphVars, NamesTheDelegate, EnclosingDelegation, Delegations, StillOpen, Seqs
<1> QED
  BY <1>1, <1>2, <1>3, <1>4, <1>5 DEF GraphBooks

\* A step that writes nothing leaves what is read of the trace and of the calls' seqs.
LEMMA NamesStay ==
  ASSUME NamesTheDelegate, DelegateBooks, UNCHANGED <<written, lost>>,
         \A c \in Called : calls'[c].seq = calls[c].seq
  PROVE  NamesTheDelegate'
<1>1. \A s : EnclosingDelegation(s)' = EnclosingDelegation(s)
  BY DEF EnclosingDelegation, Delegations, StillOpen, Seqs
<1>2. Seqs' = Seqs
  BY DEF Seqs
<1> SUFFICES ASSUME lost = 0, NEW s \in Seqs, written[s].type = "model.request"
             PROVE  EnclosingDelegation(s) = IF written[s].of[2] = 0 THEN 0 ELSE calls'[written[s].of[2]].seq
  BY <1>1, <1>2 DEF NamesTheDelegate
<1>3. written[s].of[2] # 0 => written[s].of[2] \in Called
  BY DEF DelegateBooks
<1> QED
  BY <1>3 DEF NamesTheDelegate

LEMMA DelegatesIs ==
  ASSUME GraphTypes, Stack, NEW c, c \in DOMAIN calls, Delegates(c)
  PROVE  /\ Len(talks) \in Nat \ {0} /\ c \in Called /\ IsDelegate(c)
         /\ talks[Len(talks)].open = {c}
         /\ Len(talks') = Len(talks) + 1 /\ talks' \in Seq(TalkSet)
         /\ \A i \in 1..Len(talks) : talks'[i] = talks[i]
         /\ talks'[Len(talks) + 1].by = c
         /\ talks'[Len(talks) + 1].open = {} /\ talks'[Len(talks) + 1].done = {}
         /\ UNCHANGED <<calls, ended, written, turnNow, looking, dirty, frames, lost>>
         /\ Called' = Called /\ Seqs' = Seqs /\ Effects' = Effects
         /\ \A x : IsDelegate(x)' <=> IsDelegate(x)
<1>1. /\ talks # << >> /\ talks[Len(talks)].open = {c} /\ IsDelegate(c) /\ talks' = Append(talks, Talk(c))
      /\ UNCHANGED <<calls, ended, written, turnNow, looking, dirty, frames, lost>>
  BY DEF Delegates, Last, IsDelegate
<1>2. talks \in Seq(TalkSet) /\ c \in Nat /\ c \in Called
  BY Members DEF GraphTypes, Called
<1>3. Talk(c) \in TalkSet /\ Talk(c).by = c /\ Talk(c).open = {} /\ Talk(c).done = {}
  BY <1>2 DEF Talk, TalkSet
<1> HIDE DEF Talk
<1>4. /\ Len(talks) \in Nat \ {0} /\ Len(talks') = Len(talks) + 1 /\ talks' \in Seq(TalkSet)
      /\ (\A i \in 1..Len(talks) : talks'[i] = talks[i]) /\ talks'[Len(talks) + 1] = Talk(c)
  BY <1>1, <1>2, <1>3
<1>5. Called' = Called /\ Seqs' = Seqs /\ Effects' = Effects /\ \A x : IsDelegate(x)' <=> IsDelegate(x)
  BY <1>1 DEF Called, Seqs, Effects, IsDelegate
<1> QED
  BY <1>1, <1>2, <1>3, <1>4, <1>5

LEMMA DelegatesBooks ==
  ASSUME GraphBooks, NEW c, c \in DOMAIN calls, Delegates(c)
  PROVE  GraphBooks'
<1>1. PICK n : n = Len(talks)
  OBVIOUS
<1>2. /\ n \in Nat \ {0} /\ c \in Called /\ IsDelegate(c) /\ talks[n].open = {c}
      /\ Len(talks') = n + 1 /\ talks' \in Seq(TalkSet)
      /\ \A i \in 1..n : talks'[i] = talks[i]
      /\ talks'[n + 1].by = c /\ talks'[n + 1].open = {} /\ talks'[n + 1].done = {}
      /\ UNCHANGED <<calls, ended, written, turnNow, looking, dirty, frames, lost>>
      /\ Called' = Called /\ Seqs' = Seqs /\ Effects' = Effects
      /\ \A x : IsDelegate(x)' <=> IsDelegate(x)
  BY <1>1, DelegatesIs DEF GraphBooks
<1>3. \A i \in 1..Len(talks') : i \in 1..n \/ i = n + 1
  BY <1>2
<1>4. GraphTypes'
  <2>1. \A i \in 1..Len(talks') :
           /\ IsFiniteSet(talks'[i].open) /\ IsFiniteSet(talks'[i].done)
           /\ talks'[i].open \subseteq Called /\ talks'[i].done \subseteq Called
    BY <1>1, <1>2, <1>3, FS_EmptySet DEF GraphBooks, GraphTypes
  <2>2. \A q : Carries(ended[q])' = Carries(ended[q])
    BY <1>2 DEF Carries
  <2> QED
    BY <1>2, <2>1, <2>2 DEF GraphBooks, GraphTypes, Carries
<1>5. Stack'
  <2>1. talks' # << >> => talks'[1].by = 0
    BY <1>1, <1>2 DEF GraphBooks, Stack
  <2>2. ASSUME NEW i \in 2..Len(talks')
        PROVE  talks'[i].by \in Called /\ IsDelegate(talks'[i].by) /\ talks'[i - 1].open = {talks'[i].by}
    <3>1. CASE i = n + 1
      <4>1. i - 1 = n /\ n \in 1..n
        BY <1>2, <3>1
      <4> QED
        BY <1>2, <3>1, <4>1
    <3>2. CASE i # n + 1
      <4>1. i \in 2..n /\ i \in 1..n /\ i - 1 \in 1..n
        BY <1>2, <3>2
      <4> QED
        BY <1>1, <1>2, <4>1 DEF GraphBooks, Stack
    <3> QED
      BY <3>1, <3>2
  <2>3. \A i \in 1..n : talks[i].by < c
    <3>1. talks[n].by < c /\ talks[n].by \in Nat
      BY <1>1, <1>2, Members DEF GraphBooks, Stack, TalkSet
    <3>2. \A i \in 1..n : talks[i].by \in Nat
      BY <1>1, Members DEF GraphBooks, TalkSet
    <3>3. \A i \in 1..n : i < n => talks[i].by < talks[n].by
      BY <1>1, <1>2 DEF GraphBooks, Stack
    <3>4. c \in Nat
      BY <1>2, Members DEF GraphBooks, Called
    <3> QED
      BY <1>2, <3>1, <3>2, <3>3, <3>4
  <2>4. \A i, j \in 1..Len(talks') : j < i => talks'[j].by < talks'[i].by
    <3>1. \A i, j \in 1..n : j < i => talks[j].by < talks[i].by
      BY <1>1 DEF GraphBooks, Stack
    <3> QED
      BY <1>2, <2>3, <3>1
  <2>5. \A i \in 1..Len(talks') : \A x \in talks'[i].open \union talks'[i].done : talks'[i].by < x
    BY <1>1, <1>2, <1>3 DEF GraphBooks, Stack
  <2>6. \A i \in 1..Len(talks') : \A x \in talks'[i].done : ~ IsDelegate(x)
    BY <1>1, <1>2, <1>3 DEF GraphBooks, Stack
  <2> QED
    BY <1>2, <2>1, <2>2, <2>4, <2>5, <2>6 DEF Stack
<1>6. CallBooks'
  BY <1>2 DEF GraphBooks, CallBooks, IsCall
<1>7. EffectBooks'
  <2>1. ASSUME NEW x, Ran(x) PROVE Ran(x)'
    BY <1>1, <1>2, <1>3, <2>1 DEF Ran
  <2>2. \A x, t : InTurn(x, t)' <=> InTurn(x, t)
    BY <1>2 DEF InTurn
  <2> QED
    BY <1>2, <2>1, <2>2 DEF GraphBooks, EffectBooks
<1>8. DelegateBooks'
  <2>1. /\ \A q : ReturnedAt(q)' = ReturnedAt(q) /\ KnownAt(q)' = KnownAt(q) /\ OpenAt(q)' = OpenAt(q)
        /\ \A q : Carries(ended[q])' = Carries(ended[q])
    BY <1>2 DEF ReturnedAt, Results, KnownAt, OpenAt, Carries, Seqs, Called, IsDelegate
  <2> QED
    BY <1>1, <1>2, <1>3, <2>1 DEF GraphBooks, DelegateBooks
<1>9. NamesTheDelegate'
  BY <1>2, NamesStay DEF GraphBooks
<1> QED
  BY <1>4, <1>5, <1>6, <1>7, <1>8, <1>9 DEF GraphBooks

LEMMA RunsIs ==
  ASSUME GraphTypes, Stack, NEW c, c \in DOMAIN calls, Runs(c)
  PROVE  /\ Len(talks) \in Nat \ {0} /\ c \in Called /\ ~ IsDelegate(c) /\ c \in talks[Len(talks)].open
         /\ Len(talks') = Len(talks) /\ talks' \in Seq(TalkSet)
         /\ \A i \in 1..Len(talks) : i # Len(talks) => talks'[i] = talks[i]
         /\ talks'[Len(talks)].by = talks[Len(talks)].by
         /\ talks'[Len(talks)].open = talks[Len(talks)].open \ {c}
         /\ talks'[Len(talks)].done = talks[Len(talks)].done \union {c}
<1>1. /\ talks # << >> /\ c \in talks[Len(talks)].open /\ ~ IsDelegate(c)
      /\ talks' = Append(SubSeq(talks, 1, Len(talks) - 1),
                         [talks[Len(talks)] EXCEPT !.open = @ \ {c}, !.done = @ \union {c}])
  BY DEF Runs, Last, Rest, IsDelegate
<1>2. PICK n : n = Len(talks)
  OBVIOUS
<1>3. talks \in Seq(TalkSet) /\ c \in Nat /\ c \in Called /\ n \in Nat \ {0} /\ talks[n] \in TalkSet
  BY <1>1, <1>2, Members DEF GraphTypes, Called
<1>4. PICK t : t = [talks[n] EXCEPT !.open = @ \ {c}, !.done = @ \union {c}]
  OBVIOUS
<1>5. t \in TalkSet /\ t.by = talks[n].by /\ t.open = talks[n].open \ {c} /\ t.done = talks[n].done \union {c}
  BY <1>3, <1>4 DEF TalkSet
<1>6. PICK r : r = SubSeq(talks, 1, n - 1)
  OBVIOUS
<1>7. r \in Seq(TalkSet) /\ Len(r) = n - 1 /\ \A i \in 1..(n - 1) : r[i] = talks[i]
  BY <1>2, <1>3, <1>6
<1>8. talks' = Append(r, t)
  BY <1>1, <1>2, <1>4, <1>6
<1>9. talks' \in Seq(TalkSet) /\ Len(talks') = n /\ talks'[n] = t /\ \A i \in 1..(n - 1) : talks'[i] = talks[i]
  BY <1>3, <1>5, <1>7, <1>8
<1>10. \A i \in 1..n : i # n => i \in 1..(n - 1)
  BY <1>3
<1> QED
  BY <1>1, <1>2, <1>3, <1>5, <1>9, <1>10

LEMMA RunsLeaves ==
  ASSUME GraphTypes, NEW c, c \in DOMAIN calls, Runs(c)
  PROVE  /\ calls' \in Seq(CallSet) /\ Len(calls') = Len(calls) /\ Called' = Called
         /\ \A x \in Called : /\ calls'[x].does = calls[x].does /\ calls'[x].what = calls[x].what
                              /\ calls'[x].seq = calls[x].seq /\ calls'[x].turn = calls[x].turn
                              /\ x # c => calls'[x].early = calls[x].early
         /\ calls'[c].early = (calls[c].seq = 0)
         /\ dirty' \in [Changed -> Nat]
         /\ \A p \in Changed : dirty'[p] = dirty[p] \/ (dirty'[p] = c /\ calls[c].what = p)
         /\ frames' \in Seq(FrameSet)
         /\ \A i \in 1..Len(frames') :
              \/ i \in 1..Len(frames) /\ frames'[i] = frames[i]
              \/ frames'[i].call = c /\ frames'[i].what = calls[c].what /\ frames'[i].at = turnNow
         /\ UNCHANGED <<ended, written, turnNow, looking, lost>> /\ Seqs' = Seqs /\ Effects' = Effects
<1>1. /\ calls' = [calls EXCEPT ![c].early = (calls[c].seq = 0)]
      /\ dirty' = IF calls[c].does = "edit" THEN [dirty EXCEPT ![calls[c].what] = c] ELSE dirty
      /\ frames' = IF calls[c].does = "run"
                   THEN Append(frames, [what |-> calls[c].what, call |-> c, at |-> turnNow]) ELSE frames
      /\ UNCHANGED <<ended, written, turnNow, looking, lost>>
  BY DEF Runs
<1>2. /\ calls \in Seq(CallSet) /\ c \in 1..Len(calls) /\ c \in Nat /\ turnNow \in Nat
      /\ dirty \in [Changed -> Nat] /\ frames \in Seq(FrameSet) /\ \A x \in Called : calls[x] \in CallSet
  BY Members DEF GraphTypes
<1>3. PICK e : e = [calls[c] EXCEPT !.early = (calls[c].seq = 0)]
  OBVIOUS
<1>4. calls[c] \in CallSet
  BY <1>2 DEF Called
<1>5. /\ e \in CallSet /\ e.early = (calls[c].seq = 0) /\ e.does = calls[c].does /\ e.what = calls[c].what
      /\ e.seq = calls[c].seq /\ e.turn = calls[c].turn
  <2>1. (calls[c].seq = 0) \in BOOLEAN
    OBVIOUS
  <2> QED
    BY <1>3, <1>4, <2>1 DEF CallSet
<1>6. calls' = [calls EXCEPT ![c] = e]
  BY <1>1, <1>2, <1>3
<1>7. /\ calls' \in Seq(CallSet) /\ Len(calls') = Len(calls) /\ calls'[c] = e
      /\ \A x \in 1..Len(calls) : x # c => calls'[x] = calls[x]
  BY <1>2, <1>5, <1>6
<1>8. dirty' \in [Changed -> Nat] /\ \A p \in Changed : dirty'[p] = dirty[p] \/ (dirty'[p] = c /\ calls[c].what = p)
  <2>1. PICK p : p = calls[c].what
    OBVIOUS
  <2>2. CASE calls[c].does = "edit"
    <3>1. dirty' = [dirty EXCEPT ![p] = c]
      BY <1>1, <2>1, <2>2
    <3> QED
      BY <1>2, <2>1, <3>1
  <2> QED
    BY <1>1, <1>2, <2>2
<1>9. PICK f : f = [what |-> calls[c].what, call |-> c, at |-> turnNow]
  OBVIOUS
<1>10. f \in FrameSet /\ f.call = c /\ f.what = calls[c].what /\ f.at = turnNow
  BY <1>2, <1>4, <1>9 DEF CallSet, FrameSet
<1>11. frames' = frames \/ frames' = Append(frames, f)
  BY <1>1, <1>9
<1>12. frames' \in Seq(FrameSet) /\ \A i \in 1..Len(frames') :
              \/ i \in 1..Len(frames) /\ frames'[i] = frames[i]
              \/ frames'[i] = f
  <2>1. CASE frames' = Append(frames, f)
    BY <1>2, <1>10, <2>1
  <2> QED
    BY <1>2, <1>11, <2>1
<1>13. Called' = Called /\ Seqs' = Seqs /\ Effects' = Effects
  BY <1>1, <1>7 DEF Called, Seqs, Effects
<1>14. \A x \in Called : /\ calls'[x].does = calls[x].does /\ calls'[x].what = calls[x].what
                         /\ calls'[x].seq = calls[x].seq /\ calls'[x].turn = calls[x].turn
                         /\ x # c => calls'[x].early = calls[x].early
  BY <1>5, <1>7 DEF Called
<1> QED
  BY <1>1, <1>5, <1>7, <1>8, <1>10, <1>12, <1>13, <1>14

LEMMA RunsBooks ==
  ASSUME GraphBooks, NEW c, c \in DOMAIN calls, Runs(c)
  PROVE  GraphBooks'
<1>1. PICK n : n = Len(talks)
  OBVIOUS
<1>2. /\ n \in Nat \ {0} /\ c \in Called /\ ~ IsDelegate(c) /\ c \in talks[n].open
      /\ Len(talks') = n /\ talks' \in Seq(TalkSet)
      /\ \A i \in 1..n : i # n => talks'[i] = talks[i]
      /\ talks'[n].by = talks[n].by
      /\ talks'[n].open = talks[n].open \ {c} /\ talks'[n].done = talks[n].done \union {c}
  BY <1>1, RunsIs DEF GraphBooks
<1>3. /\ calls' \in Seq(CallSet) /\ Len(calls') = Len(calls) /\ Called' = Called
      /\ \A x \in Called : /\ calls'[x].does = calls[x].does /\ calls'[x].what = calls[x].what
                           /\ calls'[x].seq = calls[x].seq /\ calls'[x].turn = calls[x].turn
                           /\ x # c => calls'[x].early = calls[x].early
      /\ calls'[c].early = (calls[c].seq = 0)
      /\ UNCHANGED <<ended, written, turnNow, looking, lost>> /\ Seqs' = Seqs /\ Effects' = Effects
  BY RunsLeaves DEF GraphBooks
<1>4. /\ dirty' \in [Changed -> Nat]
      /\ \A p \in Changed : dirty'[p] = dirty[p] \/ (dirty'[p] = c /\ calls[c].what = p)
      /\ frames' \in Seq(FrameSet)
      /\ \A i \in 1..Len(frames') :
           \/ i \in 1..Len(frames) /\ frames'[i] = frames[i]
           \/ frames'[i].call = c /\ frames'[i].what = calls[c].what /\ frames'[i].at = turnNow
  BY RunsLeaves DEF GraphBooks
<1>5. \A x \in Called : IsDelegate(x)' <=> IsDelegate(x)
  BY <1>3 DEF IsDelegate
<1>6. \A i \in 1..n : talks'[i].by = talks[i].by /\ talks'[i].open \subseteq talks[i].open
  BY <1>2
<1>7. \A i \in 1..n : talks'[i].open \union talks'[i].done = talks[i].open \union talks[i].done
  BY <1>2
<1>8. GraphTypes'
  <2>1. \A i \in 1..n : /\ IsFiniteSet(talks'[i].open) /\ IsFiniteSet(talks'[i].done)
                        /\ talks'[i].open \subseteq Called /\ talks'[i].done \subseteq Called
    <3>1. /\ IsFiniteSet(talks[n].open) /\ IsFiniteSet(talks[n].done)
          /\ talks[n].open \subseteq Called /\ talks[n].done \subseteq Called
      BY <1>1, <1>2 DEF GraphBooks, GraphTypes
    <3>2. IsFiniteSet(talks[n].open \ {c}) /\ IsFiniteSet(talks[n].done \union {c})
      BY <3>1, FS_RemoveElement, FS_AddElement
    <3>3. \A i \in 1..n : i # n =>
            /\ IsFiniteSet(talks[i].open) /\ IsFiniteSet(talks[i].done)
            /\ talks[i].open \subseteq Called /\ talks[i].done \subseteq Called
      BY <1>1 DEF GraphBooks, GraphTypes
    <3> QED
      BY <1>2, <3>1, <3>2, <3>3
  <2>2. \A q : Carries(ended[q])' = Carries(ended[q])
    BY <1>3 DEF Carries
  <2>3. \A x \in Called : IsDelegate(x)' <=> calls'[x].what = "subagent"
    BY <1>3, <1>5 DEF GraphBooks, GraphTypes
  <2> QED
    BY <1>2, <1>3, <1>4, <2>1, <2>2, <2>3 DEF GraphBooks, GraphTypes
<1>9. Stack'
  <2>1. talks' # << >> => talks'[1].by = 0
    BY <1>1, <1>2, <1>6 DEF GraphBooks, Stack
  <2>2. \A i \in 2..n : talks'[i].by \in Called /\ IsDelegate(talks'[i].by) /\ talks'[i - 1].open = {talks'[i].by}
    <3>1. \A i \in 2..n : i \in 1..n /\ i - 1 \in 1..n /\ i - 1 # n
      BY <1>2
    <3>2. \A i \in 2..n : talks[i].by \in Called /\ IsDelegate(talks[i].by) /\ talks[i - 1].open = {talks[i].by}
      BY <1>1 DEF GraphBooks, Stack
    <3>3. \A i \in 2..n : talks'[i].by = talks[i].by /\ talks'[i - 1].open = talks[i - 1].open
      BY <1>2, <1>6, <3>1
    <3> QED
      BY <3>2, <3>3
  <2>3. \A i, j \in 1..n : j < i => talks'[j].by < talks'[i].by
    BY <1>1, <1>6 DEF GraphBooks, Stack
  <2>4. \A i \in 1..n : \A x \in talks'[i].open \union talks'[i].done : talks'[i].by < x
    BY <1>1, <1>6, <1>7 DEF GraphBooks, Stack
  <2>5. \A i \in 1..n : \A x \in talks'[i].done : x \in Called /\ ~ IsDelegate(x)
    <3>1. \A i \in 1..n : talks[i].done \subseteq Called
      BY <1>1 DEF GraphBooks, GraphTypes
    <3>2. \A i \in 1..n : \A x \in talks[i].done : ~ IsDelegate(x)
      BY <1>1, <1>2 DEF GraphBooks, Stack
    <3>3. \A i \in 1..n : \A x \in talks'[i].done : x \in talks[i].done \/ x = c
      BY <1>2
    <3> QED
      BY <1>2, <3>1, <3>2, <3>3
  <2> QED
    BY <1>2, <1>3, <1>5, <2>1, <2>2, <2>3, <2>4, <2>5 DEF Stack
<1>10. CallBooks'
  <2>1. \A x \in Called : \A s : IsCall(s, x)' <=> IsCall(s, x)
    BY <1>3 DEF IsCall
  <2>2. \A q \in 1..Len(ended) : ended[q].brings \subseteq Called
    BY DEF GraphBooks, GraphTypes
  <2> QED
    BY <1>3, <2>1, <2>2 DEF GraphBooks, CallBooks, IsCall
<1>11. EffectBooks'
  <2>1. \A x : Ran(x) => x # c /\ Ran(x)'
    BY <1>1, <1>2, <1>3, <1>6 DEF Ran
  <2>2. Ran(c)'
    <3>1. \A i \in 1..n : i # n => c \notin talks[i].open
      <4>1. \A i \in 1..n : i # n => i + 1 \in 2..n /\ (i + 1) - 1 = i
        BY <1>2
      <4>2. \A i \in 2..n : IsDelegate(talks[i].by) /\ talks[i - 1].open = {talks[i].by}
        BY <1>1 DEF GraphBooks, Stack
      <4> QED
        BY <1>2, <4>1, <4>2
    <3> QED
      BY <1>2, <1>3, <3>1 DEF Ran
  <2>3. \A x \in Called : \A t : x # c => (InTurn(x, t)' <=> InTurn(x, t))
    BY <1>3 DEF InTurn
  <2>4. calls[c].seq # 0 => calls[c].turn = turnNow
    <3>1. IF ended = << >> THEN calls[c].seq # 0 => calls[c].turn = turnNow ELSE c \in Last(ended).brings
      BY <1>1, <1>2 DEF GraphBooks, EffectBooks
    <3>2. ended # << >> => Len(ended) \in 1..Len(ended) /\ Last(ended) = ended[Len(ended)]
      BY DEF GraphBooks, GraphTypes, Last
    <3> QED
      BY <3>1, <3>2 DEF GraphBooks, CallBooks
  <2>k. PICK k : k = turnNow
    OBVIOUS
  <2>5. InTurn(c, k)' /\ InTurn(c, k + 1)'
    <3>1. k \in Nat
      BY <2>k DEF GraphBooks, GraphTypes
    <3>2. ~ calls'[c].early => calls[c].seq # 0
      BY <1>3
    <3>3. ~ calls'[c].early => calls'[c].seq # 0 /\ calls'[c].turn = k
      BY <1>2, <1>3, <2>4, <2>k, <3>2
    <3>4. k <= k /\ k <= k + 1 /\ k + 1 <= k + 1
      BY <3>1
    <3> QED
      BY <3>3, <3>4 DEF InTurn, TurnReach
  <2>6. \A i \in 1..n : i = n => \A x \in talks'[i].open : ~ IsDelegate(x)' =>
          IF ended' = << >> THEN calls'[x].seq # 0 => calls'[x].turn = turnNow'
          ELSE x \in Last(ended').brings
    <3>1. \A x \in talks'[n].open : x \in talks[n].open /\ x \in Called
      BY <1>1, <1>2 DEF GraphTypes, GraphBooks
    <3>2. \A x \in talks[n].open : ~ IsDelegate(x) =>
            IF ended = << >> THEN calls[x].seq # 0 => calls[x].turn = turnNow ELSE x \in Last(ended).brings
      BY <1>1, <1>2 DEF GraphBooks, EffectBooks
    <3> QED
      BY <1>3, <1>5, <3>1, <3>2
  <2>7. ASSUME NEW p \in Changed, NEW d, d = dirty'[p], d # 0
        PROVE  /\ Ran(d)' /\ calls'[d].what = p
               /\ (lost = 0 => InTurn(d, k)' /\ (~ looking => InTurn(d, k + 1)'))
    <3>1. CASE d = c /\ calls[c].what = p
      BY <1>2, <1>3, <2>2, <2>5, <3>1
    <3>2. CASE d = dirty[p]
      <4>1. Ran(d) /\ calls[d].what = p /\ (lost = 0 => InTurn(d, k) /\ (~ looking => InTurn(d, k + 1)))
        BY <2>7, <2>k, <3>2 DEF GraphBooks, EffectBooks
      <4>2. Ran(d)' /\ d # c /\ d \in Called
        BY <2>1, <4>1 DEF Ran
      <4> QED
        BY <1>3, <2>3, <4>1, <4>2
    <3> QED
      BY <1>4, <2>7, <3>1, <3>2
  <2>8. ASSUME NEW i \in 1..Len(frames'), NEW d, d = frames'[i].call, NEW t, t = frames'[i].at
        PROVE  Ran(d)' /\ frames'[i].what = calls'[d].what /\ InTurn(d, t)'
    <3>1. CASE d = c /\ frames'[i].what = calls[c].what /\ t = turnNow
      BY <1>2, <1>3, <2>2, <2>5, <2>k, <3>1
    <3>2. CASE i \in 1..Len(frames) /\ frames'[i] = frames[i]
      <4>1. Ran(d) /\ frames[i].what = calls[d].what /\ InTurn(d, t)
        BY <2>8, <3>2 DEF GraphBooks, EffectBooks
      <4>2. Ran(d)' /\ d # c /\ d \in Called
        BY <2>1, <4>1 DEF Ran
      <4> QED
        BY <1>3, <2>3, <3>2, <4>1, <4>2
    <3> QED
      BY <1>4, <2>8, <3>1, <3>2
  <2>9. ASSUME NEW e \in Effects, NEW d, d = written[e].of, NEW t, t = written[e].turn
        PROVE  /\ Ran(d)' /\ written[e].what = calls'[d].what
               /\ (lost = 0 => InTurn(d, t)' /\ (~ calls'[d].early => calls'[d].seq < e))
    <3>1. /\ Ran(d) /\ written[e].what = calls[d].what
          /\ (lost = 0 => InTurn(d, t) /\ (~ calls[d].early => calls[d].seq < e))
      BY <2>9 DEF GraphBooks, EffectBooks
    <3>2. Ran(d)' /\ d # c /\ d \in Called
      BY <2>1, <3>1 DEF Ran
    <3> QED
      BY <1>3, <2>3, <3>1, <3>2
  <2> QED
    BY <1>2, <1>3, <2>6, <2>7, <2>8, <2>9, <2>k DEF EffectBooks
<1>12. DelegateBooks'
  <2>1. \A q \in 1..Len(ended) : ended[q].brings \subseteq Called
    BY DEF GraphBooks, GraphTypes
  <2>2. \A q : /\ ReturnedAt(q)' = ReturnedAt(q) /\ KnownAt(q)' = KnownAt(q) /\ OpenAt(q)' = OpenAt(q)
               /\ Carries(ended[q])' = Carries(ended[q])
    <3>1. \A q : ReturnedAt(q)' = ReturnedAt(q) /\ Carries(ended[q])' = Carries(ended[q])
      BY <1>3 DEF ReturnedAt, Results, Carries, Seqs
    <3>2. \A q : KnownAt(q)' = KnownAt(q) /\ KnownAt(q) \subseteq Called
      BY <1>3 DEF KnownAt
    <3> QED
      BY <1>5, <3>1, <3>2 DEF OpenAt
  <2>3. \A q : \A S : IsLatest(ended[q].by, S)' <=> IsLatest(ended[q].by, S)
    BY <1>3 DEF IsLatest
  <2> SUFFICES ASSUME lost = 0 PROVE DelegateBooks'
    BY <1>3 DEF DelegateBooks
  <2>a. \A i \in 1..n : \A x \in talks'[i].open \union talks'[i].done : x \in Called
    BY <1>1, <1>7 DEF GraphBooks, GraphTypes
  <2>4. \A x \in Called : calls'[x].seq # 0 \/ \E q \in 1..Len(ended) : x \in ended[q].brings
    BY <1>3 DEF GraphBooks, DelegateBooks
  <2>5. \A x \in Called : IsDelegate(x) =>
          \/ x \in ReturnedAt(Len(ended))
          \/ \E i \in 1..n : x \in talks'[i].open \union talks'[i].done
    BY <1>1, <1>7 DEF GraphBooks, DelegateBooks
  <2>6. \A i \in 1..n : \A x \in talks'[i].open \union talks'[i].done :
          IsDelegate(x) => x \notin ReturnedAt(Len(ended))
    BY <1>1, <1>7 DEF GraphBooks, DelegateBooks
  <2>7. \A q \in 1..Len(ended) : IsLatest(ended[q].by, OpenAt(q)) /\ Carries(ended[q]) \subseteq KnownAt(q)
    BY DEF GraphBooks, DelegateBooks
  <2>8. \A r \in Seqs : written[r].type = "tool.result" =>
          /\ written[r].of \in Called /\ calls'[written[r].of].seq # 0
          /\ written[r].causes = {calls'[written[r].of].seq}
    BY <1>3 DEF GraphBooks, DelegateBooks
  <2>9. \A s \in Seqs : written[s].type = "model.request" =>
          LET by == written[s].of[2]
          IN by # 0 => by \in Called /\ calls'[by].seq # 0
    BY <1>3 DEF GraphBooks, DelegateBooks
  <2> QED
    BY <1>2, <1>3, <1>5, <2>a, <2>2, <2>3, <2>4, <2>5, <2>6, <2>7, <2>8, <2>9 DEF DelegateBooks
<1>13. NamesTheDelegate'
  BY <1>3, NamesStay DEF GraphBooks
<1> QED
  BY <1>8, <1>9, <1>10, <1>11, <1>12, <1>13 DEF GraphBooks

Brought(wish) == (Len(calls) + 1)..(Len(calls) + Cardinality(wish))

LEMMA EndsCalls ==
  ASSUME GraphTypes, NEW wish \in Wishes, Ends(wish)
  PROVE  /\ Cardinality(wish) \in Nat /\ (wish = {} <=> Cardinality(wish) = 0)
         /\ calls' \in Seq(CallSet) /\ Len(calls') = Len(calls) + Cardinality(wish)
         /\ \A c \in Called : calls'[c] = calls[c]
         /\ \A c \in Brought(wish) :
              calls'[c].seq = 0 /\ (calls'[c].does = "delegate" <=> calls'[c].what = "subagent")
<1>1. IsFiniteSet(wish)
  BY CausalGraphAssumption
<1>2. PICK m, n : m = Cardinality(wish) /\ n = Len(calls)
  OBVIOUS
<1>3. m \in Nat /\ n \in Nat /\ calls \in Seq(CallSet) /\ (wish = {} <=> m = 0)
  BY <1>1, <1>2, FS_CardinalityType, FS_EmptySet DEF GraphTypes
<1>4. PICK order \in [(n + 1)..(n + m) -> wish] :
         calls' = calls \o [i \in 1..m |->
                  [does |-> order[n + i].does, what |-> order[n + i].what, seq |-> 0,
                   turn |-> 0, early |-> FALSE]]
  BY <1>2 DEF Ends
<1> DEFINE new(i) == [does |-> order[n + i].does, what |-> order[n + i].what, seq |-> 0,
                      turn |-> 0, early |-> FALSE]
<1>5. ASSUME NEW i \in 1..m
      PROVE  /\ new(i) \in CallSet /\ new(i).seq = 0
             /\ (new(i).does = "delegate" <=> new(i).what = "subagent")
  <2>1. n + i \in (n + 1)..(n + m)
    BY <1>3
  <2>2. PICK w \in wish : w = order[n + i]
    BY <1>4, <2>1
  <2>3. /\ w.does \in Doings /\ w.what \in Whats /\ (w.does = "delegate" <=> w.what = "subagent")
    BY <2>2, CausalGraphAssumption DEF Doings, Whats
  <2> QED
    BY <2>2, <2>3 DEF CallSet
<1> HIDE DEF new
<1>6. PICK f : f = [i \in 1..m |-> new(i)]
  OBVIOUS
<1>7. calls' = calls \o f
  BY <1>4, <1>6 DEF new
<1>8. f \in [1..m -> CallSet] /\ \A i \in 1..m : f[i] = new(i)
  BY <1>5, <1>6
<1>9. f \in Seq(CallSet) /\ Len(f) = m
  BY <1>3, <1>8, ListIs
<1>10. f \in Seq(CallSet)
  BY <1>9
<1>11. /\ calls \o f \in Seq(CallSet) /\ Len(calls \o f) = Len(calls) + Len(f)
       /\ \A i \in 1..Len(calls) : (calls \o f)[i] = calls[i]
  BY ONLY <1>3, <1>10, ConcatIs
<1>12. \A j \in 1..Len(f) : (calls \o f)[Len(calls) + j] = f[j]
  BY ONLY <1>3, <1>10, ConcatIs
<1>13. calls' \in Seq(CallSet) /\ Len(calls') = n + m /\ \A i \in 1..n : calls'[i] = calls[i]
  BY <1>2, <1>7, <1>9, <1>11
<1>14. \A j \in 1..m : calls'[n + j] = new(j)
  BY ONLY <1>2, <1>7, <1>8, <1>9, <1>12
<1>15. \A c \in (n + 1)..(n + m) : \E j \in 1..m : c = n + j
  <2>1. \A c \in (n + 1)..(n + m) : c - n \in 1..m /\ c = n + (c - n)
    BY <1>3
  <2> QED
    BY <2>1
<1>16. \A c \in (n + 1)..(n + m) :
         calls'[c].seq = 0 /\ (calls'[c].does = "delegate" <=> calls'[c].what = "subagent")
  BY ONLY <1>5, <1>14, <1>15, Zenon
<1>17. Called = 1..n /\ Brought(wish) = (n + 1)..(n + m)
  BY <1>2 DEF Brought, Called
<1> QED
  BY <1>2, <1>3, <1>13, <1>16, <1>17

LEMMA EndsCalled ==
  ASSUME GraphTypes, NEW wish \in Wishes, Ends(wish)
  PROVE  /\ Called \subseteq Called' /\ Brought(wish) \subseteq Called' /\ IsFiniteSet(Brought(wish))
         /\ \A c \in Called' : c \in Called \/ c \in Brought(wish)
         /\ \A c \in Called, d \in Brought(wish) : c < d
         /\ wish = {} => Brought(wish) = {}
<1>1. PICK m, n : m = Cardinality(wish) /\ n = Len(calls)
  OBVIOUS
<1>2. m \in Nat /\ n \in Nat /\ Len(calls') = n + m /\ (wish = {} => m = 0)
  BY <1>1, EndsCalls, Members
<1>3. Called' = 1..(n + m) /\ Called = 1..n /\ Brought(wish) = (n + 1)..(n + m)
  BY <1>1, <1>2 DEF Called, Brought
<1>4. IsFiniteSet((n + 1)..(n + m))
  BY <1>2, FS_Interval
<1> QED
  BY <1>2, <1>3, <1>4

LEMMA EndsEnded ==
  ASSUME GraphTypes, NEW wish \in Wishes, Ends(wish)
  PROVE  /\ ended' \in Seq(EndedSet) /\ Len(ended') = Len(ended) + 1
         /\ \A q \in 1..Len(ended) : ended'[q] = ended[q]
         /\ ended'[Len(ended) + 1].by = talks[Len(talks)].by
         /\ ended'[Len(ended) + 1].brings = Brought(wish)
         /\ Carries(ended'[Len(ended) + 1]) = talks[Len(talks)].done
<1>1. PICK t : t = talks[Len(talks)]
  OBVIOUS
<1>2. /\ talks # << >>
      /\ ended' = Append(ended, [by |-> t.by, carries |-> Ascending(t.done), brings |-> Brought(wish)])
  BY <1>1 DEF Ends, Last, Brought
<1>3. /\ t \in TalkSet /\ IsFiniteSet(t.done) /\ ended \in Seq(EndedSet)
  <2>1. Len(talks) \in 1..Len(talks)
    BY <1>2 DEF GraphTypes
  <2> QED
    BY <1>1, <2>1, Members DEF GraphTypes
<1>4. t.done \in SUBSET Nat /\ t.by \in Nat
  BY <1>3 DEF TalkSet
<1>5. PICK r, k : r = Ascending(t.done) /\ k = Cardinality(t.done)
  OBVIOUS
<1>6. /\ k \in Nat /\ r \in Seq(t.done) /\ Len(r) = k
      /\ (\A i \in 1..k : r[i] \in t.done) /\ (\A x \in t.done : \E i \in 1..k : r[i] = x)
  BY <1>3, <1>4, <1>5, AscendingIs
<1>7. r \in Seq(Nat)
  BY <1>4, <1>6
<1>8. PICK x : x = [by |-> t.by, carries |-> r, brings |-> Brought(wish)]
  OBVIOUS
<1>9. Brought(wish) \in SUBSET Nat
  <2>1. Cardinality(wish) \in Nat /\ Len(calls) \in Nat
    BY EndsCalls, Members
  <2> QED
    BY <2>1 DEF Brought
<1>10. x \in EndedSet /\ x.by = t.by /\ x.brings = Brought(wish) /\ x.carries = r
  BY <1>4, <1>7, <1>8, <1>9 DEF EndedSet
<1>11. Carries(x) = t.done
  BY <1>6, <1>10 DEF Carries
<1>12. ended' = Append(ended, x)
  BY <1>2, <1>5, <1>8
<1>13. /\ ended' \in Seq(EndedSet) /\ Len(ended') = Len(ended) + 1 /\ ended'[Len(ended) + 1] = x
       /\ \A q \in 1..Len(ended) : ended'[q] = ended[q]
  BY <1>3, <1>10, <1>12
<1> QED
  BY <1>1, <1>10, <1>11, <1>13

LEMMA EndsTalks ==
  ASSUME GraphTypes, Stack, NEW wish \in Wishes, Ends(wish)
  PROVE  /\ Len(talks) \in Nat \ {0} /\ talks[Len(talks)].open = {}
         /\ talks' \in Seq(TalkSet) /\ Len(talks') \in Nat /\ Len(talks') <= Len(talks)
         /\ \A i \in 1..Len(talks') : talks'[i].by = talks[i].by
         /\ \A i \in 1..Len(talks') : i # Len(talks') => talks'[i] = talks[i]
         /\ wish # {} => /\ Len(talks') = Len(talks)
                         /\ talks'[Len(talks)].open = Brought(wish) /\ talks'[Len(talks)].done = {}
         /\ wish = {} => /\ Len(talks') = Len(talks) - 1
                         /\ Len(talks') # 0 =>
                              /\ talks'[Len(talks')].open = {}
                              /\ talks'[Len(talks')].done =
                                   talks[Len(talks')].done \union {talks[Len(talks)].by}
<1>1. PICK n : n = Len(talks)
  OBVIOUS
<1>2. /\ talks \in Seq(TalkSet) /\ n \in Nat \ {0} /\ talks[n].open = {} /\ talks[n] \in TalkSet
  <2>1. talks # << >> /\ talks[n].open = {}
    BY <1>1 DEF Ends, Last
  <2> QED
    BY <1>1, <2>1, Members DEF GraphTypes
<1>3. PICK r : r = SubSeq(talks, 1, n - 1)
  OBVIOUS
<1>4. r \in Seq(TalkSet) /\ Len(r) = n - 1 /\ \A i \in 1..(n - 1) : r[i] = talks[i]
  BY <1>1, <1>2, <1>3
<1>5. Rest(talks) = r
  BY <1>1, <1>3 DEF Rest
<1>6. CASE wish # {}
  <2>1. PICK t : t = [talks[n] EXCEPT !.open = Brought(wish), !.done = {}]
    OBVIOUS
  <2>2. Brought(wish) \in SUBSET Nat
    BY EndsCalls, Members DEF Brought
  <2>3. t \in TalkSet /\ t.by = talks[n].by /\ t.open = Brought(wish) /\ t.done = {}
    BY <1>2, <2>1, <2>2 DEF TalkSet
  <2>4. talks' = Append(r, t)
    BY <1>1, <1>5, <1>6, <2>1 DEF Ends, Last, Brought
  <2>5. talks' \in Seq(TalkSet) /\ Len(talks') = n /\ talks'[n] = t /\ \A i \in 1..(n - 1) : talks'[i] = talks[i]
    BY <1>2, <1>4, <2>3, <2>4
  <2>6. \A i \in 1..n : i # n => i \in 1..(n - 1)
    BY <1>2
  <2>7. \A i \in 1..n : i # n => talks'[i] = talks[i]
    BY <2>5, <2>6
  <2>8. \A i \in 1..n : talks'[i].by = talks[i].by
    BY <2>3, <2>5, <2>7
  <2> QED
    BY <1>1, <1>2, <1>6, <2>3, <2>5, <2>7, <2>8
<1>7. CASE wish = {} /\ n = 1
  <2>1. talks' = << >>
    BY <1>1, <1>7 DEF Ends
  <2>2. talks' \in Seq(TalkSet) /\ Len(talks') = 0 /\ \A i : i \notin 1..Len(talks')
    BY <2>1
  <2> QED
    BY <1>1, <1>2, <1>7, <2>2
<1>8. CASE wish = {} /\ n # 1
  <2>1. n - 1 \in 1..n /\ n - 1 \in Nat \ {0} /\ n \in 2..n /\ n - 1 \in 1..(n - 1)
    BY <1>2, <1>8
  <2>2. PICK u, by : u = r[n - 1] /\ by = talks[n].by
    OBVIOUS
  <2>3. PICK t : t = [u EXCEPT !.open = @ \ {by}, !.done = @ \union {by}]
    OBVIOUS
  <2>4. u = talks[n - 1] /\ u \in TalkSet /\ by \in Nat /\ u.open = {by}
    BY <1>1, <1>2, <1>4, <2>1, <2>2, Members DEF TalkSet, Stack
  <2>5. t \in TalkSet /\ t.by = u.by /\ t.open = {} /\ t.done = u.done \union {by}
    BY <2>3, <2>4 DEF TalkSet
  <2>6. PICK s : s = SubSeq(r, 1, n - 2)
    OBVIOUS
  <2>7. s \in Seq(TalkSet) /\ Len(s) = n - 2 /\ \A i \in 1..(n - 2) : s[i] = talks[i]
    BY <1>4, <2>1, <2>6
  <2>8. talks' = Append(s, t)
    <3>1. Len(r) - 1 = n - 2
      BY <1>2, <1>4
    <3>2. Rest(r) = s /\ Last(r) = u
      BY <1>4, <2>2, <2>6, <3>1 DEF Rest, Last
    <3>3. talks' = Append(Rest(Rest(talks)), [Last(Rest(talks)) EXCEPT !.open = @ \ {Last(talks).by},
                                                                     !.done = @ \union {Last(talks).by}])
      BY <1>1, <1>8 DEF Ends
    <3>4. Last(talks).by = by
      BY <1>1, <2>2 DEF Last
    <3> QED
      BY <1>5, <2>3, <3>2, <3>3, <3>4
  <2>9. /\ talks' \in Seq(TalkSet) /\ Len(talks') = n - 1 /\ talks'[n - 1] = t
        /\ \A i \in 1..(n - 2) : talks'[i] = talks[i]
    BY <1>2, <2>1, <2>5, <2>7, <2>8
  <2>10. \A i \in 1..(n - 1) : i # n - 1 => i \in 1..(n - 2)
    BY <1>2
  <2>11. \A i \in 1..(n - 1) : i # n - 1 => talks'[i] = talks[i]
    BY <2>9, <2>10
  <2>12. \A i \in 1..(n - 1) : talks'[i].by = talks[i].by
    BY <2>4, <2>5, <2>9, <2>11
  <2>13. n - 1 <= n /\ n - 1 \in Nat
    BY <2>1
  <2> QED
    BY <1>1, <1>2, <1>8, <2>2, <2>4, <2>5, <2>9, <2>11, <2>12, <2>13
<1> QED
  BY <1>6, <1>7, <1>8

LEMMA EndsBooks ==
  ASSUME GraphBooks, NEW wish \in Wishes, Ends(wish)
  PROVE  GraphBooks'
<1>1. PICK n, l, k, B : n = Len(talks) /\ l = Len(talks') /\ k = Len(ended) /\ B = Brought(wish)
  OBVIOUS
<1>2. /\ n \in Nat \ {0} /\ talks[n].open = {} /\ talks' \in Seq(TalkSet) /\ l \in Nat /\ l <= n
      /\ (\A i \in 1..l : talks'[i].by = talks[i].by)
      /\ (\A i \in 1..l : i # l => talks'[i] = talks[i])
      /\ (wish # {} => l = n /\ talks'[n].open = B /\ talks'[n].done = {})
      /\ (wish = {} => l = n - 1 /\ (l # 0 => /\ talks'[l].open = {}
                                              /\ talks'[l].done = talks[l].done \union {talks[n].by}))
  BY <1>1, EndsTalks DEF GraphBooks
<1>3. /\ calls' \in Seq(CallSet) /\ (\A c \in Called : calls'[c] = calls[c])
      /\ (\A c \in B : calls'[c].seq = 0 /\ (calls'[c].does = "delegate" <=> calls'[c].what = "subagent"))
  BY <1>1, EndsCalls DEF GraphBooks
<1>4. /\ Called \subseteq Called' /\ B \subseteq Called' /\ IsFiniteSet(B)
      /\ (\A c \in Called' : c \in Called \/ c \in B) /\ (\A c \in Called, d \in B : c < d)
      /\ (wish = {} => B = {})
  BY <1>1, EndsCalled DEF GraphBooks
<1>5. /\ ended' \in Seq(EndedSet) /\ Len(ended') = k + 1 /\ (\A q \in 1..k : ended'[q] = ended[q])
      /\ ended'[k + 1].by = talks[n].by /\ ended'[k + 1].brings = B
      /\ Carries(ended'[k + 1]) = talks[n].done
  BY <1>1, EndsEnded DEF GraphBooks
<1>6. /\ UNCHANGED <<written, turnNow, looking, dirty, frames, lost>> /\ Seqs' = Seqs /\ Effects' = Effects
      /\ k \in Nat /\ \A q \in 1..(k + 1) : q \in 1..k \/ q = k + 1
  <2>1. UNCHANGED <<written, turnNow, looking, dirty, frames, lost>>
    BY DEF Ends
  <2>2. Seqs' = Seqs /\ Effects' = Effects
    BY <2>1 DEF Seqs, Effects
  <2>3. k \in Nat
    BY <1>1, Members DEF GraphBooks
  <2> QED
    BY <2>1, <2>2, <2>3
<1>7. \A c \in Called : IsDelegate(c)' <=> IsDelegate(c)
  BY <1>3 DEF IsDelegate
<1>8. /\ \A i \in 1..n : /\ IsFiniteSet(talks[i].open) /\ IsFiniteSet(talks[i].done)
                         /\ talks[i].open \subseteq Called /\ talks[i].done \subseteq Called
      /\ \A q \in 1..k : /\ IsFiniteSet(ended[q].brings) /\ ended[q].brings \subseteq Called
                         /\ Carries(ended[q]) \subseteq Called
      /\ n \in 1..n
  <2>1. \A i \in 1..n : /\ IsFiniteSet(talks[i].open) /\ IsFiniteSet(talks[i].done)
                        /\ talks[i].open \subseteq Called /\ talks[i].done \subseteq Called
    BY <1>1 DEF GraphBooks, GraphTypes
  <2>2. \A q \in 1..k : /\ IsFiniteSet(ended[q].brings) /\ ended[q].brings \subseteq Called
                        /\ Carries(ended[q]) \subseteq Called
    BY <1>1 DEF GraphBooks, GraphTypes
  <2>3. n \in 1..n
    BY <1>2
  <2> QED
    BY <2>1, <2>2, <2>3
<1>9. /\ talks[1].by = 0
      /\ \A i \in 2..n : talks[i].by \in Called /\ IsDelegate(talks[i].by) /\ talks[i - 1].open = {talks[i].by}
      /\ \A i, j \in 1..n : j < i => talks[j].by < talks[i].by
      /\ \A i \in 1..n : \A c \in talks[i].open \union talks[i].done : talks[i].by < c
      /\ \A i \in 1..n : \A c \in talks[i].done : IsDelegate(c) => i = n
  BY <1>1, <1>2 DEF GraphBooks, Stack
<1>10. \A i \in 1..l : /\ i \in 1..n
                       /\ (wish = {} => i \in 1..(n - 1) /\ i + 1 \in 2..n /\ i < n /\ (i = l => i + 1 = n))
  BY <1>2
<1>11. GraphTypes'
  <2>1. \A i \in 1..l : /\ IsFiniteSet(talks'[i].open) /\ IsFiniteSet(talks'[i].done)
                        /\ talks'[i].open \subseteq Called' /\ talks'[i].done \subseteq Called'
    <3>1. ASSUME NEW i \in 1..l, i # l
          PROVE  /\ IsFiniteSet(talks'[i].open) /\ IsFiniteSet(talks'[i].done)
                 /\ talks'[i].open \subseteq Called' /\ talks'[i].done \subseteq Called'
      BY <1>2, <1>4, <1>8, <1>10, <3>1
    <3>2. CASE wish # {}
      <4>1. talks'[l].open = B /\ talks'[l].done = {} /\ IsFiniteSet({})
        BY <1>2, <3>2, FS_EmptySet
      <4> QED
        BY <1>4, <3>1, <4>1
    <3>3. CASE wish = {}
      <4>1. ASSUME l # 0 PROVE talks[n].by \in Called /\ IsFiniteSet(talks[l].done \union {talks[n].by})
                               /\ talks[l].done \subseteq Called
        <5>1. l \in 1..n /\ n \in 2..n
          BY <1>2, <3>3, <4>1
        <5> QED
          BY <1>8, <1>9, <5>1, FS_AddElement
      <4>2. ASSUME l # 0
            PROVE  /\ IsFiniteSet(talks'[l].open) /\ IsFiniteSet(talks'[l].done)
                   /\ talks'[l].open \subseteq Called' /\ talks'[l].done \subseteq Called'
        <5>1. talks'[l].open = {} /\ talks'[l].done = talks[l].done \union {talks[n].by} /\ IsFiniteSet({})
          BY <1>2, <3>3, <4>2, FS_EmptySet
        <5> QED
          BY <1>4, <4>1, <4>2, <5>1
      <4>3. \A i \in 1..l : l # 0
        BY <1>2
      <4> QED
        BY <3>1, <4>2, <4>3
    <3> QED
      BY <3>2, <3>3
  <2>2. \A q \in 1..(k + 1) : /\ IsFiniteSet(ended'[q].brings) /\ ended'[q].brings \subseteq Called'
                              /\ Carries(ended'[q]) \subseteq Called'
    BY <1>4, <1>5, <1>6, <1>8
  <2>3. \A c \in Called' : IsDelegate(c)' <=> calls'[c].what = "subagent"
    BY <1>3, <1>4, <1>7 DEF GraphBooks, GraphTypes, IsDelegate
  <2> QED
    BY <1>1, <1>2, <1>3, <1>5, <1>6, <2>1, <2>2, <2>3 DEF GraphBooks, GraphTypes
<1>12. Stack'
  <2>1. talks' # << >> => talks'[1].by = 0
    BY <1>1, <1>2, <1>9
  <2>2. \A i \in 2..l : talks'[i].by \in Called /\ IsDelegate(talks'[i].by) /\ talks'[i - 1].open = {talks'[i].by}
    <3>1. \A i \in 2..l : i \in 1..l /\ i - 1 \in 1..l /\ i - 1 # l /\ i \in 2..n
      BY <1>2
    <3> QED
      BY <1>2, <1>9, <3>1
  <2>3. \A i, j \in 1..l : j < i => talks'[j].by < talks'[i].by
    BY <1>2, <1>9, <1>10
  <2>4. \A i \in 1..l : \A c \in talks'[i].open \union talks'[i].done : talks'[i].by < c
    <3>1. CASE wish # {}
      <4>1. \A c \in B : talks[n].by < c
        <5>1. CASE n = 1
          BY <1>1, <1>9, <5>1, Members, EndsCalls DEF Brought, GraphBooks
        <5>2. CASE n # 1
          <6>1. n \in 2..n
            BY <1>2, <5>2
          <6> QED
            BY <1>4, <1>9, <6>1
        <5> QED
          BY <5>1, <5>2
      <4> QED
        BY <1>2, <1>9, <1>10, <3>1, <4>1
    <3>2. CASE wish = {}
      BY <1>2, <1>8, <1>9, <1>10, <3>2
    <3> QED
      BY <3>1, <3>2
  <2>5. \A i \in 1..l : \A c \in talks'[i].done : c \in Called /\ (IsDelegate(c) => i = l /\ talks'[l].open = {})
    <3>1. \A i \in 1..l : i # l => i # n
      BY <1>2
    <3>2. ASSUME wish = {} PROVE \A i \in 1..l : i = l => talks[n].by \in Called /\ l # 0 /\ i # n
      BY <1>2, <1>9, <1>10, <3>2
    <3> QED
      BY <1>2, <1>8, <1>9, <1>10, <3>1, <3>2
  <2> QED
    BY <1>1, <1>4, <1>7, <2>1, <2>2, <2>3, <2>4, <2>5 DEF Stack
<1>13. CallBooks'
  <2>1. \A c \in Called' : calls'[c].seq # 0 => c \in Called
    BY <1>3, <1>4
  <2>2. \A s, c : IsCall(s, c)' <=> IsCall(s, c)
    BY <1>6 DEF IsCall
  <2>3. \A c \in Called' : calls'[c].seq # 0 =>
          /\ IsCall(calls'[c].seq, c) /\ written[calls'[c].seq].what = calls'[c].what
          /\ written[calls'[c].seq].turn = calls'[c].turn /\ calls'[c].turn <= turnNow
    BY <1>3, <2>1 DEF GraphBooks, CallBooks
  <2>4. \A s \in Seqs : written[s].type = "tool.call" =>
          written[s].of \in Called /\ calls'[written[s].of].seq = s
    BY <1>3 DEF GraphBooks, CallBooks
  <2>5. \A c, d \in Called' : c < d /\ calls'[c].seq # 0 /\ calls'[d].seq # 0 => calls'[c].seq < calls'[d].seq
    BY <1>3, <2>1 DEF GraphBooks, CallBooks
  <2>6. \A q \in 1..(k + 1) : \A d \in ended'[q].brings :
          /\ calls'[d].seq = 0
          /\ (\A c \in Called' : calls'[c].seq # 0 => c < d)
          /\ (\A p \in 1..(q - 1) : \A c \in ended'[p].brings : c < d)
    <3>1. \A d \in B : /\ calls'[d].seq = 0
                       /\ (\A c \in Called' : calls'[c].seq # 0 => c < d)
                       /\ (\A p \in 1..k : \A c \in ended[p].brings : c < d)
      BY <1>3, <1>4, <1>8, <2>1
    <3>2. \A q \in 1..k : \A d \in ended[q].brings :
            /\ calls'[d].seq = 0
            /\ (\A c \in Called' : calls'[c].seq # 0 => c < d)
            /\ (\A p \in 1..(q - 1) : \A c \in ended[p].brings : c < d)
      <4>1. \A q \in 1..k : \A d \in ended[q].brings :
              /\ calls[d].seq = 0
              /\ (\A c \in Called : calls[c].seq # 0 => c < d)
              /\ (\A p \in 1..(q - 1) : \A c \in ended[p].brings : c < d)
        BY <1>1 DEF GraphBooks, CallBooks
      <4>2. \A c \in Called' : calls'[c].seq # 0 => c \in Called /\ calls[c].seq # 0
        BY <1>3, <2>1
      <4>3. \A q \in 1..k : \A d \in ended[q].brings : calls'[d] = calls[d]
        BY <1>3, <1>8
      <4> QED
        BY <4>1, <4>2, <4>3
    <3>3. /\ (k + 1) - 1 = k /\ \A q \in 1..k : \A p \in 1..(q - 1) : p \in 1..k
      BY <1>6
    <3> QED
      BY <1>5, <1>6, <3>1, <3>2, <3>3
  <2>7. \A s, c : IsCall(s, c) <=> s \in Seqs /\ written[s].type = "tool.call" /\ written[s].of = c
    BY DEF IsCall
  <2> QED
    BY <1>4, <1>5, <1>6, <2>3, <2>4, <2>5, <2>6 DEF CallBooks, IsCall
<1>14. EffectBooks'
  <2>1. \A c : Ran(c) => c \in Called /\ Ran(c)'
    <3>1. \A i \in 1..l : \A c \in talks'[i].open : c \in talks[i].open \/ c \in B
      BY <1>2
    <3>2. \A c \in Called : c \notin B
      <4>1. \A c \in Called : ~ (c < c)
        BY Members DEF GraphBooks, Called
      <4> QED
        BY <1>4, <4>1
    <3> QED
      BY <1>1, <1>4, <1>10, <3>1, <3>2 DEF Ran
  <2>2. \A c \in Called : \A t : InTurn(c, t)' <=> InTurn(c, t)
    BY <1>3 DEF InTurn
  <2>3. \A i \in 1..l : i = l => \A c \in talks'[i].open : c \in Last(ended').brings
    <3>1. Last(ended').brings = B
      BY <1>5 DEF Last
    <3> QED
      BY <1>2, <1>10, <3>1
  <2>4. ended' # << >>
    BY <1>5, <1>6
  <2>t. PICK t : t = turnNow
    OBVIOUS
  <2>5. \A p \in Changed : \A d : d = dirty[p] /\ d # 0 =>
          /\ Ran(d)' /\ calls'[d].what = p
          /\ (lost = 0 => InTurn(d, t)' /\ (~ looking => InTurn(d, t + 1)'))
    <3>1. \A p \in Changed : \A d : d = dirty[p] /\ d # 0 =>
            Ran(d) /\ calls[d].what = p /\ (lost = 0 => InTurn(d, t) /\ (~ looking => InTurn(d, t + 1)))
      BY <2>t DEF GraphBooks, EffectBooks
    <3> QED
      BY <1>3, <2>1, <2>2, <3>1
  <2>6. \A i \in 1..Len(frames) : \A d, u : d = frames[i].call /\ u = frames[i].at =>
          Ran(d)' /\ frames[i].what = calls'[d].what /\ InTurn(d, u)'
    <3>1. \A i \in 1..Len(frames) : \A d, u : d = frames[i].call /\ u = frames[i].at =>
            Ran(d) /\ frames[i].what = calls[d].what /\ InTurn(d, u)
      BY DEF GraphBooks, EffectBooks
    <3> QED
      BY <1>3, <2>1, <2>2, <3>1
  <2>7. \A e \in Effects : \A d, u : d = written[e].of /\ u = written[e].turn =>
          /\ Ran(d)' /\ written[e].what = calls'[d].what
          /\ (lost = 0 => InTurn(d, u)' /\ (~ calls'[d].early => calls'[d].seq < e))
    <3>1. \A e \in Effects : \A d, u : d = written[e].of /\ u = written[e].turn =>
            /\ Ran(d) /\ written[e].what = calls[d].what
            /\ (lost = 0 => InTurn(d, u) /\ (~ calls[d].early => calls[d].seq < e))
      BY DEF GraphBooks, EffectBooks
    <3> QED
      BY <1>3, <2>1, <2>2, <3>1
  <2> QED
    BY <1>1, <1>6, <2>t, <2>3, <2>4, <2>5, <2>6, <2>7 DEF EffectBooks
<1>15. NamesTheDelegate'
  BY <1>3, <1>6, NamesStay DEF GraphBooks
<1>16. DelegateBooks'
  <2> SUFFICES ASSUME lost = 0 PROVE DelegateBooks'
    BY <1>6 DEF DelegateBooks
  <2>1. \A c \in Called : calls[c].seq # 0 \/ \E q \in 1..k : c \in ended[q].brings
    BY <1>1 DEF GraphBooks, DelegateBooks
  <2>2. \A c \in Called : IsDelegate(c) =>
          \/ c \in ReturnedAt(k)
          \/ \E i \in 1..n : c \in talks[i].open \union talks[i].done
    BY <1>1 DEF GraphBooks, DelegateBooks
  <2>3. \A i \in 1..n : \A c \in talks[i].open \union talks[i].done : IsDelegate(c) => c \notin ReturnedAt(k)
    BY <1>1 DEF GraphBooks, DelegateBooks
  <2>4. \A q \in 1..k : IsLatest(ended[q].by, OpenAt(q)) /\ Carries(ended[q]) \subseteq KnownAt(q)
    BY <1>1 DEF GraphBooks, DelegateBooks
  <2>5. /\ \A r \in Seqs : written[r].type = "tool.result" =>
             /\ written[r].of \in Called /\ calls[written[r].of].seq # 0
             /\ written[r].causes = {calls[written[r].of].seq}
        /\ \A s \in Seqs : written[s].type = "model.request" =>
             LET by == written[s].of[2]
             IN by # 0 => by \in Called /\ calls[by].seq # 0
    BY DEF GraphBooks, DelegateBooks
  <2>6. /\ Results' = Results /\ Results \subseteq Called
        /\ \A q \in 1..k : 1..q \subseteq 1..k /\ 1..(q - 1) \subseteq 1..k
        /\ 1..((k + 1) - 1) = 1..k /\ k + 1 \in 1..(k + 1) /\ 1..k \subseteq 1..(k + 1)
    <3>1. Results' = Results /\ Results \subseteq Called
      BY <1>6, <2>5 DEF Results
    <3> QED
      BY <1>6, <3>1
  <2>7. /\ \A q \in 1..k : ReturnedAt(q)' = ReturnedAt(q) /\ ReturnedAt(q) \subseteq Called
        /\ ReturnedAt(k) \subseteq Called
        /\ ReturnedAt(k + 1)' = ReturnedAt(k) \union talks[n].done
    <3>1. \A q \in 1..k : ReturnedAt(q)' = ReturnedAt(q)
      BY <1>5, <2>6 DEF ReturnedAt
    <3>2. \A q \in 1..k : ReturnedAt(q) \subseteq Called
      BY <1>8, <2>6 DEF ReturnedAt
    <3>3. ReturnedAt(k) \subseteq Called
      BY <1>8, <2>6 DEF ReturnedAt
    <3>4. \A p \in 1..(k + 1) : Carries(ended'[p]) = IF p = k + 1 THEN talks[n].done ELSE Carries(ended[p])
      BY <1>5, <1>6
    <3>5. \A p \in 1..k : p # k + 1
      BY <1>6
    <3>6. UNION {Carries(ended'[p]) : p \in 1..(k + 1)} =
          (UNION {Carries(ended[p]) : p \in 1..k}) \union talks[n].done
      BY <1>6, <2>6, <3>4, <3>5
    <3> QED
      BY <2>6, <3>1, <3>2, <3>3, <3>6 DEF ReturnedAt
  <2>8. /\ \A q \in 1..k : KnownAt(q)' = KnownAt(q) /\ OpenAt(q)' = OpenAt(q)
        /\ KnownAt(k + 1)' = Called
    <3>1. \A c \in B : calls'[c].seq = 0 /\ \A q \in 1..k : c \notin ended[q].brings
      <4>1. \A c \in Called : ~ (c < c)
        BY Members DEF GraphBooks, Called
      <4> QED
        BY <1>3, <1>4, <1>8, <4>1
    <3>2. \A q \in 1..k : KnownAt(q)' = KnownAt(q)
      BY <1>3, <1>4, <1>5, <2>6, <3>1 DEF KnownAt
    <3>3. \A q \in 1..k : KnownAt(q) \subseteq Called
      BY DEF KnownAt
    <3>4. \A q \in 1..k : OpenAt(q)' = OpenAt(q)
      BY <1>7, <2>7, <3>2, <3>3 DEF OpenAt
    <3>5. KnownAt(k + 1)' = Called
      <4>1. KnownAt(k + 1)' = {c \in Called' : calls'[c].seq # 0 \/ \E p \in 1..k : c \in ended'[p].brings}
        BY <2>6 DEF KnownAt
      <4>2. \A c \in Called : calls'[c].seq # 0 \/ \E p \in 1..k : c \in ended'[p].brings
        BY <1>3, <1>5, <2>1
      <4>3. \A c \in B : ~ (calls'[c].seq # 0 \/ \E p \in 1..k : c \in ended'[p].brings)
        BY <1>5, <3>1
      <4> QED
        BY <1>4, <4>1, <4>2, <4>3
    <3> QED
      BY <3>2, <3>4, <3>5
  <2>9. \A c \in Called' : calls'[c].seq # 0 \/ \E q \in 1..(k + 1) : c \in ended'[q].brings
    BY <1>3, <1>4, <1>5, <2>1, <2>6
  <2>10. \A c \in Called' : IsDelegate(c)' =>
           \/ c \in ReturnedAt(k + 1)'
           \/ \E i \in 1..l : c \in talks'[i].open \union talks'[i].done
    <3>1. ASSUME NEW c \in B PROVE \E i \in 1..l : c \in talks'[i].open
      BY <1>2, <1>4, <1>8
    <3>2. ASSUME NEW c \in Called, IsDelegate(c), c \notin ReturnedAt(k + 1)'
          PROVE  \E i \in 1..l : c \in talks'[i].open \union talks'[i].done
      <4>1. PICK i \in 1..n : c \in talks[i].open \union talks[i].done
        BY <2>2, <2>7, <3>2
      <4>2. i # n
        BY <1>2, <2>7, <3>2, <4>1
      <4>3. i \in 1..(n - 1) /\ i + 1 \in 2..n /\ (i + 1) - 1 = i
        BY <1>2, <4>2
      <4>4. i \in 1..l /\ l # 0 /\ (i = l /\ wish = {} => i + 1 = n)
        BY <1>2, <4>3
      <4>5. CASE i = l
        <5>1. wish = {}
          BY <1>2, <4>2, <4>5
        <5>2. c \in talks[l].open => c = talks[n].by
          BY <1>9, <4>3, <4>4, <4>5, <5>1
        <5>3. c \in talks'[l].done
          BY <1>2, <4>1, <4>4, <4>5, <5>1, <5>2
        <5> QED
          BY <4>4, <4>5, <5>3
      <4>6. CASE i # l
        BY <1>2, <4>1, <4>4, <4>6
      <4> QED
        BY <4>5, <4>6
    <3> QED
      BY <1>4, <1>7, <3>1, <3>2
  <2>11. \A i \in 1..l : \A c \in talks'[i].open \union talks'[i].done :
           IsDelegate(c)' => c \notin ReturnedAt(k + 1)'
    <3>1. ASSUME NEW i \in 1..n, i # n, NEW c \in talks[i].open \union talks[i].done, IsDelegate(c)
          PROVE  c \notin ReturnedAt(k) \union talks[n].done /\ c \in Called
      <4>1. i + 1 \in 2..n /\ i + 1 \in 1..n /\ (i + 1) - 1 = i
        BY <1>2, <3>1
      <4>2. c = talks[i + 1].by
        BY <1>9, <3>1, <4>1
      <4>3. \A d \in talks[n].done : talks[n].by < d
        BY <1>8, <1>9
      <4>4. i + 1 < n => talks[i + 1].by < talks[n].by
        BY <1>8, <1>9, <4>1
      <4>5. /\ c \in Nat /\ talks[n].by \in Nat /\ (\A d \in talks[n].done : d \in Nat) /\ c \in Called
        <5>1. talks[n] \in TalkSet /\ talks[n].done \subseteq Called /\ c \in Called /\ \A d \in Called : d \in Nat
          BY <1>1, <1>8, <3>1, Members DEF GraphBooks, Called
        <5> QED
          BY <5>1 DEF TalkSet
      <4>6. i + 1 = n \/ i + 1 < n
        BY <1>2, <4>1
      <4>7. \A d \in talks[n].done : c < d
        BY <4>2, <4>3, <4>4, <4>5, <4>6
      <4>8. c \notin talks[n].done
        BY <4>5, <4>7
      <4> QED
        BY <2>3, <3>1, <4>5, <4>8
    <3>2. CASE wish # {}
      <4>1. \A c \in B : c \notin ReturnedAt(k) \union talks[n].done
        <5>1. \A c \in Called : ~ (c < c)
          BY Members DEF GraphBooks, Called
        <5> QED
          BY <1>4, <1>8, <2>7, <5>1
      <4>2. \A i \in 1..n : i # n => talks'[i] = talks[i] /\ talks[i].open \union talks[i].done \subseteq Called
        BY <1>2, <1>8, <3>2
      <4> QED
        BY <1>2, <1>7, <2>7, <3>1, <3>2, <4>1, <4>2
    <3>3. CASE wish = {}
      <4>1. ASSUME NEW i \in 1..l
            PROVE  \A c \in talks'[i].open \union talks'[i].done : c \in talks[i].open \union talks[i].done
        <5>1. l # 0 /\ (i = l => i \in 1..n /\ n \in 2..n /\ n - 1 = i)
          BY <1>2, <3>3
        <5>2. i = l => talks[i].open = {talks[n].by}
          BY <1>9, <5>1
        <5> QED
          BY <1>2, <3>3, <5>1, <5>2
      <4>2. \A i \in 1..l : i \in 1..n /\ i # n
        BY <1>2, <3>3
      <4>3. \A i \in 1..l : talks[i].open \union talks[i].done \subseteq Called
        BY <1>8, <4>2
      <4> QED
        BY <1>7, <2>7, <3>1, <4>1, <4>2, <4>3
    <3> QED
      BY <3>2, <3>3
  <2>12. \A q \in 1..k : IsLatest(ended'[q].by, OpenAt(q)') /\ Carries(ended'[q]) \subseteq KnownAt(q)'
    BY <1>5, <2>4, <2>8
  <2>13. Carries(ended'[k + 1]) \subseteq KnownAt(k + 1)'
    BY <1>5, <1>8, <2>8
  <2>14. IsLatest(ended'[k + 1].by, OpenAt(k + 1)')
    <3>1. \A c : c \in OpenAt(k + 1)' <=> c \in Called /\ IsDelegate(c) /\ c \notin ReturnedAt(k) \union talks[n].done
      BY <1>7, <2>7, <2>8 DEF OpenAt
    <3>2. ASSUME NEW c \in OpenAt(k + 1)' PROVE n # 1 /\ c <= talks[n].by
      <4>1. PICK i \in 1..n : c \in talks[i].open \union talks[i].done
        BY <2>2, <3>1, <3>2
      <4>2. i # n
        BY <1>2, <3>1, <3>2, <4>1
      <4>3. i + 1 \in 2..n /\ i + 1 \in 1..n /\ (i + 1) - 1 = i /\ n # 1 /\ (i + 1 = n \/ i + 1 < n)
        BY <1>2, <4>2
      <4>4. c = talks[i + 1].by
        BY <1>9, <3>1, <3>2, <4>1, <4>2, <4>3
      <4>5. c \in Nat /\ talks[n].by \in Nat
        <5>1. talks[n] \in TalkSet /\ \A d \in Called : d \in Nat
          BY <1>1, <1>8, Members DEF GraphBooks, Called
        <5> QED
          BY <3>1, <3>2, <5>1 DEF TalkSet
      <4>6. i + 1 < n => talks[i + 1].by < talks[n].by
        BY <1>8, <1>9, <4>3
      <4> QED
        BY <4>3, <4>4, <4>5, <4>6
    <3>3. ASSUME n # 1 PROVE talks[n].by # 0 /\ talks[n].by \in OpenAt(k + 1)'
      <4>1. n \in 2..n /\ n - 1 \in 1..n
        BY <1>2, <3>3
      <4>2. talks[n].by \in Called /\ IsDelegate(talks[n].by) /\ talks[n].by \in talks[n - 1].open
        BY <1>9, <4>1
      <4>3. talks[n].by \in Nat \ {0}
        BY <4>2, Members DEF GraphBooks, Called
      <4>4. talks[n].by \notin talks[n].done
        <5>1. \A d \in talks[n].done : talks[n].by < d
          BY <1>8, <1>9
        <5> QED
          BY <4>3, <5>1
      <4> QED
        BY <2>3, <3>1, <4>1, <4>2, <4>3, <4>4
    <3> QED
      BY <1>2, <1>5, <1>9, <3>2, <3>3 DEF IsLatest
  <2>15. /\ \A r \in Seqs : written[r].type = "tool.result" =>
              /\ written[r].of \in Called' /\ calls'[written[r].of].seq # 0
              /\ written[r].causes = {calls'[written[r].of].seq}
         /\ \A s \in Seqs : written[s].type = "model.request" =>
              LET by == written[s].of[2]
              IN by # 0 => by \in Called' /\ calls'[by].seq # 0
    BY <1>3, <1>4, <2>5
  <2>16. \A q \in 1..(k + 1) : /\ IsLatest(ended'[q].by, OpenAt(q)')
                               /\ Carries(ended'[q]) \subseteq KnownAt(q)'
    BY <1>6, <2>12, <2>13, <2>14
  <2> QED
    BY <1>1, <1>5, <1>6, <2>9, <2>10, <2>11, <2>15, <2>16 DEF DelegateBooks
<1> QED
  BY <1>11, <1>12, <1>13, <1>14, <1>15, <1>16 DEF GraphBooks

-----------------------------------------------------------------------------
(* What a step leaves of the books: those of the recorder, which appends.  *)

Grows ==
  /\ written' \in Seq(EntrySet) /\ Len(written) <= Len(written')
  /\ \A s \in Seqs : written'[s] = written[s]
Grown == (Len(written) + 1)..Len(written')

LEMMA GrowsIs ==
  ASSUME GraphTypes, Grows
  PROVE  /\ Len(written) \in Nat /\ Len(written') \in Nat /\ Seqs = 1..Len(written)
         /\ Seqs' = 1..Len(written') /\ Seqs \subseteq Seqs' /\ Grown \subseteq Seqs'
         /\ \A s \in Seqs' : s \in Seqs \/ s \in Grown
         /\ \A s \in Seqs, r \in Grown : s < r /\ r # s
BY Members DEF Seqs, Grows, Grown

LEMMA EnclosingStays ==
  ASSUME GraphTypes, Grows, NEW s \in Seqs
  PROVE  EnclosingDelegation(s)' = EnclosingDelegation(s)
<1>1. /\ s \in Nat /\ 1..s \subseteq Seqs /\ Seqs \subseteq Seqs'
      /\ (\A r \in Seqs' : r \in Seqs \/ r >= s) /\ (\A x \in Seqs : written'[x] = written[x])
  BY GrowsIs DEF Grows, Grown
<1>2. Delegations(s)' = Delegations(s)
  BY <1>1 DEF Delegations
<1>3. \A x : StillOpen(x, s)' <=> StillOpen(x, s)
  BY <1>1 DEF StillOpen
<1>4. PICK S : S = {x \in Delegations(s) : StillOpen(x, s)}
  OBVIOUS
<1>5. S = {x \in Delegations(s) : StillOpen(x, s)}'
  BY <1>2, <1>3, <1>4
<1> DEFINE last == IF S = {} THEN 0 ELSE CHOOSE x \in S : \A r \in S : r <= x
<1>6. EnclosingDelegation(s) = last
  BY <1>4 DEF EnclosingDelegation
<1>7. EnclosingDelegation(s)' = last
  BY <1>5 DEF EnclosingDelegation
<1> QED
  BY ONLY <1>6, <1>7

\* A step that writes of effects alone.
LEMMA EffectsLeave ==
  ASSUME GraphBooks, Grows, UNCHANGED <<talks, calls, ended, turnNow, lost>>,
         \A s \in Grown : written'[s].type \in {"fs.change", "shell.exec", "shell.result"}
  PROVE  /\ Stack' /\ CallBooks' /\ DelegateBooks' /\ NamesTheDelegate'
         /\ Called' = Called
         /\ \A c : /\ IsDelegate(c)' <=> IsDelegate(c)
                   /\ Ran(c)' <=> Ran(c)
                   /\ \A t : InTurn(c, t)' <=> InTurn(c, t)
<1>1. /\ Seqs \subseteq Seqs' /\ Grown \subseteq Seqs' /\ \A s \in Seqs' : s \in Seqs \/ s \in Grown
  BY GrowsIs DEF GraphBooks
<1>2. \A s \in Seqs : written'[s] = written[s]
  BY DEF Grows
<1>3. /\ Called' = Called
      /\ \A c : /\ IsDelegate(c)' <=> IsDelegate(c)
                /\ Ran(c)' <=> Ran(c)
                /\ \A t : InTurn(c, t)' <=> InTurn(c, t)
  BY DEF Called, IsDelegate, Ran, InTurn
<1>4. Stack'
  BY <1>3 DEF GraphBooks, Stack
<1>5. \A s \in Grown : written'[s].type \notin {"tool.call", "tool.result", "model.request"}
  OBVIOUS
<1>6. CallBooks'
  <2>1. \A s, c : IsCall(s, c)' <=> IsCall(s, c)
    BY <1>1, <1>2, <1>5 DEF IsCall
  <2>2. \A s \in Seqs' : written'[s].type = "tool.call" => s \in Seqs /\ written'[s] = written[s]
    BY <1>1, <1>2, <1>5
  <2>3. \A c : IsCall(calls[c].seq, c) => written'[calls[c].seq] = written[calls[c].seq]
    BY <1>2 DEF IsCall
  <2> QED
    BY <1>3, <2>1, <2>2, <2>3 DEF GraphBooks, CallBooks
<1>7. DelegateBooks'
  <2>1. \A s \in Seqs' : written'[s].type \in {"tool.result", "model.request"} =>
          s \in Seqs /\ written'[s] = written[s]
    BY <1>1, <1>2, <1>5
  <2>2. Results' = Results
    BY <1>1, <1>2, <2>1 DEF Results
  <2>3. \A q : /\ ReturnedAt(q)' = ReturnedAt(q) /\ KnownAt(q)' = KnownAt(q) /\ OpenAt(q)' = OpenAt(q)
               /\ Carries(ended[q])' = Carries(ended[q])
    BY <1>3, <2>2 DEF ReturnedAt, KnownAt, OpenAt, Carries
  <2> SUFFICES ASSUME lost = 0 PROVE DelegateBooks'
    BY DEF DelegateBooks
  <2>4. /\ \A r \in Seqs' : written'[r].type = "tool.result" =>
             /\ written'[r].of \in Called /\ calls[written'[r].of].seq # 0
             /\ written'[r].causes = {calls[written'[r].of].seq}
        /\ \A s \in Seqs' : written'[s].type = "model.request" =>
             LET by == written'[s].of[2]
             IN by # 0 => by \in Called /\ calls[by].seq # 0
    BY <2>1 DEF GraphBooks, DelegateBooks
  <2> QED
    BY <1>3, <2>3, <2>4 DEF GraphBooks, DelegateBooks
<1>8. NamesTheDelegate'
  <2> SUFFICES ASSUME lost = 0, NEW s \in Seqs', written'[s].type = "model.request"
               PROVE  EnclosingDelegation(s)' = IF written'[s].of[2] = 0 THEN 0 ELSE calls[written'[s].of[2]].seq
    BY DEF NamesTheDelegate
  <2>1. s \in Seqs /\ written'[s] = written[s]
    BY <1>1, <1>2, <1>5
  <2>2. EnclosingDelegation(s)' = EnclosingDelegation(s)
    BY <2>1, EnclosingStays DEF GraphBooks
  <2> QED
    BY <2>1, <2>2 DEF GraphBooks, NamesTheDelegate
<1> QED
  BY <1>3, <1>4, <1>6, <1>7, <1>8

LEMMA LooksIs ==
  ASSUME GraphTypes, Looks
  PROVE  /\ Grows /\ looking' = FALSE /\ dirty' = [p \in Changed |-> 0]
         /\ UNCHANGED <<talks, calls, ended, turnNow, frames, lost>>
         /\ \A s \in Grown :
              /\ written'[s].type = "fs.change" /\ written'[s].turn = turnNow
              /\ written'[s].causes = {}
              /\ \E p \in Changed : /\ dirty[p] # 0 /\ written'[s].what = p
                                    /\ written'[s].of = dirty[p]
<1>1. PICK d, w : d = Cardinality(Dirty) /\ w = Len(written)
  OBVIOUS
<1>2. d \in Nat /\ w \in Nat /\ written \in Seq(EntrySet) /\ turnNow \in Nat /\ dirty \in [Changed -> Nat]
  <2>1. IsFiniteSet(Dirty)
    BY CausalGraphAssumption, FS_Subset DEF Dirty
  <2> QED
    BY <1>1, <2>1, FS_CardinalityType DEF GraphTypes
<1>3. PICK order \in [1..d -> Dirty] :
         written' = written \o [i \in DOMAIN order |->
                       Entry("fs.change", turnNow, {}, order[i], dirty[order[i]])]
  BY <1>1 DEF Looks
<1> DEFINE e(i) == Entry("fs.change", turnNow, {}, order[i], dirty[order[i]])
<1>4. ASSUME NEW i \in 1..d
      PROVE  /\ e(i) \in EntrySet /\ e(i).type = "fs.change" /\ e(i).turn = turnNow /\ e(i).causes = {}
             /\ \E p \in Changed : dirty[p] # 0 /\ e(i).what = p /\ e(i).of = dirty[p]
  <2>1. order[i] \in Changed /\ dirty[order[i]] # 0 /\ dirty[order[i]] \in Nat
    BY <1>2 DEF Dirty
  <2>2. order[i] \in Whats
    BY <2>1 DEF Whats
  <2> QED
    BY <1>2, <2>1, <2>2 DEF Entry, EntrySet, Types
<1> HIDE DEF e
<1>5. PICK f : f = [i \in 1..d |-> e(i)]
  OBVIOUS
<1>6. written' = written \o f
  BY <1>3, <1>5 DEF e
<1>7. f \in [1..d -> EntrySet] /\ \A i \in 1..d : f[i] = e(i)
  BY <1>4, <1>5
<1>8. f \in Seq(EntrySet) /\ Len(f) = d
  BY <1>2, <1>7, ListIs
<1>9. f \in Seq(EntrySet)
  BY <1>8
<1>10. /\ written \o f \in Seq(EntrySet) /\ Len(written \o f) = Len(written) + Len(f)
       /\ \A i \in 1..Len(written) : (written \o f)[i] = written[i]
  BY ONLY <1>2, <1>9, ConcatIs
<1>11. \A j \in 1..Len(f) : (written \o f)[Len(written) + j] = f[j]
  BY ONLY <1>2, <1>9, ConcatIs
<1>12. \A j \in 1..d : written'[w + j] = e(j)
  BY ONLY <1>1, <1>6, <1>7, <1>8, <1>11
<1>13. written' \in Seq(EntrySet) /\ Len(written') = w + d /\ \A i \in 1..w : written'[i] = written[i]
  BY <1>1, <1>6, <1>8, <1>10
<1>14. Grows
  BY <1>1, <1>2, <1>13 DEF Grows, Seqs
<1>15. \A s \in Grown : \E j \in 1..d : s = w + j
  <2>1. \A s \in (w + 1)..(w + d) : s - w \in 1..d /\ s = w + (s - w)
    BY <1>2
  <2>2. Grown = (w + 1)..(w + d)
    BY <1>1, <1>13 DEF Grown
  <2> QED
    BY <2>1, <2>2
<1>16. ASSUME NEW s \in Grown
       PROVE  /\ written'[s].type = "fs.change" /\ written'[s].turn = turnNow
              /\ written'[s].causes = {}
              /\ \E p \in Changed : dirty[p] # 0 /\ written'[s].what = p /\ written'[s].of = dirty[p]
  <2>1. PICK j \in 1..d : written'[s] = e(j)
    BY <1>12, <1>15
  <2> QED
    BY <1>4, <2>1
<1>17. /\ looking' = FALSE /\ dirty' = [p \in Changed |-> 0]
       /\ UNCHANGED <<talks, calls, ended, turnNow, frames, lost>>
  BY DEF Looks
<1> QED
  BY <1>14, <1>16, <1>17

\* The seq of a call that was written first is of what was written before.
LEMMA InTurnIsBefore ==
  ASSUME GraphBooks, Grows, NEW c \in Called, NEW t, InTurn(c, t), ~ calls[c].early, NEW s \in Grown
  PROVE  calls[c].seq < s
<1>1. calls[c].seq \in Seqs
  BY DEF InTurn, GraphBooks, CallBooks, IsCall
<1> QED
  BY <1>1, GrowsIs DEF GraphBooks

LEMMA LooksBooks ==
  ASSUME GraphBooks, Looks
  PROVE  GraphBooks'
<1>1. /\ Grows /\ looking' = FALSE /\ dirty' = [p \in Changed |-> 0]
      /\ UNCHANGED <<talks, calls, ended, turnNow, frames, lost>>
      /\ \A s \in Grown :
           /\ written'[s].type = "fs.change" /\ written'[s].turn = turnNow
           /\ written'[s].causes = {}
           /\ \E p \in Changed : dirty[p] # 0 /\ written'[s].what = p /\ written'[s].of = dirty[p]
  BY LooksIs DEF GraphBooks
<1>2. /\ Seqs \subseteq Seqs' /\ (\A s \in Seqs' : s \in Seqs \/ s \in Grown)
      /\ (\A s \in Seqs : written'[s] = written[s])
  BY <1>1, GrowsIs DEF GraphBooks, Grows
<1>3. /\ Stack' /\ CallBooks' /\ DelegateBooks' /\ NamesTheDelegate' /\ Called' = Called
      /\ \A c : /\ IsDelegate(c)' <=> IsDelegate(c)
                /\ Ran(c)' <=> Ran(c)
                /\ \A t : InTurn(c, t)' <=> InTurn(c, t)
  BY <1>1, EffectsLeave
<1>4. GraphTypes'
  <2>1. \A s \in Seqs' : written'[s].causes \subseteq 1..(s - 1)
    BY <1>1, <1>2 DEF GraphBooks, GraphTypes
  <2>2. \A q : Carries(ended[q])' = Carries(ended[q])
    BY <1>1 DEF Carries
  <2>3. written' \in Seq(EntrySet) /\ looking' \in BOOLEAN /\ dirty' \in [Changed -> Nat]
    BY <1>1 DEF Grows
  <2> QED
    BY <1>1, <1>3, <2>1, <2>2, <2>3 DEF GraphBooks, GraphTypes
<1>5. EffectBooks'
  <2>t. PICK t : t = turnNow
    OBVIOUS
  <2>1. \A e \in Effects' : \A d, u : d = written'[e].of /\ u = written'[e].turn =>
          /\ Ran(d) /\ written'[e].what = calls[d].what
          /\ (lost = 0 => InTurn(d, u) /\ (~ calls[d].early => calls[d].seq < e))
    <3>1. ASSUME NEW e \in Effects', e \in Seqs, NEW d, d = written'[e].of, NEW u, u = written'[e].turn
          PROVE  /\ Ran(d) /\ written'[e].what = calls[d].what
                 /\ (lost = 0 => InTurn(d, u) /\ (~ calls[d].early => calls[d].seq < e))
      <4>1. e \in Effects /\ written'[e] = written[e]
        BY <1>2, <3>1 DEF Effects
      <4> QED
        BY <3>1, <4>1 DEF GraphBooks, EffectBooks
    <3>2. ASSUME NEW e \in Grown, NEW d, d = written'[e].of, NEW u, u = written'[e].turn
          PROVE  /\ Ran(d) /\ written'[e].what = calls[d].what
                 /\ (lost = 0 => InTurn(d, u) /\ (~ calls[d].early => calls[d].seq < e))
      <4>1. PICK p \in Changed : dirty[p] # 0 /\ written'[e].what = p /\ d = dirty[p]
        BY <1>1, <3>2
      <4>2. Ran(d) /\ calls[d].what = p /\ (lost = 0 => InTurn(d, turnNow))
        BY <4>1 DEF GraphBooks, EffectBooks
      <4>3. d \in Called /\ u = turnNow
        BY <1>1, <3>2, <4>2 DEF Ran
      <4>4. lost = 0 /\ ~ calls[d].early => calls[d].seq < e
        BY <1>1, <4>2, <4>3, InTurnIsBefore
      <4> QED
        BY <4>1, <4>2, <4>3, <4>4
    <3>3. \A e \in Effects' : e \in Seqs \/ e \in Grown
      BY <1>2 DEF Effects
    <3> QED
      BY <3>1, <3>2, <3>3
  <2>2. \A p \in Changed : dirty'[p] = 0
    BY <1>1
  <2>3. \A i \in 1..Len(talks) : i = Len(talks) => \A c \in talks[i].open : ~ IsDelegate(c) =>
          IF ended = << >> THEN calls[c].seq # 0 => calls[c].turn = turnNow ELSE c \in Last(ended).brings
    BY DEF GraphBooks, EffectBooks
  <2>4. \A i \in 1..Len(frames) :
          /\ Ran(frames[i].call) /\ frames[i].what = calls[frames[i].call].what
          /\ InTurn(frames[i].call, frames[i].at)
    BY DEF GraphBooks, EffectBooks
  <2> QED
    BY <1>1, <1>3, <2>1, <2>2, <2>3, <2>4 DEF EffectBooks
<1> QED
  BY <1>3, <1>4, <1>5 DEF GraphBooks

LEMMA DrainsIs ==
  ASSUME GraphTypes, Drains
  PROVE  /\ Grows /\ talks = << >> /\ ended = << >> /\ 1 \in 1..Len(frames)
         /\ frames' \in Seq(FrameSet)
         /\ (\A i \in 1..Len(frames') : \E j \in 1..Len(frames) : frames'[i] = frames[j])
         /\ UNCHANGED <<talks, calls, ended, turnNow, looking, dirty, lost>>
         /\ \A s \in Grown :
              /\ written'[s].type \in {"shell.exec", "shell.result"}
              /\ written'[s].causes \subseteq 1..(s - 1)
              /\ written'[s].type = "shell.exec" =>
                   /\ written'[s].turn = frames[1].at /\ written'[s].what = frames[1].what
                   /\ written'[s].of = frames[1].call
<1>1. PICK w, f : w = Len(written) /\ f = frames[1]
  OBVIOUS
<1>2. /\ talks = << >> /\ ended = << >> /\ frames # << >> /\ frames' = Tail(frames)
      /\ UNCHANGED <<talks, calls, ended, turnNow, looking, dirty, lost>>
      /\ written' = written \o <<Entry("shell.exec", f.at, {}, f.what, f.call),
                                 Entry("shell.result", f.at, {w + 1}, "", f.call)>>
  <2>1. frames \in Seq(FrameSet) /\ frames # << >>
    BY DEF GraphTypes, Drains
  <2>2. Head(frames) = f
    BY <1>1, <2>1
  <2>3. /\ talks = << >> /\ ended = << >> /\ frames' = Tail(frames)
        /\ UNCHANGED <<talks, calls, ended, turnNow, looking, dirty, lost>>
        /\ written' = written \o
             <<Entry("shell.exec", Head(frames).at, {}, Head(frames).what, Head(frames).call),
               Entry("shell.result", Head(frames).at, {Len(written) + 1}, "", Head(frames).call)>>
    BY DEF Drains, TurnAt
  <2> QED
    BY <1>1, <2>1, <2>2, <2>3, Zenon
<1>3. PICK e, r : /\ e = Entry("shell.exec", f.at, {}, f.what, f.call)
                  /\ r = Entry("shell.result", f.at, {w + 1}, "", f.call)
  OBVIOUS
<1>4. /\ frames \in Seq(FrameSet) /\ written \in Seq(EntrySet) /\ w \in Nat /\ 1 \in 1..Len(frames)
      /\ f \in FrameSet
  <2>1. frames \in Seq(FrameSet) /\ written \in Seq(EntrySet) /\ w \in Nat
    BY <1>1, Members DEF GraphTypes
  <2>2. Len(frames) \in Nat /\ Len(frames) # 0
    <3>1. frames # << >>
      BY <1>2
    <3> QED
      BY ONLY <2>1, <3>1, EmptySeq
  <2>3. 1 \in 1..Len(frames)
    BY <2>2
  <2> QED
    BY <1>1, <2>1, <2>3, Members
<1>5. e \in EntrySet /\ r \in EntrySet
  <2>1. f.at \in Nat /\ f.what \in Whats /\ f.call \in Nat /\ {w + 1} \in SUBSET Nat
    BY <1>4 DEF FrameSet
  <2> QED
    BY <1>3, <2>1 DEF Entry, EntrySet, Types
<1>6. /\ e.type = "shell.exec" /\ e.causes = {} /\ e.turn = f.at /\ e.what = f.what /\ e.of = f.call
      /\ r.type = "shell.result" /\ r.causes = {w + 1}
  BY <1>3 DEF Entry
<1>7. PICK b : b = <<e, r>>
  OBVIOUS
<1>8. b \in Seq(EntrySet) /\ Len(b) = 2 /\ b[1] = e /\ b[2] = r
  BY <1>5, <1>7
<1>9. b \in Seq(EntrySet)
  BY <1>8
<1>10. /\ written \o b \in Seq(EntrySet) /\ Len(written \o b) = Len(written) + Len(b)
       /\ \A i \in 1..Len(written) : (written \o b)[i] = written[i]
  BY ONLY <1>4, <1>9, ConcatIs
<1>11. \A j \in 1..Len(b) : (written \o b)[Len(written) + j] = b[j]
  BY ONLY <1>4, <1>9, ConcatIs
<1>12. written' = written \o b
  BY <1>2, <1>3, <1>7
<1>13. \A j \in 1..2 : written'[w + j] = b[j]
  BY ONLY <1>1, <1>8, <1>11, <1>12
<1>14. /\ written' \in Seq(EntrySet) /\ Len(written') = w + 2
       /\ (\A i \in 1..w : written'[i] = written[i])
       /\ written'[w + 1] = e /\ written'[w + 2] = r
  BY <1>1, <1>8, <1>10, <1>12, <1>13
<1>15. Grows
  BY <1>1, <1>4, <1>14 DEF Grows, Seqs
<1>16. \A s \in Grown : s = w + 1 \/ s = w + 2
  BY <1>1, <1>4, <1>14 DEF Grown
<1>17. ASSUME NEW s \in Grown
       PROVE  /\ written'[s].type \in {"shell.exec", "shell.result"}
              /\ written'[s].causes \subseteq 1..(s - 1)
              /\ written'[s].type = "shell.exec" =>
                   written'[s].turn = f.at /\ written'[s].what = f.what /\ written'[s].of = f.call
  BY <1>4, <1>6, <1>14, <1>16
<1>18. /\ frames' \in Seq(FrameSet)
       /\ (\A i \in 1..Len(frames') : \E j \in 1..Len(frames) : frames'[i] = frames[j])
  <2>1. frames' \in Seq(FrameSet) /\ Len(frames') = Len(frames) - 1
        /\ \A i \in 1..(Len(frames) - 1) : frames'[i] = frames[i + 1]
    <3>1. frames \in Seq(FrameSet) /\ frames # << >> /\ frames' = Tail(frames)
      BY <1>2, <1>4
    <3> QED
      BY ONLY <3>1
  <2>2. \A i \in 1..(Len(frames) - 1) : i + 1 \in 1..Len(frames)
    BY <1>4
  <2> QED
    BY <2>1, <2>2
<1> QED
  BY <1>1, <1>2, <1>4, <1>15, <1>17, <1>18

LEMMA DrainsBooks ==
  ASSUME GraphBooks, Drains
  PROVE  GraphBooks'
<1>1. PICK f : f = frames[1]
  OBVIOUS
<1>2. /\ Grows /\ talks = << >> /\ ended = << >> /\ 1 \in 1..Len(frames)
      /\ frames' \in Seq(FrameSet)
      /\ (\A i \in 1..Len(frames') : \E j \in 1..Len(frames) : frames'[i] = frames[j])
      /\ UNCHANGED <<talks, calls, ended, turnNow, looking, dirty, lost>>
      /\ \A s \in Grown :
           /\ written'[s].type \in {"shell.exec", "shell.result"}
           /\ written'[s].causes \subseteq 1..(s - 1)
           /\ written'[s].type = "shell.exec" =>
                written'[s].turn = f.at /\ written'[s].what = f.what /\ written'[s].of = f.call
  BY <1>1, DrainsIs DEF GraphBooks
<1>3. /\ Seqs \subseteq Seqs' /\ (\A s \in Seqs' : s \in Seqs \/ s \in Grown)
      /\ (\A s \in Seqs : written'[s] = written[s])
  BY <1>2, GrowsIs DEF GraphBooks, Grows
<1>4. /\ Stack' /\ CallBooks' /\ DelegateBooks' /\ NamesTheDelegate' /\ Called' = Called
      /\ \A c : /\ IsDelegate(c)' <=> IsDelegate(c)
                /\ Ran(c)' <=> Ran(c)
                /\ \A t : InTurn(c, t)' <=> InTurn(c, t)
  BY <1>2, EffectsLeave
<1>5. GraphTypes'
  <2>1. \A s \in Seqs' : written'[s].causes \subseteq 1..(s - 1)
    BY <1>2, <1>3 DEF GraphBooks, GraphTypes
  <2>2. \A q : Carries(ended[q])' = Carries(ended[q])
    BY <1>2 DEF Carries
  <2>3. written' \in Seq(EntrySet)
    BY <1>2 DEF Grows
  <2> QED
    BY <1>2, <1>4, <2>1, <2>2, <2>3 DEF GraphBooks, GraphTypes
<1>6. EffectBooks'
  <2>1. \A e \in Effects' : \A d, u : d = written'[e].of /\ u = written'[e].turn =>
          /\ Ran(d) /\ written'[e].what = calls[d].what
          /\ (lost = 0 => InTurn(d, u) /\ (~ calls[d].early => calls[d].seq < e))
    <3>1. ASSUME NEW e \in Effects', e \in Seqs, NEW d, d = written'[e].of, NEW u, u = written'[e].turn
          PROVE  /\ Ran(d) /\ written'[e].what = calls[d].what
                 /\ (lost = 0 => InTurn(d, u) /\ (~ calls[d].early => calls[d].seq < e))
      <4>1. e \in Effects /\ written'[e] = written[e]
        BY <1>3, <3>1 DEF Effects
      <4> QED
        BY <3>1, <4>1 DEF GraphBooks, EffectBooks
    <3>2. ASSUME NEW e \in Effects', e \in Grown, NEW d, d = written'[e].of, NEW u, u = written'[e].turn
          PROVE  /\ Ran(d) /\ written'[e].what = calls[d].what
                 /\ (lost = 0 => InTurn(d, u) /\ (~ calls[d].early => calls[d].seq < e))
      <4>1. written'[e].type = "shell.exec"
        BY <1>2, <3>2 DEF Effects
      <4>2. d = f.call /\ u = f.at /\ written'[e].what = f.what
        BY <1>2, <3>2, <4>1
      <4>3. Ran(d) /\ f.what = calls[d].what /\ InTurn(d, u)
        BY <1>1, <1>2, <4>2 DEF GraphBooks, EffectBooks
      <4>4. ~ calls[d].early => calls[d].seq < e
        BY <1>2, <3>2, <4>3, InTurnIsBefore DEF Ran
      <4> QED
        BY <4>2, <4>3, <4>4
    <3>3. \A e \in Effects' : e \in Seqs \/ e \in Grown
      BY <1>3 DEF Effects
    <3> QED
      BY <3>1, <3>2, <3>3
  <2>2. \A p \in Changed : dirty[p] # 0 =>
          /\ Ran(dirty[p]) /\ calls[dirty[p]].what = p
          /\ (lost = 0 => InTurn(dirty[p], turnNow) /\ (~ looking => InTurn(dirty[p], turnNow + 1)))
    BY DEF GraphBooks, EffectBooks
  <2>3. \A i \in 1..Len(talks) : i # Len(talks) \/ \A c \in talks[i].open : FALSE
    BY <1>2
  <2>4. \A i \in 1..Len(frames') : \A d, u : d = frames'[i].call /\ u = frames'[i].at =>
          Ran(d) /\ frames'[i].what = calls[d].what /\ InTurn(d, u)
    <3>1. \A j \in 1..Len(frames) : \A d, u : d = frames[j].call /\ u = frames[j].at =>
            Ran(d) /\ frames[j].what = calls[d].what /\ InTurn(d, u)
      BY DEF GraphBooks, EffectBooks
    <3> QED
      BY <1>2, <3>1
  <2> QED
    BY <1>2, <1>4, <2>1, <2>2, <2>3, <2>4 DEF EffectBooks
<1> QED
  BY <1>4, <1>5, <1>6 DEF GraphBooks

\* The recorder looks at the workspace after it wrote all of the task; else it lost some.
IsWhole(kept, n) == (looking' <=> kept = n) /\ (lost' = 0 => lost = 0 /\ kept = n)

LEMMA FirstIs ==
  ASSUME GraphTypes, NEW kept \in Nat, Writes(kept), NEW x, x = ended[1]
  PROVE  x \in EndedSet /\ IsFiniteSet(x.brings) /\ x.brings \subseteq Called /\ Carries(x) \subseteq Called
<1>1. ended \in Seq(EndedSet) /\ ended # << >>
  BY DEF GraphTypes, Writes
<1>2. Len(ended) \in Nat /\ Len(ended) # 0
  BY ONLY <1>1, EmptySeq
<1>3. 1 \in 1..Len(ended)
  BY <1>2
<1> QED
  BY <1>3, Members DEF GraphTypes

LEMMA WritesIs ==
  ASSUME GraphTypes, NEW kept \in Nat, Writes(kept), NEW x, x = ended[1],
         NEW k, k = Len(x.carries), NEW m, m = Cardinality(x.brings), NEW w, w = Len(written)
  PROVE  /\ Len(ended) \in Nat \ {0} /\ 1 \in 1..Len(ended) /\ ~ looking
         /\ x \in EndedSet /\ IsFiniteSet(x.brings) /\ x.brings \subseteq Called /\ Carries(x) \subseteq Called
         /\ k \in Nat /\ m \in Nat /\ w \in Nat /\ kept <= k + 2 + m
         /\ ended' \in Seq(EndedSet) /\ Len(ended') = Len(ended) - 1
         /\ (\A q \in 1..(Len(ended) - 1) : ended'[q] = ended[q + 1])
         /\ UNCHANGED <<talks, dirty, frames>> /\ turnNow' = turnNow + 1
         /\ IsWhole(kept, k + 2 + m) /\ looking' \in BOOLEAN
         /\ lost' \in Nat
         /\ Len(Derived(x, turnNow + 1)) = k + 2 + m
         /\ written' = written \o SubSeq(Derived(x, turnNow + 1), 1, kept)
<1>1. ended \in Seq(EndedSet) /\ ended # << >> /\ ~ looking /\ ended' = Tail(ended)
  BY DEF GraphTypes, Writes
<1>2. Head(ended) = x /\ Len(ended) \in Nat /\ Len(ended) # 0
  BY ONLY <1>1, x = ended[1], EmptySeq
<1>3. /\ ended' \in Seq(EndedSet) /\ Len(ended') = Len(ended) - 1
      /\ (\A q \in 1..(Len(ended) - 1) : ended'[q] = ended[q + 1])
  BY ONLY <1>1
<1>4. Len(ended) \in Nat \ {0} /\ 1 \in 1..Len(ended)
  BY <1>2
<1>5. x \in EndedSet /\ IsFiniteSet(x.brings) /\ x.brings \subseteq Called /\ Carries(x) \subseteq Called
  BY <1>4, Members DEF GraphTypes
<1>6. turnNow \in Nat /\ turnNow + 1 \in Nat /\ lost \in Nat
  BY DEF GraphTypes
<1>7. k \in Nat /\ m \in Nat /\ w \in Nat
  BY <1>5, NewsAre, Members
<1>8. PICK batch : batch = Derived(x, turnNow + 1)
  OBVIOUS
<1>9. Len(batch) = k + 2 + m
  BY <1>5, <1>6, <1>8, DerivedIs DEF DerivedSize
<1>10. /\ kept <= Len(batch)
       /\ lost' = IF kept = Len(batch) THEN lost ELSE lost + 1
       /\ written' = written \o SubSeq(batch, 1, kept)
       /\ looking' = (kept = Len(batch))
       /\ turnNow' = turnNow + 1 /\ UNCHANGED <<talks, dirty, frames>>
  BY <1>2, <1>8 DEF Writes
<1>11. lost' \in Nat /\ (lost' = 0 => lost = 0 /\ kept = k + 2 + m)
  BY <1>6, <1>9, <1>10
<1>12. IsWhole(kept, k + 2 + m) /\ looking' \in BOOLEAN
  BY <1>9, <1>10, <1>11 DEF IsWhole
<1> QED
  BY <1>1, <1>3, <1>4, <1>5, <1>7, <1>8, <1>9, <1>10, <1>11, <1>12

\* The first kept of them are appended.
AppendsOf(batch, w, kept) == \A i \in 1..kept : written'[w + i] = batch[i]

LEMMA WritesEntries ==
  ASSUME GraphTypes, NEW kept \in Nat, Writes(kept), NEW x, x = ended[1],
         NEW k, k = Len(x.carries), NEW m, m = Cardinality(x.brings), NEW w, w = Len(written)
  PROVE  /\ Grows /\ Len(written') = w + kept
         /\ AppendsOf(Derived(x, turnNow + 1), w, kept)
<1>1. /\ w \in Nat /\ kept <= k + 2 + m /\ k \in Nat /\ m \in Nat /\ x \in EndedSet
      /\ IsFiniteSet(x.brings) /\ x.brings \subseteq Called /\ Carries(x) \subseteq Called
      /\ written' = written \o SubSeq(Derived(x, turnNow + 1), 1, kept)
  <2>1. kept <= k + 2 + m
    BY WritesIs
  <2>2. x \in EndedSet /\ IsFiniteSet(x.brings) /\ x.brings \subseteq Called /\ Carries(x) \subseteq Called
    BY FirstIs
  <2>3. written' = written \o SubSeq(Derived(x, turnNow + 1), 1, kept)
    BY WritesIs
  <2>4. w \in Nat /\ k \in Nat /\ m \in Nat
    BY <2>2, Members, NewsAre
  <2> QED
    BY <2>1, <2>2, <2>3, <2>4
<1>2. PICK t, batch : t = turnNow + 1 /\ batch = Derived(x, t)
  OBVIOUS
<1>3. t \in Nat /\ written \in Seq(EntrySet)
  BY <1>2 DEF GraphTypes
<1>4. batch \in Seq(EntrySet) /\ Len(batch) = k + 2 + m
  BY <1>1, <1>2, <1>3, DerivedIs DEF DerivedSize
<1>5. PICK f : f = SubSeq(batch, 1, kept)
  OBVIOUS
<1>6. f \in Seq(EntrySet) /\ Len(f) = kept /\ \A i \in 1..kept : f[i] = batch[i]
  <2>1. \A i \in 1..kept : i \in 1..Len(batch)
    BY <1>1, <1>4
  <2>2. \A i \in 1..kept : batch[i] \in EntrySet
    BY <1>4, <2>1
  <2>3. f = [i \in 1..kept |-> batch[i]]
    BY <1>1, <1>4, <1>5
  <2>4. f \in [1..kept -> EntrySet]
    BY <2>2, <2>3
  <2> QED
    BY <2>3, <2>4, ListIs
<1>7. f \in Seq(EntrySet)
  BY <1>6
<1>8. /\ written \o f \in Seq(EntrySet) /\ Len(written \o f) = Len(written) + Len(f)
      /\ \A i \in 1..Len(written) : (written \o f)[i] = written[i]
  BY ONLY <1>3, <1>7, ConcatIs
<1>9. \A j \in 1..Len(f) : (written \o f)[Len(written) + j] = f[j]
  BY ONLY <1>3, <1>7, ConcatIs
<1>10. written' = written \o f
  BY <1>1, <1>2, <1>5
<1>11. /\ written' \in Seq(EntrySet) /\ Len(written') = w + kept
       /\ \A i \in 1..w : written'[i] = written[i]
  BY <1>6, <1>8, <1>10
<1>12. Grows
  BY <1>1, <1>11 DEF Grows, Seqs
<1>13. AppendsOf(batch, w, kept)
  <2>1. \A i \in 1..kept : written'[w + i] = f[i]
    BY ONLY <1>6, <1>9, <1>10, w = Len(written)
  <2> QED
    BY <1>6, <2>1 DEF AppendsOf
<1> QED
  BY <1>2, <1>11, <1>12, <1>13

\* What of it is a call, and which.
CallsLast(batch, news, k, m) ==
  /\ \A i \in 1..(k + 2) : batch[i].type # "tool.call"
  /\ \A j \in 1..m : batch[k + 2 + j].type = "tool.call" /\ batch[k + 2 + j].of = news[j]
  /\ \A i \in 1..(k + 2 + m) : i \in 1..(k + 2) \/ \E j \in 1..m : i = k + 2 + j

LEMMA DerivedCalls ==
  ASSUME GraphTypes, NEW x \in EndedSet, IsFiniteSet(x.brings),
         x.brings \subseteq Called, Carries(x) \subseteq Called, NEW t \in Nat
  PROVE  CallsLast(Derived(x, t), News(x), Len(x.carries), Cardinality(x.brings))
<1>0. PICK k, m : k = Len(x.carries) /\ m = Cardinality(x.brings)
  OBVIOUS
<1>1. k \in Nat /\ m \in Nat
  BY <1>0, NewsAre
<1>2. PICK batch : batch = Derived(x, t)
  OBVIOUS
<1>3. /\ \A i \in 1..k : batch[i] = ResultOf(x, t, i)
      /\ batch[k + 1] = Entry("model.request", t, (Len(written) + 1)..(Len(written) + k), "", <<t, x.by>>)
      /\ batch[k + 2] = Entry("model.response", t, {Len(written) + k + 1}, "", <<t, x.by>>)
      /\ \A j \in 1..m : batch[k + 2 + j] = CallOf(x, t, j)
  BY <1>0, <1>2, DerivedIs
<1>4. /\ \A i : ResultOf(x, t, i).type = "tool.result"
      /\ batch[k + 1].type = "model.request" /\ batch[k + 2].type = "model.response"
      /\ \A j : CallOf(x, t, j).type = "tool.call" /\ CallOf(x, t, j).of = News(x)[j]
  <2>1. /\ \A i : ResultOf(x, t, i).type = "tool.result"
        /\ \A j : CallOf(x, t, j).type = "tool.call" /\ CallOf(x, t, j).of = News(x)[j]
    BY DEF ResultOf, CallOf, Entry
  <2>2. \A turn, causes, what, of : Entry("model.request", turn, causes, what, of).type = "model.request"
    BY DEF Entry
  <2>3. \A turn, causes, what, of : Entry("model.response", turn, causes, what, of).type = "model.response"
    BY DEF Entry
  <2>4. PICK c, d, of : /\ c = (Len(written) + 1)..(Len(written) + k) /\ d = {Len(written) + k + 1}
                        /\ of = <<t, x.by>>
    OBVIOUS
  <2>5. batch[k + 1] = Entry("model.request", t, c, "", of) /\ batch[k + 2] = Entry("model.response", t, d, "", of)
    BY ONLY <1>3, <2>4
  <2>6. batch[k + 1].type = "model.request" /\ batch[k + 2].type = "model.response"
    BY ONLY <2>2, <2>3, <2>5
  <2> QED
    BY <1>3, <2>1, <2>6
<1>5. \A i \in 1..(k + 2) : i \in 1..k \/ i = k + 1 \/ i = k + 2
  BY <1>1
<1>6. \A i \in 1..(k + 2) : batch[i].type # "tool.call"
  BY <1>3, <1>4, <1>5
<1>7. \A j \in 1..m : batch[k + 2 + j].type = "tool.call" /\ batch[k + 2 + j].of = News(x)[j]
  BY <1>3, <1>4
<1>8. ASSUME NEW i \in 1..(k + 2 + m), i \notin 1..(k + 2) PROVE \E j \in 1..m : i = k + 2 + j
  <2>1. PICK j : j = i - (k + 2)
    OBVIOUS
  <2>2. j \in 1..m /\ i = k + 2 + j
    BY ONLY <1>1, <1>8, <2>1
  <2> QED
    BY <2>2
<1> QED
  BY <1>0, <1>2, <1>6, <1>7, <1>8 DEF CallsLast

\* A call that is written gets its seq and its turn.
SeqsOf(x, k, m, w, kept) ==
  \A j \in 1..m :
    IF k + 2 + j <= kept
    THEN calls'[News(x)[j]].seq = w + (k + 2 + j) /\ calls'[News(x)[j]].turn = turnNow + 1
    ELSE calls'[News(x)[j]] = calls[News(x)[j]]

\* Every other stays as it is.
LEMMA WritesCalls ==
  ASSUME GraphTypes, NEW kept \in Nat, Writes(kept), NEW x, x = ended[1],
         NEW k, k = Len(x.carries), NEW m, m = Cardinality(x.brings), NEW w, w = Len(written)
  PROVE  /\ calls' \in Seq(CallSet) /\ Len(calls') = Len(calls) /\ Called' = Called
         /\ \A c \in Called : /\ calls'[c].does = calls[c].does /\ calls'[c].what = calls[c].what
                              /\ calls'[c].early = calls[c].early
         /\ \A c \in Called : c \notin x.brings => calls'[c] = calls[c]
         /\ SeqsOf(x, k, m, w, kept)
<1>1. 1 \in 1..Len(ended) /\ kept <= k + 2 + m
  BY WritesIs
<1>2. x \in EndedSet /\ IsFiniteSet(x.brings) /\ x.brings \subseteq Called /\ Carries(x) \subseteq Called
  BY FirstIs
<1>3. k \in Nat /\ m \in Nat /\ w \in Nat /\ turnNow + 1 \in Nat /\ calls \in Seq(CallSet) /\ turnNow \in Nat
  BY <1>2, Members, NewsAre DEF GraphTypes
<1>4. /\ \A j \in 1..m : News(x)[j] \in x.brings
      /\ \A c \in x.brings : \E j \in 1..m : News(x)[j] = c
      /\ \A i, j \in 1..m : i < j => News(x)[i] < News(x)[j]
  BY <1>2, NewsAre
<1>5. PICK t, batch : t = turnNow + 1 /\ batch = Derived(x, t)
  OBVIOUS
<1>6. PICK at :
        /\ at = [c \in DOMAIN calls |-> {i \in 1..kept :
                   /\ Derived(Head(ended), turnNow + 1)[i].type = "tool.call"
                   /\ Derived(Head(ended), turnNow + 1)[i].of = c}]
        /\ calls' = [c \in DOMAIN calls |->
                      IF at[c] = {} THEN calls[c]
                      ELSE [calls[c] EXCEPT !.seq = Len(written) + (CHOOSE i \in at[c] : TRUE),
                                            !.turn = turnNow + 1]]
  BY DEF Writes
<1>7. /\ at = [c \in DOMAIN calls |-> {i \in 1..kept : batch[i].type = "tool.call" /\ batch[i].of = c}]
      /\ calls' = [c \in DOMAIN calls |->
                    IF at[c] = {} THEN calls[c]
                    ELSE [calls[c] EXCEPT !.seq = w + (CHOOSE i \in at[c] : TRUE), !.turn = t]]
  <2>1. ended # << >> /\ ended \in Seq(EndedSet)
    BY DEF Writes, GraphTypes
  <2>2. Head(ended) = x
    BY ONLY <2>1, x = ended[1], EmptySeq
  <2>3. at = [c \in DOMAIN calls |-> {i \in 1..kept : batch[i].type = "tool.call" /\ batch[i].of = c}]
    BY <1>5, <1>6, <2>2
  <2>4. calls' = [c \in DOMAIN calls |->
                   IF at[c] = {} THEN calls[c]
                   ELSE [calls[c] EXCEPT !.seq = w + (CHOOSE i \in at[c] : TRUE), !.turn = t]]
    BY <1>5, <1>6
  <2> QED
    BY <2>3, <2>4
<1>8. /\ \A i \in 1..(k + 2) : batch[i].type # "tool.call"
      /\ \A j \in 1..m : batch[k + 2 + j].type = "tool.call" /\ batch[k + 2 + j].of = News(x)[j]
      /\ \A i \in 1..(k + 2 + m) : i \in 1..(k + 2) \/ \E j \in 1..m : i = k + 2 + j
  <2>1. t \in Nat
    BY <1>3, <1>5
  <2>2. CallsLast(Derived(x, t), News(x), Len(x.carries), Cardinality(x.brings))
    BY <1>2, <2>1, DerivedCalls
  <2>3. CallsLast(batch, News(x), k, m)
    BY <1>5, <2>2
  <2> QED
    BY <2>3 DEF CallsLast
<1>9. DOMAIN calls = Called /\ \A c \in Called : calls[c] \in CallSet
  BY Members
<1>10. \A i \in 1..kept : i \in 1..(k + 2 + m)
  BY <1>1, <1>3
<1>11. \A c \in Called : \A i \in at[c] : \E j \in 1..m : i = k + 2 + j /\ News(x)[j] = c
  <2> SUFFICES ASSUME NEW c \in Called, NEW i \in at[c]
               PROVE  \E j \in 1..m : i = k + 2 + j /\ News(x)[j] = c
    OBVIOUS
  <2>1. i \in 1..(k + 2 + m) /\ batch[i].type = "tool.call" /\ batch[i].of = c
    BY <1>7, <1>9, <1>10
  <2>2. PICK j \in 1..m : i = k + 2 + j
    BY <1>8, <2>1
  <2>3. batch[i].of = News(x)[j]
    BY <1>8, <2>2
  <2> QED
    BY <2>1, <2>2, <2>3
<1>12. ASSUME NEW j \in 1..m
       PROVE  at[News(x)[j]] = IF k + 2 + j <= kept THEN {k + 2 + j} ELSE {}
  <2>1. News(x)[j] \in Called
    BY <1>2, <1>4
  <2>2. \A i \in at[News(x)[j]] : i = k + 2 + j
    <3>1. ASSUME NEW i \in 1..m, News(x)[i] = News(x)[j] PROVE i = j
      <4>1. News(x)[i] \in Nat
        <5>1. News(x)[i] \in Called
          BY <1>2, <1>4
        <5>2. \A c \in Called : c \in Nat
          BY DEF Called
        <5> QED
          BY <5>1, <5>2
      <4>2. i < j \/ j < i \/ i = j
        OBVIOUS
      <4> QED
        BY <1>4, <3>1, <4>1, <4>2
    <3> QED
      BY <1>11, <2>1, <3>1
  <2>3. k + 2 + j \in at[News(x)[j]] <=> k + 2 + j \in 1..kept
    BY <1>7, <1>8, <1>9, <2>1
  <2>4. k + 2 + j \in 1..kept <=> k + 2 + j <= kept
    BY <1>3
  <2> QED
    BY <2>2, <2>3, <2>4
<1>13. \A c \in Called : at[c] \subseteq Nat
  <2>1. \A c \in Called : at[c] \subseteq 1..kept
    BY <1>7, <1>9
  <2> QED
    BY <2>1
<1>14. ASSUME NEW c \in Called
       PROVE  /\ calls'[c] \in CallSet
              /\ calls'[c].does = calls[c].does /\ calls'[c].what = calls[c].what
              /\ calls'[c].early = calls[c].early
              /\ at[c] = {} => calls'[c] = calls[c]
              /\ \A i : at[c] = {i} => calls'[c].seq = w + i /\ calls'[c].turn = t
  <2>1. CASE at[c] = {}
    BY <1>7, <1>9, <2>1
  <2>2. CASE at[c] # {}
    <3>1. PICK i : i = (CHOOSE j \in at[c] : TRUE)
      OBVIOUS
    <3>2. i \in at[c] /\ i \in Nat
      BY <1>13, <2>2, <3>1
    <3>3. calls'[c] = [calls[c] EXCEPT !.seq = w + i, !.turn = t]
      BY <1>7, <1>9, <2>2, <3>1
    <3>4. w + i \in Nat /\ t \in Nat
      BY <1>3, <1>5, <3>2
    <3>5. \A j : at[c] = {j} => i = j
      BY <3>2
    <3>6. calls[c] \in CallSet
      BY <1>9
    <3>7. /\ calls'[c] \in CallSet
          /\ calls'[c].does = calls[c].does /\ calls'[c].what = calls[c].what
          /\ calls'[c].early = calls[c].early /\ calls'[c].seq = w + i /\ calls'[c].turn = t
      BY ONLY <3>3, <3>4, <3>6 DEF CallSet
    <3> QED
      BY <2>2, <3>5, <3>7
  <2> QED
    BY <2>1, <2>2
<1>15. calls' \in [Called -> CallSet]
  BY <1>7, <1>9, <1>14
<1>16. calls' \in Seq(CallSet) /\ Len(calls') = Len(calls)
  <2>1. Called = 1..Len(calls) /\ Len(calls) \in Nat
    BY Members DEF Called
  <2> QED
    BY <1>15, <2>1, ListIs
<1>17. Called' = Called
  BY <1>16 DEF Called
<1>18. \A c \in Called : c \notin x.brings => calls'[c] = calls[c]
  BY <1>4, <1>11, <1>14
<1>19. ASSUME NEW j \in 1..m
       PROVE  IF k + 2 + j <= kept
              THEN calls'[News(x)[j]].seq = w + (k + 2 + j) /\ calls'[News(x)[j]].turn = turnNow + 1
              ELSE calls'[News(x)[j]] = calls[News(x)[j]]
  <2>1. News(x)[j] \in Called
    BY <1>2, <1>4
  <2> QED
    BY <1>5, <1>12, <1>14, <2>1
<1>20. SeqsOf(x, k, m, w, kept)
  BY <1>19, Zenon DEF SeqsOf
<1> QED
  BY <1>14, <1>16, <1>17, <1>18, <1>20

\* What the task appends, in its order.
AddsResults(x, k, w, kept) ==
  \A i \in 1..k : i <= kept =>
    /\ written'[w + i].type = "tool.result" /\ written'[w + i].of = x.carries[i]
    /\ written'[w + i].causes = {calls[x.carries[i]].seq} \ {0}
AddsRequest(x, k, w, kept) ==
  k + 1 <= kept => /\ written'[w + (k + 1)].type = "model.request"
                   /\ written'[w + (k + 1)].of[2] = x.by
                   /\ written'[w + (k + 1)].causes = (w + 1)..(w + k)
AddsResponse(k, w, kept) ==
  k + 2 <= kept => /\ written'[w + (k + 2)].type = "model.response"
                   /\ written'[w + (k + 2)].causes = {w + k + 1}
AddsCalls(x, k, m, w, kept) ==
  \A j \in 1..m : k + 2 + j <= kept =>
    /\ written'[w + (k + 2 + j)].type = "tool.call"
    /\ written'[w + (k + 2 + j)].of = News(x)[j]
    /\ written'[w + (k + 2 + j)].what = calls[News(x)[j]].what
    /\ written'[w + (k + 2 + j)].turn = turnNow + 1
    /\ written'[w + (k + 2 + j)].causes = {w + k + 2}

LEMMA WritesAdds ==
  ASSUME GraphTypes, NEW kept \in Nat, Writes(kept), NEW x, x = ended[1],
         NEW k, k = Len(x.carries), NEW m, m = Cardinality(x.brings), NEW w, w = Len(written)
  PROVE  /\ AddsResults(x, k, w, kept) /\ AddsRequest(x, k, w, kept) /\ AddsResponse(k, w, kept)
         /\ AddsCalls(x, k, m, w, kept)
<1>1. x \in EndedSet /\ IsFiniteSet(x.brings) /\ x.brings \subseteq Called /\ Carries(x) \subseteq Called
  BY FirstIs
<1>2. k \in Nat /\ m \in Nat /\ w \in Nat /\ turnNow + 1 \in Nat
  BY <1>1, Members, NewsAre DEF GraphTypes
<1>3. PICK t, batch : t = turnNow + 1 /\ batch = Derived(x, t)
  OBVIOUS
<1>4. \A i \in 1..kept : written'[w + i] = batch[i]
  <2>1. AppendsOf(Derived(x, turnNow + 1), w, kept)
    BY WritesEntries
  <2>2. AppendsOf(batch, w, kept)
    BY <1>3, <2>1
  <2> QED
    BY <2>2 DEF AppendsOf
<1>5. t \in Nat
  BY <1>2, <1>3
<1>6. /\ \A i \in 1..Len(x.carries) : batch[i] = ResultOf(x, t, i)
      /\ batch[Len(x.carries) + 1] =
           Entry("model.request", t, (Len(written) + 1)..(Len(written) + Len(x.carries)), "", <<t, x.by>>)
      /\ batch[Len(x.carries) + 2] =
           Entry("model.response", t, {Len(written) + Len(x.carries) + 1}, "", <<t, x.by>>)
      /\ \A j \in 1..Cardinality(x.brings) : batch[Len(x.carries) + 2 + j] = CallOf(x, t, j)
  BY <1>1, <1>3, <1>5, DerivedIs
<1>7. PICK a, b, of : a = (w + 1)..(w + k) /\ b = {w + k + 1} /\ of = <<t, x.by>>
  OBVIOUS
<1>8. of[2] = x.by
  BY ONLY <1>7
<1>9. /\ batch[k + 1] = Entry("model.request", t, a, "", of) /\ batch[k + 2] = Entry("model.response", t, b, "", of)
  BY ONLY <1>6, <1>7, k = Len(x.carries), w = Len(written)
<1>10. AddsResults(x, k, w, kept)
  <2> SUFFICES ASSUME NEW i \in 1..k, i <= kept
               PROVE  /\ written'[w + i].type = "tool.result" /\ written'[w + i].of = x.carries[i]
                      /\ written'[w + i].causes = {calls[x.carries[i]].seq} \ {0}
    BY DEF AddsResults
  <2>1. i \in 1..kept
    BY <1>2
  <2>2. PICK c, v : c = {calls[x.carries[i]].seq} \ {0} /\ v = x.carries[i]
    OBVIOUS
  <2>3. written'[w + i] = Entry("tool.result", t, c, "", v)
    BY <1>4, <1>6, <2>1, <2>2 DEF ResultOf
  <2>4. PICK e : e = written'[w + i]
    OBVIOUS
  <2>5. e = Entry("tool.result", t, c, "", v)
    BY <2>3, <2>4
  <2>6. e.type = "tool.result" /\ e.of = v /\ e.causes = c
    BY ONLY <2>5 DEF Entry
  <2> QED
    BY ONLY <2>2, <2>4, <2>6
<1>11. AddsRequest(x, k, w, kept)
  <2> SUFFICES ASSUME k + 1 <= kept
               PROVE  /\ written'[w + (k + 1)].type = "model.request"
                      /\ written'[w + (k + 1)].of[2] = x.by
                      /\ written'[w + (k + 1)].causes = (w + 1)..(w + k)
    BY DEF AddsRequest
  <2>1. k + 1 \in 1..kept
    BY <1>2
  <2>2. PICK e : e = written'[w + (k + 1)]
    OBVIOUS
  <2>3. e = Entry("model.request", t, a, "", of)
    BY <1>4, <1>9, <2>1, <2>2
  <2>4. e.type = "model.request" /\ e.of = of /\ e.causes = a
    BY ONLY <2>3 DEF Entry
  <2> QED
    BY ONLY <1>7, <1>8, <2>2, <2>4
<1>12. AddsResponse(k, w, kept)
  <2> SUFFICES ASSUME k + 2 <= kept
               PROVE  /\ written'[w + (k + 2)].type = "model.response"
                      /\ written'[w + (k + 2)].causes = {w + k + 1}
    BY DEF AddsResponse
  <2>1. k + 2 \in 1..kept
    BY <1>2
  <2>2. PICK e : e = written'[w + (k + 2)]
    OBVIOUS
  <2>3. e = Entry("model.response", t, b, "", of)
    BY <1>4, <1>9, <2>1, <2>2
  <2>4. e.type = "model.response" /\ e.causes = b
    BY ONLY <2>3 DEF Entry
  <2> QED
    BY ONLY <1>7, <2>2, <2>4
<1>13. AddsCalls(x, k, m, w, kept)
  <2> SUFFICES ASSUME NEW j \in 1..m, k + 2 + j <= kept
               PROVE  /\ written'[w + (k + 2 + j)].type = "tool.call"
                      /\ written'[w + (k + 2 + j)].of = News(x)[j]
                      /\ written'[w + (k + 2 + j)].what = calls[News(x)[j]].what
                      /\ written'[w + (k + 2 + j)].turn = turnNow + 1
                      /\ written'[w + (k + 2 + j)].causes = {w + k + 2}
    BY DEF AddsCalls
  <2>1. k + 2 + j \in 1..kept
    BY <1>2
  <2>2. PICK e, c, what, v : /\ e = written'[w + (k + 2 + j)] /\ c = {w + k + 2}
                             /\ what = calls[News(x)[j]].what /\ v = News(x)[j]
    OBVIOUS
  <2>3. batch[k + 2 + j] = CallOf(x, t, j)
    BY <1>6
  <2>4. CallOf(x, t, j) = Entry("tool.call", t, c, what, v)
    BY <2>2 DEF CallOf
  <2>5. e = Entry("tool.call", t, c, what, v)
    BY <1>4, <2>1, <2>2, <2>3, <2>4
  <2>6. e.type = "tool.call" /\ e.turn = t /\ e.causes = c /\ e.what = what /\ e.of = v
    BY ONLY <2>5 DEF Entry
  <2> QED
    BY ONLY <1>3, <2>2, <2>6
<1> QED
  BY <1>10, <1>11, <1>12, <1>13

\* What the task makes of the calls and of the trace, whatever number of its events
\* was kept.
WroteCalls(x) ==
  /\ calls' \in Seq(CallSet) /\ Called' = Called
  /\ \A c \in Called :
       /\ calls'[c].does = calls[c].does /\ calls'[c].what = calls[c].what
       /\ calls'[c].early = calls[c].early
       /\ \/ calls'[c] = calls[c]
          \/ /\ c \in x.brings /\ calls'[c].seq \in Grown /\ calls'[c].turn = turnNow + 1
             /\ written'[calls'[c].seq].type = "tool.call" /\ written'[calls'[c].seq].of = c
             /\ written'[calls'[c].seq].what = calls[c].what
             /\ written'[calls'[c].seq].turn = turnNow + 1
  /\ \A c, d \in x.brings : c < d /\ calls'[c].seq # 0 /\ calls'[d].seq # 0 => calls'[c].seq < calls'[d].seq
  /\ looking' => \A c \in x.brings : calls'[c].seq # 0
WroteEntries(x) ==
  /\ \A s \in Grown :
       /\ written'[s].causes \subseteq 1..(s - 1)
       /\ written'[s].type \in {"tool.result", "model.request", "model.response", "tool.call"}
       /\ written'[s].type = "tool.call" => /\ written'[s].of \in x.brings /\ calls'[written'[s].of].seq = s
       /\ written'[s].type = "tool.result" =>
            written'[s].of \in Carries(x) /\ written'[s].causes = {calls[written'[s].of].seq} \ {0}
       /\ written'[s].type = "model.request" =>
            /\ written'[s].of[2] = x.by
            /\ \A c \in Carries(x) : \E r \in Grown :
                 r < s /\ written'[r].type = "tool.result" /\ written'[r].of = c
            /\ \A r \in Grown : /\ written'[r].type = "tool.result" => r < s
                                /\ written'[r].type = "tool.call" => s < r
  /\ looking' => \A c \in Carries(x) : \E r \in Grown :
       written'[r].type = "tool.result" /\ written'[r].of = c

\* Where an event of the task stands in the trace.
Stands(s, k, m, w, kept) ==
  \/ \E i \in 1..k : i <= kept /\ s = w + i
  \/ k + 1 <= kept /\ s = w + (k + 1)
  \/ k + 2 <= kept /\ s = w + (k + 2)
  \/ \E j \in 1..m : k + 2 + j <= kept /\ s = w + (k + 2 + j)

LEMMA Placed ==
  ASSUME NEW k \in Nat, NEW m \in Nat, NEW w \in Nat, NEW kept \in Nat, kept <= k + 2 + m,
         NEW s \in (w + 1)..(w + kept)
  PROVE  Stands(s, k, m, w, kept)
<1>1. PICK i : i = s - w
  OBVIOUS
<1>2. i \in 1..kept /\ s = w + i /\ i \in Nat
  BY <1>1
<1>3. CASE i <= k
  <2>1. i \in 1..k /\ i <= kept
    BY <1>2, <1>3
  <2> QED
    BY <1>2, <2>1 DEF Stands
<1>4. CASE i = k + 1
  BY <1>2, <1>4 DEF Stands
<1>5. CASE i = k + 2
  BY <1>2, <1>5 DEF Stands
<1>6. CASE i > k + 2
  <2>1. PICK j : j = i - (k + 2)
    OBVIOUS
  <2>2. j \in 1..m /\ k + 2 + j <= kept /\ s = w + (k + 2 + j)
    BY <1>2, <1>6, <2>1
  <2> QED
    BY <2>2 DEF Stands
<1> QED
  BY <1>2, <1>3, <1>4, <1>5, <1>6

LEMMA WritesGrown ==
  ASSUME GraphTypes, CallBooks, NEW kept \in Nat, Writes(kept), NEW x, x = ended[1]
  PROVE  Grows /\ WroteCalls(x) /\ WroteEntries(x)
<1>1. PICK k, m, w, t : k = Len(x.carries) /\ m = Cardinality(x.brings) /\ w = Len(written) /\ t = turnNow + 1
  OBVIOUS
<1>2. /\ x \in EndedSet /\ IsFiniteSet(x.brings) /\ x.brings \subseteq Called /\ Carries(x) \subseteq Called
      /\ k \in Nat /\ m \in Nat /\ w \in Nat /\ kept <= k + 2 + m /\ 1 \in 1..Len(ended)
  <2>1. /\ x \in EndedSet /\ IsFiniteSet(x.brings) /\ x.brings \subseteq Called /\ Carries(x) \subseteq Called
    BY <1>1, FirstIs
  <2>2. kept <= k + 2 + m
    BY <1>1, WritesIs
  <2>3. k \in Nat /\ m \in Nat /\ w \in Nat
    BY <1>1, <2>1, Members, NewsAre
  <2>4. 1 \in 1..Len(ended)
    BY <1>1, WritesIs
  <2> QED
    BY <2>1, <2>2, <2>3, <2>4
<1>3. looking' => kept = k + 2 + m
  <2>1. IsWhole(kept, k + 2 + m)
    BY <1>1, WritesIs
  <2> QED
    BY <2>1 DEF IsWhole
<1>4. Grows /\ Len(written') = w + kept
  BY <1>1, WritesEntries
<1>5. Grown = (w + 1)..(w + kept)
  BY <1>1, <1>4 DEF Grown
<1>6. /\ calls' \in Seq(CallSet) /\ Called' = Called
      /\ \A c \in Called : /\ calls'[c].does = calls[c].does /\ calls'[c].what = calls[c].what
                           /\ calls'[c].early = calls[c].early
      /\ \A c \in Called : c \notin x.brings => calls'[c] = calls[c]
  BY <1>1, WritesCalls
<1>7. \A j \in 1..m :
        IF k + 2 + j <= kept
        THEN calls'[News(x)[j]].seq = w + (k + 2 + j) /\ calls'[News(x)[j]].turn = turnNow + 1
        ELSE calls'[News(x)[j]] = calls[News(x)[j]]
  <2>1. SeqsOf(x, k, m, w, kept)
    BY <1>1, WritesCalls
  <2> QED
    BY <2>1, Zenon DEF SeqsOf
<1>8. AddsResults(x, k, w, kept) /\ AddsRequest(x, k, w, kept)
  BY <1>1, WritesAdds
<1>9. AddsResponse(k, w, kept) /\ AddsCalls(x, k, m, w, kept)
  BY <1>1, WritesAdds
<1>10. /\ \A j \in 1..m : News(x)[j] \in x.brings
       /\ \A c \in x.brings : \E j \in 1..m : News(x)[j] = c
       /\ \A i, j \in 1..m : i < j => News(x)[i] < News(x)[j]
  BY <1>1, <1>2, NewsAre
<1>11. \A s \in Grown : Stands(s, k, m, w, kept) /\ s \in Nat
  <2> SUFFICES ASSUME NEW s \in (w + 1)..(w + kept) PROVE Stands(s, k, m, w, kept) /\ s \in Nat
    BY <1>5, Zenon
  <2>1. s \in Nat /\ kept \in Nat
    BY <1>2
  <2>2. Stands(s, k, m, w, kept)
    BY ONLY <1>2, <2>1, s \in (w + 1)..(w + kept), Placed
  <2> QED
    BY <2>1, <2>2
<1>12. /\ \A i \in 1..k : x.carries[i] \in Carries(x)
       /\ \A c \in Carries(x) : \E i \in 1..k : x.carries[i] = c
  BY <1>1 DEF Carries
<1>13. \A c \in Called : calls[c].seq # 0 => calls[c].seq \in 1..w
  BY <1>1, Members DEF CallBooks, IsCall
<1>14. \A c \in x.brings : c \in Nat /\ calls[c].seq = 0
  BY <1>1, <1>2, Members DEF CallBooks, Called
<1>15. ASSUME NEW j \in 1..m, k + 2 + j <= kept
       PROVE  /\ w + (k + 2 + j) \in Grown
              /\ written'[w + (k + 2 + j)].type = "tool.call"
              /\ written'[w + (k + 2 + j)].of = News(x)[j]
              /\ written'[w + (k + 2 + j)].what = calls[News(x)[j]].what
              /\ written'[w + (k + 2 + j)].turn = turnNow + 1
              /\ written'[w + (k + 2 + j)].causes = {w + k + 2}
              /\ calls'[News(x)[j]].seq = w + (k + 2 + j) /\ calls'[News(x)[j]].turn = turnNow + 1
  <2>1. w + (k + 2 + j) \in Grown
    BY <1>2, <1>5, <1>15
  <2>2. /\ written'[w + (k + 2 + j)].type = "tool.call"
        /\ written'[w + (k + 2 + j)].of = News(x)[j]
        /\ written'[w + (k + 2 + j)].what = calls[News(x)[j]].what
        /\ written'[w + (k + 2 + j)].turn = turnNow + 1
        /\ written'[w + (k + 2 + j)].causes = {w + k + 2}
    BY <1>9, <1>15, Zenon DEF AddsCalls
  <2>3. calls'[News(x)[j]].seq = w + (k + 2 + j) /\ calls'[News(x)[j]].turn = turnNow + 1
    BY <1>7, <1>15, Zenon
  <2> QED
    BY <2>1, <2>2, <2>3
<1>16. ASSUME NEW j \in 1..m, ~ (k + 2 + j <= kept)
       PROVE  calls'[News(x)[j]] = calls[News(x)[j]]
  BY <1>7, <1>16, Zenon
<1>17. WroteCalls(x)
  <2>1. ASSUME NEW c \in Called
        PROVE  \/ calls'[c] = calls[c]
               \/ /\ c \in x.brings /\ calls'[c].seq \in Grown /\ calls'[c].turn = turnNow + 1
                  /\ written'[calls'[c].seq].type = "tool.call" /\ written'[calls'[c].seq].of = c
                  /\ written'[calls'[c].seq].what = calls[c].what
                  /\ written'[calls'[c].seq].turn = turnNow + 1
    <3>1. CASE c \notin x.brings
      BY <1>6, <3>1
    <3>2. CASE c \in x.brings
      <4>1. PICK j \in 1..m : News(x)[j] = c
        BY <1>10, <3>2
      <4>2. CASE k + 2 + j <= kept
        BY <1>15, <3>2, <4>1, <4>2, Zenon
      <4>3. CASE ~ (k + 2 + j <= kept)
        BY <1>16, <4>1, <4>3, Zenon
      <4> QED
        BY <4>2, <4>3
    <3> QED
      BY <3>1, <3>2
  <2>2. ASSUME NEW c \in x.brings, NEW d \in x.brings, c < d, calls'[c].seq # 0, calls'[d].seq # 0
        PROVE  calls'[c].seq < calls'[d].seq
    <3>1. PICK i \in 1..m : News(x)[i] = c
      BY <1>10
    <3>2. PICK j \in 1..m : News(x)[j] = d
      BY <1>10
    <3>3. i < j
      <4>1. i = j \/ j < i \/ i < j
        OBVIOUS
      <4>2. c # d /\ ~ (d < c)
        BY <1>14, <2>2
      <4>3. j < i => d < c
        BY <1>10, <3>1, <3>2
      <4> QED
        BY <3>1, <3>2, <4>1, <4>2, <4>3
    <3>4. k + 2 + i <= kept /\ k + 2 + j <= kept
      BY <1>14, <1>16, <2>2, <3>1, <3>2
    <3>5. calls'[c].seq = w + (k + 2 + i) /\ calls'[d].seq = w + (k + 2 + j)
      BY <1>15, <3>1, <3>2, <3>4
    <3> QED
      BY <1>2, <3>3, <3>5
  <2>3. ASSUME looking', NEW c \in x.brings PROVE calls'[c].seq # 0
    <3>1. PICK j \in 1..m : News(x)[j] = c
      BY <1>10
    <3>2. k + 2 + j <= kept
      BY <1>2, <1>3, <2>3
    <3>3. calls'[c].seq = w + (k + 2 + j)
      BY <1>15, <3>1, <3>2
    <3> QED
      BY <1>2, <3>3
  <2> QED
    BY <1>6, <2>1, <2>2, <2>3 DEF WroteCalls
<1>18. ASSUME NEW i \in 1..k, i <= kept
       PROVE  /\ w + i \in Grown /\ written'[w + i].type = "tool.result"
              /\ written'[w + i].of = x.carries[i] /\ written'[w + i].of \in Carries(x)
              /\ written'[w + i].causes = {calls[x.carries[i]].seq} \ {0}
              /\ written'[w + i].causes \subseteq 1..((w + i) - 1)
  <2>1. w + i \in Grown
    BY <1>2, <1>5, <1>18
  <2>2. /\ written'[w + i].type = "tool.result" /\ written'[w + i].of = x.carries[i]
        /\ written'[w + i].causes = {calls[x.carries[i]].seq} \ {0}
    BY <1>8, <1>18 DEF AddsResults
  <2>3. 1..w \subseteq 1..((w + i) - 1)
    BY <1>2
  <2>4. {calls[x.carries[i]].seq} \ {0} \subseteq 1..w
    BY <1>2, <1>12, <1>13
  <2> QED
    BY <1>12, <2>1, <2>2, <2>3, <2>4
<1>19. k + 1 <= kept =>
         /\ written'[w + (k + 1)].type = "model.request" /\ written'[w + (k + 1)].of[2] = x.by
         /\ written'[w + (k + 1)].causes \subseteq 1..((w + (k + 1)) - 1)
  <2>1. (w + 1)..(w + k) \subseteq 1..((w + (k + 1)) - 1)
    BY <1>2
  <2> QED
    BY <1>8, <2>1 DEF AddsRequest
<1>20. k + 2 <= kept =>
         /\ written'[w + (k + 2)].type = "model.response"
         /\ written'[w + (k + 2)].causes \subseteq 1..((w + (k + 2)) - 1)
  <2>1. {w + k + 1} \subseteq 1..((w + (k + 2)) - 1)
    BY <1>2
  <2> QED
    BY <1>9, <2>1 DEF AddsResponse
<1>21. ASSUME NEW j \in 1..m, k + 2 + j <= kept
       PROVE  /\ written'[w + (k + 2 + j)].causes \subseteq 1..((w + (k + 2 + j)) - 1)
              /\ written'[w + (k + 2 + j)].of \in x.brings
              /\ calls'[written'[w + (k + 2 + j)].of].seq = w + (k + 2 + j)
  <2>1. {w + k + 2} \subseteq 1..((w + (k + 2 + j)) - 1)
    BY <1>2
  <2> QED
    BY <1>10, <1>15, <1>21, <2>1
<1>22. ASSUME NEW s \in Grown
       PROVE  /\ written'[s].causes \subseteq 1..(s - 1)
              /\ written'[s].type \in {"tool.result", "model.request", "model.response", "tool.call"}
              /\ written'[s].type = "tool.call" =>
                   /\ written'[s].of \in x.brings /\ calls'[written'[s].of].seq = s
                   /\ w + (k + 1) < s
              /\ written'[s].type = "tool.result" =>
                   /\ written'[s].of \in Carries(x) /\ written'[s].causes = {calls[written'[s].of].seq} \ {0}
                   /\ s < w + (k + 1)
              /\ written'[s].type = "model.request" =>
                   s = w + (k + 1) /\ k + 1 <= kept /\ written'[s].of[2] = x.by
  <2>1. Stands(s, k, m, w, kept)
    BY <1>11
  <2>2. CASE \E i \in 1..k : i <= kept /\ s = w + i
    <3>1. PICK i \in 1..k : i <= kept /\ s = w + i
      BY <2>2
    <3>2. s < w + (k + 1)
      BY <1>2, <3>1
    <3> QED
      BY <1>18, <3>1, <3>2
  <2>3. CASE k + 1 <= kept /\ s = w + (k + 1)
    BY <1>19, <2>3
  <2>4. CASE k + 2 <= kept /\ s = w + (k + 2)
    BY <1>20, <2>4
  <2>5. CASE \E j \in 1..m : k + 2 + j <= kept /\ s = w + (k + 2 + j)
    <3>1. PICK j \in 1..m : k + 2 + j <= kept /\ s = w + (k + 2 + j)
      BY <2>5
    <3>2. w + (k + 1) < s
      BY <1>2, <3>1
    <3>3. written'[s].type = "tool.call"
      BY <1>15, <3>1
    <3> QED
      BY <1>21, <3>1, <3>2, <3>3
  <2> QED
    BY <2>1, <2>2, <2>3, <2>4, <2>5 DEF Stands
<1>23. ASSUME k <= kept, NEW c \in Carries(x)
       PROVE  \E r \in Grown : r < w + (k + 1) /\ written'[r].type = "tool.result" /\ written'[r].of = c
  <2>1. PICK i \in 1..k : x.carries[i] = c
    BY <1>12
  <2>2. i <= kept /\ w + i < w + (k + 1)
    BY <1>2, <1>23
  <2> QED
    BY <1>18, <2>1, <2>2
<1>24. WroteEntries(x)
  <2>1. \A s \in Grown : written'[s].type = "model.request" =>
          /\ \A c \in Carries(x) : \E r \in Grown :
               r < s /\ written'[r].type = "tool.result" /\ written'[r].of = c
          /\ \A r \in Grown : /\ written'[r].type = "tool.result" => r < s
                              /\ written'[r].type = "tool.call" => s < r
    <3>1. k + 1 <= kept => k <= kept
      BY <1>2
    <3> QED
      BY <1>22, <1>23, <3>1
  <2>2. looking' => \A c \in Carries(x) : \E r \in Grown :
          written'[r].type = "tool.result" /\ written'[r].of = c
    <3>1. looking' => k <= kept
      BY <1>2, <1>3
    <3> QED
      BY <1>23, <3>1
  <2> QED
    BY <1>22, <2>1, <2>2 DEF WroteEntries
<1> QED
  BY <1>4, <1>17, <1>24

\* The request is under the delegation that was the latest of those open.
LEMMA WritesNames ==
  ASSUME GraphTypes, CallBooks, DelegateBooks, lost = 0, Grows, 1 \in 1..Len(ended),
         NEW x, x = ended[1], WroteCalls(x), WroteEntries(x),
         NEW s \in Grown, written'[s].type = "model.request"
  PROVE  EnclosingDelegation(s)' = IF x.by = 0 THEN 0 ELSE calls[x.by].seq
<1>1. /\ Seqs \subseteq Seqs' /\ (\A r \in Seqs' : r \in Seqs \/ r \in Grown)
      /\ (\A r \in Seqs : r < s /\ r \in Nat /\ r # 0 /\ ~ (r >= s) /\ r \in 1..s) /\ s \in Nat
      /\ Grown \subseteq Seqs' /\ (\A r \in Grown : r \in Nat) /\ 1..s \subseteq Seqs'
  BY GrowsIs DEF Grown
<1>2. \A r \in Seqs : written'[r] = written[r]
  BY DEF Grows
<1>3. /\ \A r \in Grown : /\ written'[r].type = "tool.result" =>
                               written'[r].of \in Carries(x) /\ written'[r].causes = {calls[written'[r].of].seq} \ {0}
                          /\ written'[r].type = "tool.result" => r < s
                          /\ written'[r].type = "tool.call" => s < r
      /\ \A c \in Carries(x) : \E r \in Grown : r < s /\ written'[r].type = "tool.result" /\ written'[r].of = c
  BY DEF WroteEntries
<1>4. IsLatest(x.by, OpenAt(1)) /\ Carries(x) \subseteq KnownAt(1)
  BY DEF DelegateBooks
<1>5. /\ ReturnedAt(1) = Results \union Carries(x)
      /\ KnownAt(1) = {c \in Called : calls[c].seq # 0}
  <2>1. 1..1 = {1} /\ 1..(1 - 1) = {}
    OBVIOUS
  <2> QED
    BY <2>1 DEF ReturnedAt, KnownAt
<1>6. \A c \in Called : calls[c].seq # 0 =>
        /\ calls[c].seq \in Seqs /\ written[calls[c].seq].type = "tool.call" /\ written[calls[c].seq].of = c
        /\ written[calls[c].seq].what = calls[c].what
  BY DEF CallBooks, IsCall
<1>7. \A r \in Seqs : written[r].type = "tool.call" => written[r].of \in Called /\ calls[written[r].of].seq = r
  BY DEF CallBooks
<1>8. \A c \in Called : IsDelegate(c) <=> calls[c].what = "subagent"
  BY DEF GraphTypes
<1>9. \A r : r \in Delegations(s)' <=> \E c \in Called : IsDelegate(c) /\ calls[c].seq # 0 /\ r = calls[c].seq
  <2>1. \A r : r \in Delegations(s)' <=>
          r \in 1..s /\ written'[r].type = "tool.call" /\ written'[r].what = "subagent"
    BY DEF Delegations
  <2>2. ASSUME NEW r \in 1..s, written'[r].type = "tool.call" PROVE r \in Seqs
    <3>1. ~ (s < r)
      BY <1>1
    <3> QED
      BY <1>1, <1>3, <2>2, <3>1
  <2>3. \A r \in Seqs : r \in 1..s /\ written'[r] = written[r] /\ r # 0
    BY <1>1, <1>2
  <2> QED
    BY <1>6, <1>7, <1>8, <2>1, <2>2, <2>3
<1>10. ASSUME NEW c \in Called, IsDelegate(c), calls[c].seq # 0, NEW u, u = calls[c].seq
       PROVE  StillOpen(u, s)' <=> c \notin Results \union Carries(x)
  <2>2. StillOpen(u, s)' <=>
          \A r \in Seqs' : written'[r].type = "tool.result" /\ u \in written'[r].causes => r >= s
    BY DEF StillOpen
  <2>3. ASSUME NEW r \in Seqs', written'[r].type = "tool.result"
        PROVE  /\ r < s /\ ~ (r >= s) /\ written'[r].of \in Called
               /\ (calls[c].seq \in written'[r].causes <=> written'[r].of = c)
               /\ written'[r].of \in Results \union Carries(x)
    <3>1. \A d \in Called : calls[d].seq = calls[c].seq => d = c
      BY <1>6, <1>10
    <3>2. CASE r \in Seqs
      <4>1. /\ written[r].of \in Called /\ calls[written[r].of].seq # 0
            /\ written[r].causes = {calls[written[r].of].seq} /\ written[r].of \in Results
        BY <1>2, <2>3, <3>2 DEF DelegateBooks, Results
      <4> QED
        BY <1>1, <1>2, <3>1, <3>2, <4>1
    <3>3. CASE r \in Grown
      <4>1. /\ written'[r].of \in Carries(x) /\ written'[r].causes = {calls[written'[r].of].seq} \ {0} /\ r < s
        BY <1>3, <2>3, <3>3
      <4>2. written'[r].of \in Called
        BY <1>4, <1>5, <4>1
      <4>3. r \in Nat
        BY <1>1, <3>3
      <4>4. calls[c].seq \in written'[r].causes <=> calls[c].seq = calls[written'[r].of].seq
        BY <1>10, <4>1
      <4>5. ~ (r >= s)
        BY <1>1, <4>1, <4>3
      <4> QED
        BY <3>1, <4>1, <4>2, <4>4, <4>5
    <3> QED
      BY <1>1, <3>2, <3>3
  <2>4. ASSUME c \in Results \union Carries(x)
        PROVE  \E r \in Seqs' : written'[r].type = "tool.result" /\ written'[r].of = c
    <3>1. CASE c \in Results
      BY <1>1, <1>2, <3>1 DEF Results
    <3>2. CASE c \in Carries(x)
      BY <1>1, <1>3, <3>2
    <3> QED
      BY <2>4, <3>1, <3>2
  <2> QED
    BY <1>10, <2>2, <2>3, <2>4
<1>11. PICK S : S = {calls[c].seq : c \in OpenAt(1)}
  OBVIOUS
<1>12. \A c : c \in OpenAt(1) <=> c \in Called /\ calls[c].seq # 0 /\ IsDelegate(c) /\ c \notin Results \union Carries(x)
  BY <1>5 DEF OpenAt
<1>13. S = {r \in Delegations(s) : StillOpen(r, s)}'
  <2>1. \A r : r \in {u \in Delegations(s) : StillOpen(u, s)}' <=> r \in Delegations(s)' /\ StillOpen(r, s)'
    OBVIOUS
  <2>2. \A r : r \in S <=> \E c \in OpenAt(1) : r = calls[c].seq
    BY <1>11
  <2>3. ASSUME NEW r, r \in S PROVE r \in Delegations(s)' /\ StillOpen(r, s)'
    <3>1. PICK c \in OpenAt(1) : r = calls[c].seq
      BY <2>2, <2>3
    <3> QED
      BY <1>9, <1>10, <1>12, <3>1
  <2>4. ASSUME NEW r, r \in Delegations(s)', StillOpen(r, s)' PROVE r \in S
    <3>1. PICK c \in Called : IsDelegate(c) /\ calls[c].seq # 0 /\ r = calls[c].seq
      BY <1>9, <2>4
    <3>2. c \notin Results \union Carries(x)
      BY <1>10, <2>4, <3>1
    <3> QED
      BY <1>12, <2>2, <3>1, <3>2
  <2> QED
    BY <2>1, <2>3, <2>4
<1>14. EnclosingDelegation(s)' = IF S = {} THEN 0 ELSE CHOOSE r \in S : \A u \in S : u <= r
  BY <1>13 DEF EnclosingDelegation
<1>15. CASE x.by = 0
  <2>1. S = {}
    BY <1>4, <1>11, <1>15 DEF IsLatest
  <2> QED
    BY <1>14, <1>15, <2>1
<1>16. CASE x.by # 0
  <2>1. x.by \in OpenAt(1) /\ \A d \in OpenAt(1) : d <= x.by
    BY <1>4, <1>16 DEF IsLatest
  <2>2. PICK top : top = calls[x.by].seq
    OBVIOUS
  <2>3. top \in S
    BY <1>11, <2>1, <2>2
  <2>4. \A d \in OpenAt(1) : calls[d].seq <= top /\ calls[d].seq \in Nat
    <3>1. ASSUME NEW d \in OpenAt(1) PROVE calls[d].seq <= top /\ calls[d].seq \in Nat
      <4>1. /\ d \in Called /\ x.by \in Called /\ calls[d].seq # 0 /\ calls[x.by].seq # 0 /\ d <= x.by
        BY <1>12, <2>1
      <4>2. /\ d \in Nat /\ x.by \in Nat /\ calls[d].seq \in Nat /\ calls[x.by].seq \in Nat
        <5>1. \A c \in Called : c \in Nat
          BY Members DEF Called
        <5>2. \A c \in Called : calls[c].seq \in Nat
          BY Members DEF CallSet
        <5> QED
          BY <4>1, <5>1, <5>2
      <4>3. d = x.by \/ d < x.by
        BY <4>1, <4>2
      <4>4. d < x.by => calls[d].seq < calls[x.by].seq
        BY <4>1 DEF CallBooks
      <4> QED
        BY <2>2, <4>2, <4>3, <4>4
    <3> QED
      BY <3>1
  <2>5. \A u \in S : u <= top /\ u \in Nat
    BY <1>11, <2>4
  <2>6. \A r \in S : (\A u \in S : u <= r) => r = top
    BY ONLY <2>3, <2>5
  <2>7. (CHOOSE r \in S : \A u \in S : u <= r) = top
    BY ONLY <2>3, <2>5, <2>6
  <2> QED
    BY <1>14, <1>16, <2>2, <2>3, <2>7
<1> QED
  BY <1>15, <1>16

LEMMA WritesBooks ==
  ASSUME GraphBooks, NEW kept \in Nat, Writes(kept)
  PROVE  GraphBooks'
<1>1. PICK x, l, t : x = ended[1] /\ l = Len(ended) /\ t = turnNow
  OBVIOUS
<1>2. /\ l \in Nat \ {0} /\ 1 \in 1..l /\ ~ looking /\ t \in Nat
      /\ ended' \in Seq(EndedSet) /\ Len(ended') = l - 1
      /\ (\A q \in 1..(l - 1) : ended'[q] = ended[q + 1])
      /\ UNCHANGED <<talks, dirty, frames>> /\ turnNow' = t + 1
  <2>1. l \in Nat \ {0} /\ 1 \in 1..l /\ ~ looking
    BY <1>1, WritesIs DEF GraphBooks
  <2>2. /\ ended' \in Seq(EndedSet) /\ Len(ended') = l - 1
        /\ (\A q \in 1..(l - 1) : ended'[q] = ended[q + 1])
    BY <1>1, WritesIs DEF GraphBooks
  <2>3. UNCHANGED <<talks, dirty, frames>> /\ turnNow' = t + 1
    BY <1>1, WritesIs DEF GraphBooks
  <2> QED
    BY <1>1, <2>1, <2>2, <2>3 DEF GraphBooks, GraphTypes
<1>3. /\ lost' \in Nat /\ looking' \in BOOLEAN
      /\ (lost' = 0 => lost = 0 /\ looking')
  <2>1. PICK n : n = Len(x.carries) + 2 + Cardinality(x.brings)
    OBVIOUS
  <2>2. lost' \in Nat
    BY <1>1, <2>1, WritesIs DEF GraphBooks
  <2>3. IsWhole(kept, n) /\ looking' \in BOOLEAN
    BY <1>1, <2>1, WritesIs DEF GraphBooks
  <2> QED
    BY <2>2, <2>3 DEF IsWhole
<1>4. x.brings \subseteq Called /\ Carries(x) \subseteq Called
  BY <1>1, FirstIs DEF GraphBooks
<1>5. Grows /\ WroteCalls(x) /\ WroteEntries(x)
  BY <1>1, WritesGrown DEF GraphBooks
<1>6. /\ Seqs \subseteq Seqs' /\ Grown \subseteq Seqs'
      /\ (\A s \in Seqs' : s \in Seqs \/ s \in Grown)
      /\ (\A s \in Seqs, r \in Grown : s < r /\ r # s)
      /\ (\A s \in Seqs' : s \in Nat /\ s # 0)
      /\ (\A s \in Seqs : written'[s] = written[s])
  BY <1>5, GrowsIs DEF GraphBooks, Grows
<1>7. /\ calls' \in Seq(CallSet) /\ Called' = Called
      /\ \A c \in Called :
           /\ calls'[c].does = calls[c].does /\ calls'[c].what = calls[c].what
           /\ calls'[c].early = calls[c].early
           /\ \/ calls'[c] = calls[c]
              \/ /\ c \in x.brings /\ calls'[c].seq \in Grown /\ calls'[c].turn = t + 1
                 /\ written'[calls'[c].seq].type = "tool.call" /\ written'[calls'[c].seq].of = c
                 /\ written'[calls'[c].seq].what = calls[c].what
                 /\ written'[calls'[c].seq].turn = t + 1
      /\ \A c, d \in x.brings : c < d /\ calls'[c].seq # 0 /\ calls'[d].seq # 0 => calls'[c].seq < calls'[d].seq
      /\ (looking' => \A c \in x.brings : calls'[c].seq # 0)
  BY <1>1, <1>5 DEF WroteCalls
<1>8. /\ \A s \in Grown :
           /\ written'[s].causes \subseteq 1..(s - 1)
           /\ written'[s].type \in {"tool.result", "model.request", "model.response", "tool.call"}
           /\ written'[s].type = "tool.call" => /\ written'[s].of \in x.brings /\ calls'[written'[s].of].seq = s
           /\ written'[s].type = "tool.result" =>
                written'[s].of \in Carries(x) /\ written'[s].causes = {calls[written'[s].of].seq} \ {0}
           /\ written'[s].type = "model.request" => written'[s].of[2] = x.by
      /\ looking' => \A c \in Carries(x) : \E r \in Grown :
           written'[r].type = "tool.result" /\ written'[r].of = c
  BY <1>5 DEF WroteEntries
<1>9. /\ \A c \in x.brings :
           calls[c].seq = 0 /\ (\A d \in Called : calls[d].seq # 0 => d < c) /\ (calls'[c].seq # 0 => calls'[c] # calls[c])
      /\ \A c \in Called : c \in Nat /\ ~ (c < c) /\ calls[c].seq \in Nat
      /\ \A c \in Called : calls[c].seq # 0 => calls'[c] = calls[c]
  <2>1. \A c \in x.brings : calls[c].seq = 0 /\ (\A d \in Called : calls[d].seq # 0 => d < c)
    BY <1>1, <1>2 DEF GraphBooks, CallBooks
  <2>2. \A c \in Called : c \in Nat /\ ~ (c < c)
    BY Members DEF GraphBooks, Called
  <2>3. \A c \in Called : calls[c].seq \in Nat
    BY Members DEF GraphBooks, CallSet
  <2> QED
    BY <1>7, <2>1, <2>2, <2>3
<1>10. \A c \in Called : IsDelegate(c)' <=> IsDelegate(c)
  BY <1>7 DEF IsDelegate
<1>11. /\ \A q \in 1..(l - 1) : q + 1 \in 1..l /\ q \in 1..l /\ q \in Nat /\ 1 \in 1..((q + 1) - 1)
       /\ \A q \in 1..l : q = 1 \/ (q - 1 \in 1..(l - 1) /\ (q - 1) + 1 = q)
  BY <1>2
<1>12. GraphTypes'
  <2>1. \A s \in Seqs' : written'[s].causes \subseteq 1..(s - 1)
    BY <1>6, <1>8 DEF GraphBooks, GraphTypes
  <2>2. \A q \in 1..(l - 1) : /\ IsFiniteSet(ended'[q].brings) /\ ended'[q].brings \subseteq Called
                              /\ Carries(ended'[q]) \subseteq Called
    BY <1>1, <1>2, <1>11 DEF GraphBooks, GraphTypes
  <2>3. \A c \in Called : IsDelegate(c) <=> calls'[c].what = "subagent"
    BY <1>7 DEF GraphBooks, GraphTypes
  <2>4. written' \in Seq(EntrySet)
    BY <1>5 DEF Grows
  <2>5. /\ talks \in Seq(TalkSet) /\ frames \in Seq(FrameSet) /\ dirty \in [Changed -> Nat]
        /\ \A i \in 1..Len(talks) : /\ IsFiniteSet(talks[i].open) /\ IsFiniteSet(talks[i].done)
                                    /\ talks[i].open \subseteq Called /\ talks[i].done \subseteq Called
    BY DEF GraphBooks, GraphTypes
  <2>6. t + 1 \in Nat
    BY <1>2
  <2> QED
    BY <1>2, <1>3, <1>7, <1>10, <2>1, <2>2, <2>3, <2>4, <2>5, <2>6 DEF GraphTypes
<1>13. Stack'
  BY <1>2, <1>7, <1>10, <1>12 DEF GraphBooks, Stack, GraphTypes
<1>14. CallBooks'
  <2>1. ASSUME NEW c \in Called, calls'[c].seq # 0
        PROVE  /\ calls'[c].seq \in Seqs' /\ written'[calls'[c].seq].type = "tool.call"
               /\ written'[calls'[c].seq].of = c /\ written'[calls'[c].seq].what = calls'[c].what
               /\ written'[calls'[c].seq].turn = calls'[c].turn /\ calls'[c].turn <= t + 1
    <3>1. CASE calls'[c] = calls[c]
      <4>1. /\ calls[c].seq \in Seqs /\ written[calls[c].seq].type = "tool.call"
            /\ written[calls[c].seq].of = c /\ written[calls[c].seq].what = calls[c].what
            /\ written[calls[c].seq].turn = calls[c].turn /\ calls[c].turn <= t
        BY <1>1, <2>1, <3>1 DEF GraphBooks, CallBooks, IsCall
      <4>2. calls[c].turn \in Nat
        BY Members DEF GraphBooks, CallSet
      <4>3. calls[c].turn <= t + 1
        BY <1>2, <4>1, <4>2
      <4> QED
        BY <1>6, <3>1, <4>1, <4>3
    <3>2. CASE calls'[c] # calls[c]
      BY <1>2, <1>6, <1>7, <3>2
    <3> QED
      BY <3>1, <3>2
  <2>2. ASSUME NEW s \in Seqs', written'[s].type = "tool.call"
        PROVE  written'[s].of \in Called /\ calls'[written'[s].of].seq = s
    <3>1. CASE s \in Seqs
      <4>1. written[s].of \in Called /\ calls[written[s].of].seq = s
        BY <1>6, <2>2, <3>1 DEF GraphBooks, CallBooks
      <4> QED
        BY <1>6, <1>9, <3>1, <4>1
    <3>2. CASE s \in Grown
      BY <1>4, <1>8, <2>2, <3>2
    <3> QED
      BY <1>6, <3>1, <3>2
  <2>3. ASSUME NEW c \in Called, NEW d \in Called, c < d, calls'[c].seq # 0, calls'[d].seq # 0
        PROVE  calls'[c].seq < calls'[d].seq
    <3>1. CASE calls'[c] = calls[c] /\ calls'[d] = calls[d]
      BY <2>3, <3>1 DEF GraphBooks, CallBooks
    <3>2. CASE calls'[c] = calls[c] /\ calls'[d] # calls[d]
      <4>1. calls[c].seq \in Seqs
        BY <2>3, <3>2 DEF GraphBooks, CallBooks, IsCall
      <4>2. calls'[d].seq \in Grown
        BY <1>7, <3>2
      <4> QED
        BY <1>6, <3>2, <4>1, <4>2
    <3>3. CASE calls'[c] # calls[c] /\ calls'[d] = calls[d]
      <4>1. d < c
        BY <1>7, <1>9, <2>3, <3>3
      <4> QED
        BY <1>9, <2>3, <4>1
    <3>4. CASE calls'[c] # calls[c] /\ calls'[d] # calls[d]
      BY <1>7, <2>3, <3>4
    <3> QED
      BY <3>1, <3>2, <3>3, <3>4
  <2>4. ASSUME NEW q \in 1..(l - 1), NEW d \in ended'[q].brings
        PROVE  /\ calls'[d].seq = 0
               /\ (\A c \in Called : calls'[c].seq # 0 => c < d)
               /\ (\A p \in 1..(q - 1) : \A c \in ended'[p].brings : c < d)
    <3>1. d \in ended[q + 1].brings /\ q + 1 \in 1..l /\ d \in Called
      BY <1>1, <1>2, <1>11 DEF GraphBooks, GraphTypes
    <3>2. /\ calls[d].seq = 0
          /\ (\A c \in Called : calls[c].seq # 0 => c < d)
          /\ (\A p \in 1..((q + 1) - 1) : \A c \in ended[p].brings : c < d)
      BY <1>1, <3>1 DEF GraphBooks, CallBooks
    <3>3. \A c \in x.brings : c < d
      BY <1>1, <1>11, <3>2
    <3>4. calls'[d].seq = 0
      BY <1>7, <1>9, <3>1, <3>2, <3>3
    <3>5. \A c \in Called : calls'[c].seq # 0 => c < d
      BY <1>7, <3>2, <3>3
    <3>6. \A p \in 1..(q - 1) : p \in 1..(l - 1) /\ p + 1 \in 1..((q + 1) - 1)
      BY <1>2
    <3>7. \A p \in 1..(q - 1) : \A c \in ended'[p].brings : c < d
      BY <1>2, <3>2, <3>6
    <3> QED
      BY <3>4, <3>5, <3>7
  <2> QED
    BY <1>2, <1>7, <2>1, <2>2, <2>3, <2>4 DEF CallBooks, IsCall
<1>15. EffectBooks'
  <2>1. \A c : Ran(c)' <=> Ran(c)
    BY <1>2, <1>7 DEF Ran
  <2>2. \A c \in Called : \A u : InTurn(c, u) => InTurn(c, u)'
    BY <1>7, <1>9 DEF InTurn
  <2>3. \A c : Ran(c) => c \in Called
    BY DEF Ran
  <2>4. \A i \in 1..Len(talks) : i = Len(talks) => \A c \in talks[i].open : ~ IsDelegate(c) =>
          c \in Called /\ c \in ended[l].brings
    <3>1. ended # << >>
      BY DEF Writes
    <3>2. \A i \in 1..Len(talks) : talks[i].open \subseteq Called
      BY DEF GraphBooks, GraphTypes
    <3> QED
      BY <1>1, <3>1, <3>2 DEF GraphBooks, EffectBooks, Last
  <2>5. \A i \in 1..Len(talks) : i = Len(talks) => \A c \in talks[i].open : ~ IsDelegate(c)' =>
          IF ended' = << >> THEN calls'[c].seq # 0 => calls'[c].turn = t + 1
          ELSE c \in Last(ended').brings
    <3>1. CASE l = 1
      <4>1. ended' = << >>
        BY <1>2, <3>1
      <4>2. \A c \in x.brings : calls'[c].seq # 0 => calls'[c].turn = t + 1
        BY <1>4, <1>7, <1>9
      <4>3. \A i \in 1..Len(talks) : i = Len(talks) => \A c \in talks[i].open : ~ IsDelegate(c)' => c \in x.brings
        <5>1. \A i \in 1..Len(talks) : talks[i].open \subseteq Called
          BY DEF GraphBooks, GraphTypes
        <5> QED
          BY <1>1, <1>10, <2>4, <3>1, <5>1
      <4> QED
        BY <4>1, <4>2, <4>3
    <3>2. CASE l # 1
      <4>1. l - 1 \in 1..(l - 1) /\ (l - 1) + 1 = l
        BY <1>2, <3>2
      <4>2. ended' # << >> /\ Last(ended') = ended[l]
        BY <1>2, <4>1 DEF Last
      <4>3. \A i \in 1..Len(talks) : talks[i].open \subseteq Called
        BY DEF GraphBooks, GraphTypes
      <4> QED
        BY <1>10, <2>4, <4>2, <4>3
    <3> QED
      BY <3>1, <3>2
  <2>6. \A p \in Changed : \A d : d = dirty[p] /\ d # 0 =>
          /\ Ran(d) /\ calls'[d].what = p
          /\ (lost' = 0 => InTurn(d, t + 1)' /\ looking')
    <3>1. \A p \in Changed : \A d : d = dirty[p] /\ d # 0 =>
            Ran(d) /\ calls[d].what = p /\ (lost = 0 => InTurn(d, t + 1))
      BY <1>1, <1>2 DEF GraphBooks, EffectBooks
    <3> QED
      BY <1>3, <1>7, <2>2, <2>3, <3>1
  <2>7. \A i \in 1..Len(frames) : \A d, u : d = frames[i].call /\ u = frames[i].at =>
          Ran(d) /\ frames[i].what = calls'[d].what /\ InTurn(d, u)'
    <3>1. \A i \in 1..Len(frames) : \A d, u : d = frames[i].call /\ u = frames[i].at =>
            Ran(d) /\ frames[i].what = calls[d].what /\ InTurn(d, u)
      BY DEF GraphBooks, EffectBooks
    <3> QED
      BY <1>7, <2>2, <2>3, <3>1
  <2>8. \A e \in Effects' : \A d, u : d = written'[e].of /\ u = written'[e].turn =>
          /\ Ran(d) /\ written'[e].what = calls'[d].what
          /\ (lost' = 0 => InTurn(d, u)' /\ (~ calls'[d].early => calls'[d].seq < e))
    <3>1. ASSUME NEW e \in Effects', NEW d, d = written'[e].of, NEW u, u = written'[e].turn
          PROVE  /\ Ran(d) /\ written'[e].what = calls'[d].what
                 /\ (lost' = 0 => InTurn(d, u)' /\ (~ calls'[d].early => calls'[d].seq < e))
      <4>1. e \in Effects /\ written'[e] = written[e]
        BY <1>6, <1>8 DEF Effects
      <4>2. /\ Ran(d) /\ written[e].what = calls[d].what
            /\ (lost = 0 => InTurn(d, u) /\ (~ calls[d].early => calls[d].seq < e))
        BY <3>1, <4>1 DEF GraphBooks, EffectBooks
      <4>3. InTurn(d, u) /\ ~ calls[d].early => calls[d].seq # 0
        BY DEF InTurn
      <4> QED
        BY <1>3, <1>7, <1>9, <2>2, <2>3, <4>1, <4>2, <4>3
    <3> QED
      BY <3>1
  <2>9. PICK u : u = t + 1
    OBVIOUS
  <2>10. turnNow' = u /\ \A d : InTurn(d, t + 1)' <=> InTurn(d, u)'
    BY <1>2, <2>9
  <2> QED
    BY <1>2, <2>1, <2>5, <2>6, <2>7, <2>8, <2>9, <2>10 DEF EffectBooks
<1>16. DelegateBooks'
  <2> SUFFICES ASSUME lost' = 0 PROVE DelegateBooks'
    BY DEF DelegateBooks
  <2>1. lost = 0 /\ looking'
    BY <1>3
  <2>2. \A c \in Called : calls[c].seq # 0 \/ \E q \in 1..l : c \in ended[q].brings
    BY <1>1, <2>1 DEF GraphBooks, DelegateBooks
  <2>3. \A c \in Called : IsDelegate(c) =>
          \/ c \in ReturnedAt(l)
          \/ \E i \in 1..Len(talks) : c \in talks[i].open \union talks[i].done
    BY <1>1, <2>1 DEF GraphBooks, DelegateBooks
  <2>4. \A i \in 1..Len(talks) : \A c \in talks[i].open \union talks[i].done :
          IsDelegate(c) => c \notin ReturnedAt(l)
    BY <1>1, <2>1 DEF GraphBooks, DelegateBooks
  <2>5. \A q \in 1..l : IsLatest(ended[q].by, OpenAt(q)) /\ Carries(ended[q]) \subseteq KnownAt(q)
    BY <1>1, <2>1 DEF GraphBooks, DelegateBooks
  <2>6. \A r \in Seqs : written[r].type = "tool.result" =>
          /\ written[r].of \in Called /\ calls[written[r].of].seq # 0
          /\ written[r].causes = {calls[written[r].of].seq}
    BY <2>1 DEF GraphBooks, DelegateBooks
  <2>7. \A s \in Seqs : written[s].type = "model.request" =>
          (written[s].of[2] # 0 => written[s].of[2] \in Called /\ calls[written[s].of[2]].seq # 0)
    BY <2>1 DEF GraphBooks, DelegateBooks
  <2>8. KnownAt(1) = {c \in Called : calls[c].seq # 0}
    <3>1. 1..(1 - 1) = {}
      OBVIOUS
    <3> QED
      BY <3>1 DEF KnownAt
  <2>9. Results' = Results \union Carries(x)
    <3>1. \A c : c \in Results' <=> \E r \in Seqs' : written'[r].type = "tool.result" /\ c = written'[r].of
      BY DEF Results
    <3>2. \A c : c \in Results <=> \E r \in Seqs : written[r].type = "tool.result" /\ c = written[r].of
      BY DEF Results
    <3> QED
      BY <1>6, <1>8, <2>1, <3>1, <3>2
  <2>10. \A q \in 0..(l - 1) : ReturnedAt(q)' = ReturnedAt(q + 1)
    <3> SUFFICES ASSUME NEW q \in 0..(l - 1) PROVE ReturnedAt(q)' = ReturnedAt(q + 1)
      OBVIOUS
    <3>1. \A p \in 1..q : p \in 1..(l - 1) /\ p + 1 \in 1..(q + 1)
      BY <1>2
    <3>2. \A p \in 1..(q + 1) : p = 1 \/ (p - 1 \in 1..q /\ (p - 1) + 1 = p)
      BY <1>2
    <3>3. 1 \in 1..(q + 1)
      BY <1>2
    <3>4. \A c : c \in ReturnedAt(q)' <=> c \in Results' \/ \E p \in 1..q : c \in Carries(ended'[p])
      <4>1. ReturnedAt(q)' = Results' \union UNION {Carries(ended'[p]) : p \in 1..q}
        BY DEF ReturnedAt, Carries
      <4> QED
        BY <4>1
    <3>5. \A c : c \in ReturnedAt(q + 1) <=> c \in Results \/ \E p \in 1..(q + 1) : c \in Carries(ended[p])
      BY DEF ReturnedAt
    <3>6. \A p \in 1..q : Carries(ended'[p]) = Carries(ended[p + 1])
      BY <1>2, <3>1
    <3>7. \A c : c \in Results' \union UNION {Carries(ended'[p]) : p \in 1..q}
                <=> c \in Results \/ \E p \in 1..(q + 1) : c \in Carries(ended[p])
      <4>1. ASSUME NEW c, NEW p \in 1..(q + 1), c \in Carries(ended[p])
            PROVE  c \in Results' \/ \E r \in 1..q : c \in Carries(ended'[r])
        <5>1. CASE p = 1
          BY <1>1, <2>9, <4>1, <5>1
        <5>2. CASE p # 1
          <6>1. p - 1 \in 1..q /\ (p - 1) + 1 = p
            BY <3>2, <5>2
          <6> QED
            BY <3>6, <4>1, <6>1
        <5> QED
          BY <5>1, <5>2
      <4>2. ASSUME NEW c, NEW p \in 1..q, c \in Carries(ended'[p])
            PROVE  \E r \in 1..(q + 1) : c \in Carries(ended[r])
        BY <3>1, <3>6, <4>2
      <4>3. \A c \in Carries(x) : \E r \in 1..(q + 1) : c \in Carries(ended[r])
        BY <1>1, <3>3
      <4> QED
        BY <2>9, <4>1, <4>2, <4>3
    <3>8. \A c : c \in ReturnedAt(q)' <=> c \in ReturnedAt(q + 1)
      BY <3>4, <3>5, <3>7
    <3> QED
      BY <3>8
  <2>11. \A q \in 1..(l - 1) : KnownAt(q)' = KnownAt(q + 1)
    <3> SUFFICES ASSUME NEW q \in 1..(l - 1) PROVE KnownAt(q)' = KnownAt(q + 1)
      OBVIOUS
    <3>1. \A p \in 1..(q - 1) : p \in 1..(l - 1) /\ p + 1 \in 1..((q + 1) - 1)
      BY <1>2
    <3>2. \A p \in 1..((q + 1) - 1) : p = 1 \/ (p - 1 \in 1..(q - 1) /\ (p - 1) + 1 = p)
      BY <1>2
    <3>3. \A c : c \in KnownAt(q)' <=>
            c \in Called /\ (calls'[c].seq # 0 \/ \E p \in 1..(q - 1) : c \in ended'[p].brings)
      BY <1>7 DEF KnownAt
    <3>4. \A c : c \in KnownAt(q + 1) <=>
            c \in Called /\ (calls[c].seq # 0 \/ \E p \in 1..((q + 1) - 1) : c \in ended[p].brings)
      BY DEF KnownAt
    <3>5. \A c \in Called : calls'[c].seq # 0 <=> calls[c].seq # 0 \/ c \in x.brings
      BY <1>7, <1>9, <2>1
    <3>6. \A c : (\E p \in 1..((q + 1) - 1) : c \in ended[p].brings) <=>
                  c \in x.brings \/ \E p \in 1..(q - 1) : c \in ended'[p].brings
      <4>1. ASSUME NEW c, NEW p \in 1..((q + 1) - 1), c \in ended[p].brings
            PROVE  c \in x.brings \/ \E r \in 1..(q - 1) : c \in ended'[r].brings
        <5>1. CASE p = 1
          BY <1>1, <4>1, <5>1
        <5>2. CASE p # 1
          <6>1. p - 1 \in 1..(q - 1) /\ (p - 1) + 1 = p /\ p - 1 \in 1..(l - 1)
            BY <3>1, <3>2, <5>2
          <6>2. ended'[p - 1] = ended[p]
            BY <1>2, <6>1
          <6> QED
            BY <4>1, <6>1, <6>2
        <5> QED
          BY <5>1, <5>2
      <4>2. ASSUME NEW c, NEW p \in 1..(q - 1), c \in ended'[p].brings
            PROVE  \E r \in 1..((q + 1) - 1) : c \in ended[r].brings
        BY <1>2, <3>1, <4>2
      <4>3. ASSUME NEW c, c \in x.brings PROVE \E r \in 1..((q + 1) - 1) : c \in ended[r].brings
        BY <1>1, <1>11, <4>3
      <4> QED
        BY <4>1, <4>2, <4>3
    <3>7. \A c : c \in KnownAt(q)' <=> c \in KnownAt(q + 1)
      BY <3>3, <3>4, <3>5, <3>6
    <3> QED
      BY <3>7
  <2>12. \A q \in 1..(l - 1) : OpenAt(q)' = OpenAt(q + 1)
    <3> SUFFICES ASSUME NEW q \in 1..(l - 1) PROVE OpenAt(q)' = OpenAt(q + 1)
      OBVIOUS
    <3>1. KnownAt(q)' = KnownAt(q + 1) /\ ReturnedAt(q)' = ReturnedAt(q + 1)
      BY <1>2, <2>10, <2>11
    <3>2. \A c : c \in OpenAt(q)' <=> c \in KnownAt(q)' /\ IsDelegate(c)' /\ c \notin ReturnedAt(q)'
      BY DEF OpenAt
    <3>3. \A c : c \in OpenAt(q + 1) <=> c \in KnownAt(q + 1) /\ IsDelegate(c) /\ c \notin ReturnedAt(q + 1)
      BY DEF OpenAt
    <3>4. KnownAt(q + 1) \subseteq Called
      BY DEF KnownAt
    <3>5. \A c : c \in OpenAt(q)' <=> c \in OpenAt(q + 1)
      BY <1>10, <3>1, <3>2, <3>3, <3>4
    <3> QED
      BY <3>5
  <2>13. \A c \in Called : calls'[c].seq # 0 \/ \E q \in 1..(l - 1) : c \in ended'[q].brings
    <3> SUFFICES ASSUME NEW c \in Called, calls'[c].seq = 0 PROVE \E q \in 1..(l - 1) : c \in ended'[q].brings
      OBVIOUS
    <3>1. calls[c].seq = 0 /\ c \notin x.brings
      BY <1>7, <1>9, <2>1
    <3>2. PICK q \in 1..l : c \in ended[q].brings
      BY <2>2, <3>1
    <3>3. q # 1
      BY <1>1, <3>1, <3>2
    <3>4. q - 1 \in 1..(l - 1) /\ (q - 1) + 1 = q
      BY <1>11, <3>3
    <3>5. ended'[q - 1] = ended[q]
      BY <1>2, <3>4
    <3> QED
      BY <3>2, <3>4, <3>5
  <2>14. PICK o : o = l - 1
    OBVIOUS
  <2>15. Len(ended') = o /\ ReturnedAt(o)' = ReturnedAt(l)
    <3>1. l - 1 \in 0..(l - 1) /\ (l - 1) + 1 = l
      BY <1>2
    <3>2. o \in 0..(l - 1) /\ o + 1 = l
      BY <2>14, <3>1
    <3> QED
      BY <1>2, <2>10, <2>14, <3>2
  <2>16. \A q \in 1..(l - 1) : IsLatest(ended'[q].by, OpenAt(q)') /\ Carries(ended'[q]) \subseteq KnownAt(q)'
    <3> SUFFICES ASSUME NEW q \in 1..(l - 1)
                 PROVE  IsLatest(ended'[q].by, OpenAt(q)') /\ Carries(ended'[q]) \subseteq KnownAt(q)'
      OBVIOUS
    <3>1. IsLatest(ended[q + 1].by, OpenAt(q + 1)) /\ Carries(ended[q + 1]) \subseteq KnownAt(q + 1)
      BY <1>11, <2>5
    <3>2. ended'[q] = ended[q + 1] /\ OpenAt(q)' = OpenAt(q + 1) /\ KnownAt(q)' = KnownAt(q + 1)
      BY <1>2, <2>11, <2>12
    <3> QED
      BY ONLY <3>1, <3>2
  <2>17. ASSUME NEW r \in Seqs', written'[r].type = "tool.result"
         PROVE  /\ written'[r].of \in Called /\ calls'[written'[r].of].seq # 0
                /\ written'[r].causes = {calls'[written'[r].of].seq}
    <3>1. CASE r \in Seqs
      BY <1>6, <1>9, <2>6, <2>17, <3>1
    <3>2. CASE r \in Grown
      <4>1. written'[r].of \in Carries(x) /\ written'[r].causes = {calls[written'[r].of].seq} \ {0}
        BY <1>8, <2>17, <3>2
      <4>2. written'[r].of \in Called /\ calls[written'[r].of].seq # 0
        BY <1>1, <1>2, <2>5, <2>8, <4>1
      <4> QED
        BY <1>9, <4>1, <4>2
    <3> QED
      BY <1>6, <3>1, <3>2
  <2>18. ASSUME NEW s \in Seqs', written'[s].type = "model.request", written'[s].of[2] # 0
         PROVE  written'[s].of[2] \in Called /\ calls'[written'[s].of[2]].seq # 0
    <3>1. CASE s \in Seqs
      BY <1>6, <1>9, <2>7, <2>18, <3>1
    <3>2. CASE s \in Grown
      <4>1. written'[s].of[2] = x.by
        BY <1>8, <2>18, <3>2
      <4>2. x.by \in OpenAt(1)
        BY <1>1, <1>2, <2>5, <2>18, <4>1 DEF IsLatest
      <4>3. x.by \in Called /\ calls[x.by].seq # 0
        BY <2>8, <4>2 DEF OpenAt
      <4> QED
        BY <1>9, <4>1, <4>3
    <3> QED
      BY <1>6, <3>1, <3>2
  <2>19. \A i \in 1..Len(talks) : talks[i].open \union talks[i].done \subseteq Called
    BY DEF GraphBooks, GraphTypes
  <2> QED
    BY <1>2, <1>7, <1>10, <2>3, <2>4, <2>13, <2>14, <2>15, <2>16, <2>17, <2>18, <2>19 DEF DelegateBooks
<1>17. NamesTheDelegate'
  <2> SUFFICES ASSUME lost' = 0, NEW s \in Seqs', written'[s].type = "model.request"
               PROVE  EnclosingDelegation(s)' = IF written'[s].of[2] = 0 THEN 0 ELSE calls'[written'[s].of[2]].seq
    BY DEF NamesTheDelegate
  <2>1. lost = 0
    BY <1>3
  <2>2. CASE s \in Seqs
    <3>1. written'[s] = written[s] /\ EnclosingDelegation(s)' = EnclosingDelegation(s)
      BY <1>5, <1>6, <2>2, EnclosingStays DEF GraphBooks
    <3>2. EnclosingDelegation(s) = IF written[s].of[2] = 0 THEN 0 ELSE calls[written[s].of[2]].seq
      BY <2>1, <2>2, <3>1 DEF GraphBooks, NamesTheDelegate
    <3>3. written[s].of[2] # 0 => written[s].of[2] \in Called /\ calls[written[s].of[2]].seq # 0
      BY <2>1, <2>2, <3>1 DEF GraphBooks, DelegateBooks
    <3> QED
      BY <1>9, <3>1, <3>2, <3>3
  <2>3. CASE s \in Grown
    <3>1. EnclosingDelegation(s)' = IF x.by = 0 THEN 0 ELSE calls[x.by].seq
      BY <1>1, <1>2, <1>5, <2>1, <2>3, WritesNames DEF GraphBooks
    <3>2. written'[s].of[2] = x.by
      BY <1>8, <2>3
    <3>3. x.by # 0 => calls'[x.by] = calls[x.by]
      <4>1. ASSUME x.by # 0 PROVE x.by \in OpenAt(1)
        BY <1>1, <1>2, <2>1, <4>1 DEF GraphBooks, DelegateBooks, IsLatest
      <4>2. KnownAt(1) = {c \in Called : calls[c].seq # 0}
        <5>1. 1..(1 - 1) = {}
          OBVIOUS
        <5> QED
          BY <5>1 DEF KnownAt
      <4> QED
        BY <1>9, <4>1, <4>2 DEF OpenAt
    <3> QED
      BY <3>1, <3>2, <3>3
  <2> QED
    BY <1>6, <2>2, <2>3
<1> QED
  BY <1>12, <1>13, <1>14, <1>15, <1>16, <1>17 DEF GraphBooks

LEMMA GraphKeepsBooks ==
  ASSUME GraphBooks, [GraphNext]_graphVars
  PROVE  GraphBooks'
<1>1. ASSUME NEW wish \in Wishes, Ends(wish) PROVE GraphBooks'
  BY <1>1, EndsBooks
<1>2. ASSUME NEW c \in DOMAIN calls, Runs(c) PROVE GraphBooks'
  BY <1>2, RunsBooks
<1>3. ASSUME NEW c \in DOMAIN calls, Delegates(c) PROVE GraphBooks'
  BY <1>3, DelegatesBooks
<1>4. ASSUME NEW kept \in 0..(MaxTurns * 4), Writes(kept) PROVE GraphBooks'
  <2>1. kept \in Nat
    BY CausalGraphAssumption
  <2> QED
    BY <1>4, <2>1, WritesBooks
<1>5. ASSUME Looks PROVE GraphBooks'
  BY <1>5, LooksBooks
<1>6. ASSUME Drains PROVE GraphBooks'
  BY <1>6, DrainsBooks
<1>7. ASSUME UNCHANGED graphVars PROVE GraphBooks'
  BY <1>7, GraphStutters
<1> QED
  BY <1>1, <1>2, <1>3, <1>4, <1>5, <1>6, <1>7 DEF GraphNext

\* Whatever the harness calls for and however late the recorder is, what a debugger
\* reads of a trace that holds what the run did is so: the chain to an effect passes
\* through the call that made it, where that call was written first and no other names
\* the same thing; a request that halts a replay is blamed on the delegation it was made
\* under.  And no edge of a trace that is still written, or was cut short, is withdrawn.
THEOREM WhatTheGraphSays == GraphSpec => []GraphIsTrue
<1>1. GraphInit => GraphBooks
  BY GraphInitBooks
<1>2. GraphBooks /\ [GraphNext]_graphVars => GraphBooks'
  BY GraphKeepsBooks
<1>3. GraphBooks => GraphIsTrue
  BY EffectsDoTrace, EdgesDoStand DEF GraphBooks, GraphIsTrue
<1> QED
  BY <1>1, <1>2, <1>3, PTL DEF GraphSpec

\* The bounds of the model are kept: no conversation is deeper, no exchange is begun and
\* no append rejected beyond them.
GraphBounds ==
  /\ Len(talks) <= MaxDepth /\ Len(ended) + turnNow <= MaxTurns /\ lost <= MaxLost

LEMMA GraphInitBounds == GraphInit => GraphBounds
BY CausalGraphAssumption DEF GraphInit, GraphBounds

LEMMA HarnessBounds ==
  ASSUME GraphBooks, GraphBounds,
         (\E wish \in Wishes : Ends(wish)) \/ \E c \in DOMAIN calls : Runs(c) \/ Delegates(c)
  PROVE  GraphBounds'
<1>1. /\ Len(talks) \in Nat /\ Len(ended) \in Nat /\ turnNow \in Nat /\ lost \in Nat
      /\ MaxDepth \in Nat /\ MaxTurns \in Nat
  BY Members, CausalGraphAssumption DEF GraphBooks, GraphTypes
<1>2. ASSUME NEW wish \in Wishes, Ends(wish) PROVE GraphBounds'
  <2>1. UNCHANGED <<turnNow, lost>> /\ Len(ended) + turnNow < MaxTurns
    BY <1>2 DEF Ends, Exchanges
  <2>2. Len(ended') = Len(ended) + 1
    BY <1>2, EndsEnded DEF GraphBooks
  <2>3. Len(talks') \in Nat /\ Len(talks') <= Len(talks)
    BY <1>2, EndsTalks DEF GraphBooks
  <2> QED
    BY <1>1, <2>1, <2>2, <2>3 DEF GraphBounds
<1>3. ASSUME NEW c \in DOMAIN calls, Runs(c) PROVE GraphBounds'
  <2>1. Len(talks') = Len(talks)
    BY <1>3, RunsIs DEF GraphBooks
  <2>2. UNCHANGED <<ended, turnNow, lost>>
    BY <1>3 DEF Runs
  <2> QED
    BY <2>1, <2>2 DEF GraphBounds
<1>4. ASSUME NEW c \in DOMAIN calls, Delegates(c) PROVE GraphBounds'
  <2>1. Len(talks') = Len(talks) + 1
    BY <1>4, DelegatesIs DEF GraphBooks
  <2>2. Len(talks) < MaxDepth /\ UNCHANGED <<ended, turnNow, lost>>
    BY <1>4 DEF Delegates
  <2> QED
    BY <1>1, <2>1, <2>2 DEF GraphBounds
<1> QED
  BY <1>2, <1>3, <1>4

LEMMA RecorderBounds ==
  ASSUME GraphBooks, GraphBounds, (\E kept \in Nat : Writes(kept)) \/ Looks \/ Drains
  PROVE  GraphBounds'
<1>1. /\ Len(talks) \in Nat /\ Len(ended) \in Nat /\ turnNow \in Nat /\ lost \in Nat
      /\ MaxTurns \in Nat /\ MaxLost \in Nat
  BY Members, CausalGraphAssumption DEF GraphBooks, GraphTypes
<1>2. ASSUME NEW kept \in Nat, Writes(kept) PROVE GraphBounds'
  <2>1. PICK x : x = ended[1]
    OBVIOUS
  <2>2. Len(ended') = Len(ended) - 1
    BY <1>2, <2>1, WritesIs DEF GraphBooks
  <2>3. talks' = talks /\ turnNow' = turnNow + 1 /\ (lost' = lost \/ (lost' = lost + 1 /\ lost < MaxLost))
    BY <1>2 DEF Writes
  <2> QED
    BY <1>1, <2>2, <2>3 DEF GraphBounds
<1>3. ASSUME Looks \/ Drains PROVE GraphBounds'
  BY <1>3 DEF Looks, Drains, GraphBounds
<1> QED
  BY <1>2, <1>3

\* The history and the recorder agree about what has been written: a call that has a seq
\* is there, and nothing is caused by what comes after it.
THEOREM GraphTypeCorrect == GraphSpec => []GraphTypeOK
<1>1. GraphInit => GraphBooks /\ GraphBounds
  BY GraphInitBooks, GraphInitBounds
<1>2. GraphBooks /\ GraphBounds /\ [GraphNext]_graphVars => GraphBooks' /\ GraphBounds'
  <2> SUFFICES ASSUME GraphBooks, GraphBounds, [GraphNext]_graphVars PROVE GraphBounds'
    BY GraphKeepsBooks
  <2>1. CASE UNCHANGED graphVars
    BY <2>1 DEF graphVars, GraphBounds
  <2>2. CASE (\E wish \in Wishes : Ends(wish)) \/ \E c \in DOMAIN calls : Runs(c) \/ Delegates(c)
    BY <2>2, HarnessBounds
  <2>3. CASE (\E kept \in 0..(MaxTurns * 4) : Writes(kept)) \/ Looks \/ Drains
    <3>1. 0..(MaxTurns * 4) \subseteq Nat
      BY CausalGraphAssumption
    <3>2. (\E kept \in Nat : Writes(kept)) \/ Looks \/ Drains
      BY <2>3, <3>1
    <3> QED
      BY <3>2, RecorderBounds
  <2> QED
    BY <2>1, <2>2, <2>3 DEF GraphNext
<1>3. GraphBooks /\ GraphBounds => GraphTypeOK
  <2> SUFFICES ASSUME GraphBooks, GraphBounds PROVE GraphTypeOK
    OBVIOUS
  <2>1. Called = DOMAIN calls /\ Len(ended) \in Nat /\ turnNow \in Nat /\ MaxTurns \in Nat
    BY Members, CausalGraphAssumption DEF GraphBooks, GraphTypes
  <2>2. turnNow <= MaxTurns
    BY <2>1 DEF GraphBounds
  <2> QED
    BY <2>1, <2>2 DEF GraphBounds, GraphBooks, GraphTypes, CallBooks, IsCall, GraphTypeOK
<1> QED
  BY <1>1, <1>2, <1>3, PTL DEF GraphSpec

=============================================================================
