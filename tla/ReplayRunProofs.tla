--------------------------- MODULE ReplayRunProofs ---------------------------
(***************************************************************************)
(* What a command of the CLI, the retrieval index and the MCP mock         *)
(* guarantee for every set of exchanges, of texts, of requests and of      *)
(* calls and for every bound.                                              *)
(*                                                                         *)
(* The session: a command leaves no proxy, no gateway key and no half      *)
(* sealed run behind, however it ends, and a recording holds every event   *)
(* of every exchange except those a failed write or a kill accounts for.   *)
(*                                                                         *)
(* The retrieval index: a recorded call answers once, an answer carries    *)
(* the vector of each text under that text's index, "no match" is said     *)
(* only when it is true, and every call is counted.                        *)
(*                                                                         *)
(* The MCP mock: it answers each question with what the server said to     *)
(* it, in the order the server said it.                                    *)
(***************************************************************************)
EXTENDS RunSession, RetrievalReplay, McpReplay,
        FiniteSetTheorems, SequenceTheorems, WellFoundedInduction, TLAPS

-----------------------------------------------------------------------------
(* The session. *)

(***************************************************************************)
(* Where in its plan a command has run.end written, its run sealed, its    *)
(* proxy closed and its key removed.                                       *)
(***************************************************************************)
EndedAt == [record |-> 9, fork |-> 5, replay |-> 6, attach |-> 8]
SealedAt == [record |-> 10, fork |-> 6, replay |-> 7, attach |-> 9]
ClosedAt == [record |-> 5, fork |-> 7, replay |-> 4, attach |-> 6]
DisposedAt == [record |-> 7, fork |-> 8, replay |-> 8, attach |-> 7]

InPlan ==
  main = "working" =>
    /\ (at > 1) <=> Has("run.start")
    /\ (at > EndedAt[command]) <=> Has("run.end")
    /\ (at > SealedAt[command]) <=> sealed
    /\ at > ClosedAt[command] => proxy = "closed"
    /\ at > DisposedAt[command] => ~ key
    /\ command = "attach" /\ at <= 2 => proxy = "closed"

InAbandon ==
  main = "abandoning" =>
    /\ at > 1 /\ command # "attach" => proxy = "closed"
    /\ at > 3 /\ command \in {"record", "fork"} => ~ key
    /\ at > 4 /\ command = "replay" => sealed \/ faults > 0
    /\ at > 2 /\ command = "attach" => proxy = "closed"
    /\ command = "attach" => ~ sealed

ErrorsHaveCause == errors => faults > 0 \/ sealed

Progress == InPlan /\ InAbandon /\ ErrorsHaveCause /\ LeavesNothingBehind

(* The plans, step by step: where a command can be, and what it does there. *)

LEMMA RecordSteps ==
  ASSUME command = "record", main # "abandoning", at \in 1..Len(Plan)
  PROVE  /\ Len(Plan) = 10
         /\ \/ at = 1 /\ Plan[at] = "run.start"
            \/ at = 2 /\ Plan[at] = "run"
            \/ at = 3 /\ Plan[at] = "drain"
            \/ at = 4 /\ Plan[at] = "frames"
            \/ at = 5 /\ Plan[at] = "close proxy"
            \/ at = 6 /\ Plan[at] = "drain"
            \/ at = 7 /\ Plan[at] = "dispose"
            \/ at = 8 /\ Plan[at] = "frames"
            \/ at = 9 /\ Plan[at] = "run.end"
            \/ at = 10 /\ Plan[at] = "seal"
<1>1. Len(Plan) = 10
  BY DEF Plan, Plans, RecordPlan
<1>2. at = 1 \/ at = 2 \/ at = 3 \/ at = 4 \/ at = 5
      \/ at = 6 \/ at = 7 \/ at = 8 \/ at = 9 \/ at = 10
  BY <1>1
<1>3. /\ Plan[1] = "run.start" /\ Plan[2] = "run" /\ Plan[3] = "drain"
      /\ Plan[4] = "frames" /\ Plan[5] = "close proxy" /\ Plan[6] = "drain"
      /\ Plan[7] = "dispose" /\ Plan[8] = "frames" /\ Plan[9] = "run.end"
      /\ Plan[10] = "seal"
  BY DEF Plan, Plans, RecordPlan
<1> QED BY <1>1, <1>2, <1>3

LEMMA ForkSteps ==
  ASSUME command = "fork", main # "abandoning", at \in 1..Len(Plan)
  PROVE  /\ Len(Plan) = 8
         /\ \/ at = 1 /\ Plan[at] = "run.start"
            \/ at = 2 /\ Plan[at] = "run"
            \/ at = 3 /\ Plan[at] = "drain"
            \/ at = 4 /\ Plan[at] = "frames"
            \/ at = 5 /\ Plan[at] = "run.end"
            \/ at = 6 /\ Plan[at] = "seal"
            \/ at = 7 /\ Plan[at] = "close proxy"
            \/ at = 8 /\ Plan[at] = "dispose"
<1>1. Len(Plan) = 8
  BY DEF Plan, Plans, ForkPlan
<1>2. at = 1 \/ at = 2 \/ at = 3 \/ at = 4 \/ at = 5
      \/ at = 6 \/ at = 7 \/ at = 8
  BY <1>1
<1>3. /\ Plan[1] = "run.start" /\ Plan[2] = "run" /\ Plan[3] = "drain"
      /\ Plan[4] = "frames" /\ Plan[5] = "run.end" /\ Plan[6] = "seal"
      /\ Plan[7] = "close proxy" /\ Plan[8] = "dispose"
  BY DEF Plan, Plans, ForkPlan
<1> QED BY <1>1, <1>2, <1>3

LEMMA ReplaySteps ==
  ASSUME command = "replay", main # "abandoning", at \in 1..Len(Plan)
  PROVE  /\ Len(Plan) = 8
         /\ \/ at = 1 /\ Plan[at] = "run.start"
            \/ at = 2 /\ Plan[at] = "run"
            \/ at = 3 /\ Plan[at] = "drain"
            \/ at = 4 /\ Plan[at] = "close proxy"
            \/ at = 5 /\ Plan[at] = "frames"
            \/ at = 6 /\ Plan[at] = "run.end"
            \/ at = 7 /\ Plan[at] = "seal"
            \/ at = 8 /\ Plan[at] = "dispose"
<1>1. Len(Plan) = 8
  BY DEF Plan, Plans, ReplayPlan
<1>2. at = 1 \/ at = 2 \/ at = 3 \/ at = 4 \/ at = 5
      \/ at = 6 \/ at = 7 \/ at = 8
  BY <1>1
<1>3. /\ Plan[1] = "run.start" /\ Plan[2] = "run" /\ Plan[3] = "drain"
      /\ Plan[4] = "close proxy" /\ Plan[5] = "frames" /\ Plan[6] = "run.end"
      /\ Plan[7] = "seal" /\ Plan[8] = "dispose"
  BY DEF Plan, Plans, ReplayPlan
<1> QED BY <1>1, <1>2, <1>3

LEMMA AttachSteps ==
  ASSUME command = "attach", main # "abandoning", at \in 1..Len(Plan)
  PROVE  /\ Len(Plan) = 9
         /\ \/ at = 1 /\ Plan[at] = "run.start"
            \/ at = 2 /\ Plan[at] = "listen"
            \/ at = 3 /\ Plan[at] = "frames"
            \/ at = 4 /\ Plan[at] = "run"
            \/ at = 5 /\ Plan[at] = "drain"
            \/ at = 6 /\ Plan[at] = "close proxy"
            \/ at = 7 /\ Plan[at] = "dispose"
            \/ at = 8 /\ Plan[at] = "run.end"
            \/ at = 9 /\ Plan[at] = "seal"
<1>1. Len(Plan) = 9
  BY DEF Plan, Plans, AttachPlan
<1>2. at = 1 \/ at = 2 \/ at = 3 \/ at = 4 \/ at = 5
      \/ at = 6 \/ at = 7 \/ at = 8 \/ at = 9
  BY <1>1
<1>3. /\ Plan[1] = "run.start" /\ Plan[2] = "listen" /\ Plan[3] = "frames"
      /\ Plan[4] = "run" /\ Plan[5] = "drain" /\ Plan[6] = "close proxy"
      /\ Plan[7] = "dispose" /\ Plan[8] = "run.end" /\ Plan[9] = "seal"
  BY DEF Plan, Plans, AttachPlan
<1> QED BY <1>1, <1>2, <1>3

LEMMA RecordAbandonSteps ==
  ASSUME command = "record", main = "abandoning", at \in 1..Len(Plan)
  PROVE  /\ Len(Plan) = 5
         /\ \/ at = 1 /\ Plan[at] = "close proxy"
            \/ at = 2 /\ Plan[at] = "drain"
            \/ at = 3 /\ Plan[at] = "dispose"
            \/ at = 4 /\ Plan[at] = "run.end"
            \/ at = 5 /\ Plan[at] = "seal"
<1>1. Len(Plan) = 5
  BY DEF Plan, AbandonPlans, RecordAbandon
<1>2. at = 1 \/ at = 2 \/ at = 3 \/ at = 4 \/ at = 5
  BY <1>1
<1>3. /\ Plan[1] = "close proxy" /\ Plan[2] = "drain" /\ Plan[3] = "dispose"
      /\ Plan[4] = "run.end" /\ Plan[5] = "seal"
  BY DEF Plan, AbandonPlans, RecordAbandon
<1> QED BY <1>1, <1>2, <1>3

LEMMA ForkAbandonSteps ==
  ASSUME command = "fork", main = "abandoning", at \in 1..Len(Plan)
  PROVE  /\ Len(Plan) = 5
         /\ \/ at = 1 /\ Plan[at] = "close proxy"
            \/ at = 2 /\ Plan[at] = "drain"
            \/ at = 3 /\ Plan[at] = "dispose"
            \/ at = 4 /\ Plan[at] = "run.end"
            \/ at = 5 /\ Plan[at] = "seal"
<1>1. Len(Plan) = 5
  BY DEF Plan, AbandonPlans, RecordAbandon
<1>2. at = 1 \/ at = 2 \/ at = 3 \/ at = 4 \/ at = 5
  BY <1>1
<1>3. /\ Plan[1] = "close proxy" /\ Plan[2] = "drain" /\ Plan[3] = "dispose"
      /\ Plan[4] = "run.end" /\ Plan[5] = "seal"
  BY DEF Plan, AbandonPlans, RecordAbandon
<1> QED BY <1>1, <1>2, <1>3

LEMMA ReplayAbandonSteps ==
  ASSUME command = "replay", main = "abandoning", at \in 1..Len(Plan)
  PROVE  /\ Len(Plan) = 5
         /\ \/ at = 1 /\ Plan[at] = "close proxy"
            \/ at = 2 /\ Plan[at] = "drain"
            \/ at = 3 /\ Plan[at] = "run.end"
            \/ at = 4 /\ Plan[at] = "seal"
            \/ at = 5 /\ Plan[at] = "dispose"
<1>1. Len(Plan) = 5
  BY DEF Plan, AbandonPlans, ReplayAbandon
<1>2. at = 1 \/ at = 2 \/ at = 3 \/ at = 4 \/ at = 5
  BY <1>1
<1>3. /\ Plan[1] = "close proxy" /\ Plan[2] = "drain" /\ Plan[3] = "run.end"
      /\ Plan[4] = "seal" /\ Plan[5] = "dispose"
  BY DEF Plan, AbandonPlans, ReplayAbandon
<1> QED BY <1>1, <1>2, <1>3

LEMMA AttachFinallySteps ==
  ASSUME command = "attach", main = "abandoning", at \in 1..Len(Plan)
  PROVE  /\ Len(Plan) = 3
         /\ \/ at = 1 /\ Plan[at] = "drain"
            \/ at = 2 /\ Plan[at] = "close proxy"
            \/ at = 3 /\ Plan[at] = "dispose"
<1>1. Len(Plan) = 3
  BY DEF Plan, AbandonPlans, AttachFinally
<1>2. at = 1 \/ at = 2 \/ at = 3
  BY <1>1
<1>3. /\ Plan[1] = "drain" /\ Plan[2] = "close proxy" /\ Plan[3] = "dispose"
  BY DEF Plan, AbandonPlans, AttachFinally
<1> QED BY <1>1, <1>2, <1>3

LEMMA HasAppended ==
  ASSUME SessionTypeOK, NEW event, trace' = Append(trace, event), NEW e
  PROVE  Has(e)' <=> (Has(e) \/ e = event)
<1>1. /\ Len(trace) \in Nat /\ Len(trace') = Len(trace) + 1
      /\ \A i \in 1..Len(trace) : trace'[i] = trace[i]
      /\ trace'[Len(trace) + 1] = event
  BY DEF SessionTypeOK
<1> QED BY <1>1 DEF Has

(* What an append of the command does to the bracket. *)

LEMMA HasSame ==
  ASSUME trace' = trace, NEW e
  PROVE  Has(e)' <=> Has(e)
BY DEF Has

LEMMA WritesMove ==
  ASSUME SessionTypeOK, NEW step \in {"run.start", "frames", "run.end"}, Writes(step)
  PROVE  /\ command' = command /\ proxy' = proxy /\ errors' = errors /\ sealed' = sealed
         /\ handler' = handler /\ gone' = gone /\ queue' = queue
         /\ Doing(step)
         /\ \/ /\ ~ Refuses(step) /\ Advance /\ key' = key /\ faults' = faults
               /\ \A e : Has(e)' <=> (Has(e) \/ e = step)
               /\ trace' = Append(trace, step)
            \/ /\ faults' = faults + 1 /\ Throw /\ trace' = trace
               /\ \A e : Has(e)' <=> Has(e)
            \/ /\ Refuses(step) /\ Throw /\ faults' = faults /\ trace' = trace
               /\ \A e : Has(e)' <=> Has(e)
<1>1. CASE ~ Refuses(step) /\ Accept(step) /\ Advance /\ UNCHANGED key
  <2>1. trace' = Append(trace, step)
    BY <1>1 DEF Accept
  <2>2. \A e : Has(e)' <=> (Has(e) \/ e = step)
    BY <2>1, HasAppended
  <2> QED BY <1>1, <2>1, <2>2 DEF Writes, Accept, proxyVars, queueVars
<1>2. CASE Fault /\ Throw
  <2>1. trace' = trace
    BY <1>2 DEF Fault
  <2>2. \A e : Has(e)' <=> Has(e)
    BY <2>1, HasSame
  <2> QED BY <1>2, <2>1, <2>2 DEF Writes, Fault, proxyVars, queueVars
<1>3. CASE Refuses(step) /\ Throw /\ UNCHANGED writerVars
  <2>1. trace' = trace
    BY <1>3 DEF writerVars
  <2>2. \A e : Has(e)' <=> Has(e)
    BY <2>1, HasSame
  <2> QED BY <1>3, <2>1, <2>2 DEF Writes, writerVars, proxyVars, queueVars
<1> QED BY <1>1, <1>2, <1>3 DEF Writes

LEMMA RecordWrites ==
  ASSUME SessionTypeOK, Progress, command = "record",
         NEW step \in {"run.start", "frames", "run.end"}, Writes(step)
  PROVE  Progress'
<1>1. /\ command' = command /\ proxy' = proxy /\ errors' = errors /\ sealed' = sealed
      /\ Doing(step)
      /\ \/ /\ ~ Refuses(step) /\ Advance /\ key' = key /\ faults' = faults
            /\ \A e : Has(e)' <=> (Has(e) \/ e = step)
         \/ /\ faults' = faults + 1 /\ Throw
            /\ \A e : Has(e)' <=> Has(e)
         \/ /\ Refuses(step) /\ Throw /\ faults' = faults
            /\ \A e : Has(e)' <=> Has(e)
  BY WritesMove
<1>2. faults \in Nat /\ at \in 1..Len(Plan)
  BY DEF SessionTypeOK
<1>3. CASE main = "working"
  <2>1. at \in 1..10 /\ Len(Plan) = 10
    BY <1>2, <1>3, RecordSteps
  <2>2. /\ step = "run.start" => at = 1
        /\ step = "frames" => at \in {4, 8}
        /\ step = "run.end" => at = 9
    BY <1>1, <1>3, <2>1, RecordSteps DEF Doing
  <2>3. ~ Refuses(step)
    BY <1>3, <2>1, <2>2 DEF Refuses, Progress, InPlan, EndedAt, SealedAt
  <2>4. CASE Advance /\ key' = key /\ faults' = faults /\ \A e : Has(e)' <=> (Has(e) \/ e = step)
    <3>1. at' = at + 1 /\ main' = "working"
      BY <1>3, <2>1, <2>2, <2>4 DEF Advance
    <3>2. InPlan'
      BY <1>1, <1>2, <1>3, <2>1, <2>2, <2>4, <3>1
         DEF InPlan, Progress, EndedAt, SealedAt, ClosedAt, DisposedAt
    <3> QED BY <1>1, <2>4, <3>1, <3>2
         DEF Progress, InAbandon, ErrorsHaveCause, LeavesNothingBehind, Over
  <2>5. CASE faults' = faults + 1 /\ Throw
    <3>1. ~ Guarded
      BY <1>1, <1>3, <2>1, <2>2, RecordSteps DEF Guarded, Doing
    <3>2. main' = "threw" /\ ~ key'
      BY <1>3, <2>5, <3>1 DEF Throw
    <3> QED BY <1>1, <1>2, <2>5, <3>2
         DEF Progress, InPlan, InAbandon, ErrorsHaveCause, LeavesNothingBehind, Over
  <2> QED BY <1>1, <2>3, <2>4, <2>5
<1>4. CASE main = "abandoning"
  <2>1. at \in 1..5 /\ Len(Plan) = 5
    BY <1>2, <1>4, RecordAbandonSteps
  <2>2. step = "run.end" /\ at = 4
    BY <1>1, <1>4, <2>1, RecordAbandonSteps DEF Doing
  <2>3. at' = 5 /\ main' = "abandoning" /\ key' = key
    BY <1>1, <1>4, <2>1, <2>2 DEF Throw, Advance
  <2>4. faults' \in Nat /\ (faults > 0 => faults' > 0)
    BY <1>1, <1>2
  <2> QED BY <1>1, <1>2, <1>4, <2>2, <2>3, <2>4
       DEF Progress, InPlan, InAbandon, ErrorsHaveCause, LeavesNothingBehind, Over
<1> QED BY <1>1, <1>3, <1>4 DEF Doing, Over, SessionTypeOK

LEMMA ForkWrites ==
  ASSUME SessionTypeOK, Progress, command = "fork",
         NEW step \in {"run.start", "frames", "run.end"}, Writes(step)
  PROVE  Progress'
<1>1. /\ command' = command /\ proxy' = proxy /\ errors' = errors /\ sealed' = sealed
      /\ Doing(step)
      /\ \/ /\ ~ Refuses(step) /\ Advance /\ key' = key /\ faults' = faults
            /\ \A e : Has(e)' <=> (Has(e) \/ e = step)
         \/ /\ faults' = faults + 1 /\ Throw
            /\ \A e : Has(e)' <=> Has(e)
         \/ /\ Refuses(step) /\ Throw /\ faults' = faults
            /\ \A e : Has(e)' <=> Has(e)
  BY WritesMove
<1>2. faults \in Nat /\ at \in 1..Len(Plan)
  BY DEF SessionTypeOK
<1>3. CASE main = "working"
  <2>1. at \in 1..8 /\ Len(Plan) = 8
    BY <1>2, <1>3, ForkSteps
  <2>2. /\ step = "run.start" => at = 1
        /\ step = "frames" => at = 4
        /\ step = "run.end" => at = 5
    BY <1>1, <1>3, <2>1, ForkSteps DEF Doing
  <2>3. ~ Refuses(step)
    BY <1>3, <2>1, <2>2 DEF Refuses, Progress, InPlan, EndedAt, SealedAt
  <2>4. CASE Advance /\ key' = key /\ faults' = faults /\ \A e : Has(e)' <=> (Has(e) \/ e = step)
    <3>1. at' = at + 1 /\ main' = "working"
      BY <1>3, <2>1, <2>2, <2>4 DEF Advance
    <3>2. InPlan'
      BY <1>1, <1>2, <1>3, <2>1, <2>2, <2>4, <3>1
         DEF InPlan, Progress, EndedAt, SealedAt, ClosedAt, DisposedAt
    <3> QED BY <1>1, <2>4, <3>1, <3>2
         DEF Progress, InAbandon, ErrorsHaveCause, LeavesNothingBehind, Over
  <2>5. CASE faults' = faults + 1 /\ Throw
    <3>1. ~ Guarded
      BY <1>1, <1>3, <2>1, <2>2, ForkSteps DEF Guarded, Doing
    <3>2. main' = "threw"
      BY <1>3, <2>5, <3>1 DEF Throw
    <3> QED BY <1>1, <1>2, <2>5, <3>2
         DEF Progress, InPlan, InAbandon, ErrorsHaveCause, LeavesNothingBehind, Over
  <2> QED BY <1>1, <2>3, <2>4, <2>5
<1>4. CASE main = "abandoning"
  <2>1. at \in 1..5 /\ Len(Plan) = 5
    BY <1>2, <1>4, ForkAbandonSteps
  <2>2. step = "run.end" /\ at = 4
    BY <1>1, <1>4, <2>1, ForkAbandonSteps DEF Doing
  <2>3. at' = 5 /\ main' = "abandoning" /\ key' = key
    BY <1>1, <1>4, <2>1, <2>2 DEF Throw, Advance
  <2>4. faults' \in Nat /\ (faults > 0 => faults' > 0)
    BY <1>1, <1>2
  <2> QED BY <1>1, <1>2, <1>4, <2>2, <2>3, <2>4
       DEF Progress, InPlan, InAbandon, ErrorsHaveCause, LeavesNothingBehind, Over
<1> QED BY <1>1, <1>3, <1>4 DEF Doing, Over, SessionTypeOK

LEMMA ReplayWrites ==
  ASSUME SessionTypeOK, Progress, command = "replay",
         NEW step \in {"run.start", "frames", "run.end"}, Writes(step)
  PROVE  Progress'
<1>1. /\ command' = command /\ proxy' = proxy /\ errors' = errors /\ sealed' = sealed
      /\ Doing(step)
      /\ \/ /\ ~ Refuses(step) /\ Advance /\ key' = key /\ faults' = faults
            /\ \A e : Has(e)' <=> (Has(e) \/ e = step)
         \/ /\ faults' = faults + 1 /\ Throw
            /\ \A e : Has(e)' <=> Has(e)
         \/ /\ Refuses(step) /\ Throw /\ faults' = faults
            /\ \A e : Has(e)' <=> Has(e)
  BY WritesMove
<1>2. faults \in Nat /\ at \in 1..Len(Plan)
  BY DEF SessionTypeOK
<1>3. CASE main = "working"
  <2>1. at \in 1..8 /\ Len(Plan) = 8
    BY <1>2, <1>3, ReplaySteps
  <2>2. /\ step = "run.start" => at = 1
        /\ step = "frames" => at = 5
        /\ step = "run.end" => at = 6
    BY <1>1, <1>3, <2>1, ReplaySteps DEF Doing
  <2>3. ~ Refuses(step)
    BY <1>3, <2>1, <2>2 DEF Refuses, Progress, InPlan, EndedAt, SealedAt
  <2>4. CASE Advance /\ key' = key /\ faults' = faults /\ \A e : Has(e)' <=> (Has(e) \/ e = step)
    <3>1. at' = at + 1 /\ main' = "working"
      BY <1>3, <2>1, <2>2, <2>4 DEF Advance
    <3>2. InPlan'
      BY <1>1, <1>2, <1>3, <2>1, <2>2, <2>4, <3>1
         DEF InPlan, Progress, EndedAt, SealedAt, ClosedAt, DisposedAt
    <3> QED BY <1>1, <2>4, <3>1, <3>2
         DEF Progress, InAbandon, ErrorsHaveCause, LeavesNothingBehind, Over
  <2>5. CASE faults' = faults + 1 /\ Throw
    <3>1. Guarded
      BY DEF Guarded
    <3>2. main' = "abandoning" /\ at' = 1
      BY <1>3, <2>5, <3>1 DEF Throw
    <3> QED BY <1>1, <1>2, <2>5, <3>2
         DEF Progress, InPlan, InAbandon, ErrorsHaveCause, LeavesNothingBehind, Over
  <2> QED BY <1>1, <2>3, <2>4, <2>5
<1>4. CASE main = "abandoning"
  <2>1. at \in 1..5 /\ Len(Plan) = 5
    BY <1>2, <1>4, ReplayAbandonSteps
  <2>2. step = "run.end" /\ at = 3
    BY <1>1, <1>4, <2>1, ReplayAbandonSteps DEF Doing
  <2>3. at' = 4 /\ main' = "abandoning" /\ key' = key
    BY <1>1, <1>4, <2>1, <2>2 DEF Throw, Advance
  <2>4. faults' \in Nat /\ (faults > 0 => faults' > 0)
    BY <1>1, <1>2
  <2> QED BY <1>1, <1>2, <1>4, <2>2, <2>3, <2>4
       DEF Progress, InPlan, InAbandon, ErrorsHaveCause, LeavesNothingBehind, Over
<1> QED BY <1>1, <1>3, <1>4 DEF Doing, Over, SessionTypeOK

LEMMA AttachWrites ==
  ASSUME SessionTypeOK, Progress, command = "attach",
         NEW step \in {"run.start", "frames", "run.end"}, Writes(step)
  PROVE  Progress'
<1>1. /\ command' = command /\ proxy' = proxy /\ errors' = errors /\ sealed' = sealed
      /\ Doing(step)
      /\ \/ /\ ~ Refuses(step) /\ Advance /\ key' = key /\ faults' = faults
            /\ \A e : Has(e)' <=> (Has(e) \/ e = step)
         \/ /\ faults' = faults + 1 /\ Throw
            /\ \A e : Has(e)' <=> Has(e)
         \/ /\ Refuses(step) /\ Throw /\ faults' = faults
            /\ \A e : Has(e)' <=> Has(e)
  BY WritesMove
<1>2. faults \in Nat /\ at \in 1..Len(Plan)
  BY DEF SessionTypeOK
<1>3. CASE main = "working"
  <2>1. at \in 1..9 /\ Len(Plan) = 9
    BY <1>2, <1>3, AttachSteps
  <2>2. /\ step = "run.start" => at = 1
        /\ step = "frames" => at = 3
        /\ step = "run.end" => at = 8
    BY <1>1, <1>3, <2>1, AttachSteps DEF Doing
  <2>3. ~ Refuses(step)
    BY <1>3, <2>1, <2>2 DEF Refuses, Progress, InPlan, EndedAt, SealedAt
  <2>4. CASE Advance /\ key' = key /\ faults' = faults /\ \A e : Has(e)' <=> (Has(e) \/ e = step)
    <3>1. at' = at + 1 /\ main' = "working"
      BY <1>3, <2>1, <2>2, <2>4 DEF Advance
    <3>2. InPlan'
      BY <1>1, <1>2, <1>3, <2>1, <2>2, <2>4, <3>1
         DEF InPlan, Progress, EndedAt, SealedAt, ClosedAt, DisposedAt
    <3> QED BY <1>1, <2>4, <3>1, <3>2
         DEF Progress, InAbandon, ErrorsHaveCause, LeavesNothingBehind, Over
  <2>5. CASE faults' = faults + 1 /\ Throw
    <3>1. \/ main' = "abandoning" /\ at' = 1
          \/ main' = "threw" /\ ~ key'
      BY <1>3, <2>5 DEF Throw
    <3>2. ~ sealed
      BY <1>3, <2>1, <2>2 DEF Progress, InPlan, SealedAt
    <3> QED BY <1>1, <1>2, <2>5, <3>1, <3>2
         DEF Progress, InPlan, InAbandon, ErrorsHaveCause, LeavesNothingBehind, Over
  <2> QED BY <1>1, <2>3, <2>4, <2>5
<1>4. main # "abandoning"
  BY <1>1, <1>2, AttachFinallySteps DEF Doing
<1> QED BY <1>1, <1>3, <1>4 DEF Doing, Over, SessionTypeOK

(* Every other step of a command leaves the trace, the queue and the exchanges. *)

LEMMA ListenIs ==
  ASSUME Listen
  PROVE  /\ command' = command /\ errors' = errors /\ trace' = trace /\ gone' = gone
         /\ handler' = handler /\ queue' = queue /\ Doing("listen") /\ sealed' = sealed
         /\ faults' = faults
         /\ \A e : Has(e)' <=> Has(e)
         /\ \/ proxy' = "listening" /\ Advance /\ key' = key
            \/ proxy' = proxy /\ Throw
<1>1. trace' = trace
  BY DEF Listen, queueVars, writerVars
<1>2. \A e : Has(e)' <=> Has(e)
  BY <1>1, HasSame
<1> QED BY <1>1, <1>2 DEF Listen, queueVars, writerVars

LEMMA RunIs ==
  ASSUME Run
  PROVE  /\ command' = command /\ errors' = errors /\ trace' = trace /\ gone' = gone
         /\ handler' = handler /\ queue' = queue /\ Doing("run") /\ sealed' = sealed
         /\ faults' = faults /\ proxy' = proxy
         /\ \A e : Has(e)' <=> Has(e)
         /\ \/ Advance /\ key' = key
            \/ Throw
<1>1. trace' = trace
  BY DEF Run, proxyVars, queueVars, writerVars
<1>2. \A e : Has(e)' <=> Has(e)
  BY <1>1, HasSame
<1> QED BY <1>1, <1>2 DEF Run, proxyVars, queueVars, writerVars

LEMMA DrainIs ==
  ASSUME Drain
  PROVE  /\ command' = command /\ errors' = errors /\ trace' = trace /\ gone' = gone
         /\ handler' = handler /\ queue' = queue /\ Doing("drain") /\ sealed' = sealed
         /\ faults' = faults /\ proxy' = proxy /\ queue = << >>
         /\ \A e : Has(e)' <=> Has(e)
         /\ \/ ~ errors /\ Advance /\ key' = key
            \/ errors /\ Throw
<1>1. trace' = trace
  BY DEF Drain, proxyVars, queueVars, writerVars
<1>2. \A e : Has(e)' <=> Has(e)
  BY <1>1, HasSame
<1> QED BY <1>1, <1>2 DEF Drain, proxyVars, queueVars, writerVars

LEMMA CloseProxyIs ==
  ASSUME CloseProxy
  PROVE  /\ command' = command /\ errors' = errors /\ trace' = trace /\ gone' = gone
         /\ handler' = handler /\ queue' = queue /\ Doing("close proxy") /\ sealed' = sealed
         /\ faults' = faults /\ proxy = "listening" /\ proxy' = "closing" /\ main' = main
         /\ at' = at /\ key' = key
         /\ \A e : Has(e)' <=> Has(e)
<1>1. trace' = trace
  BY DEF CloseProxy, mainVars, queueVars, writerVars
<1>2. \A e : Has(e)' <=> Has(e)
  BY <1>1, HasSame
<1> QED BY <1>1, <1>2 DEF CloseProxy, mainVars, queueVars, writerVars

LEMMA ProxyClosesIs ==
  ASSUME ProxyCloses
  PROVE  /\ command' = command /\ errors' = errors /\ trace' = trace /\ gone' = gone
         /\ handler' = handler /\ queue' = queue /\ Doing("close proxy") /\ sealed' = sealed
         /\ faults' = faults /\ proxy' = "closed" /\ Advance /\ key' = key
         /\ \A e : Has(e)' <=> Has(e)
<1>1. trace' = trace
  BY DEF ProxyCloses, queueVars, writerVars
<1>2. \A e : Has(e)' <=> Has(e)
  BY <1>1, HasSame
<1> QED BY <1>1, <1>2 DEF ProxyCloses, queueVars, writerVars

LEMMA DisposeIs ==
  ASSUME Dispose
  PROVE  /\ command' = command /\ errors' = errors /\ trace' = trace /\ gone' = gone
         /\ handler' = handler /\ queue' = queue /\ Doing("dispose") /\ sealed' = sealed
         /\ faults' = faults /\ proxy' = proxy /\ Advance /\ key' = FALSE
         /\ \A e : Has(e)' <=> Has(e)
<1>1. trace' = trace
  BY DEF Dispose, proxyVars, queueVars, writerVars
<1>2. \A e : Has(e)' <=> Has(e)
  BY <1>1, HasSame
<1> QED BY <1>1, <1>2 DEF Dispose, proxyVars, queueVars, writerVars

LEMMA SealIs ==
  ASSUME Seal
  PROVE  /\ command' = command /\ errors' = errors /\ trace' = trace /\ gone' = gone
         /\ handler' = handler /\ queue' = queue /\ Doing("seal") /\ proxy' = proxy
         /\ \A e : Has(e)' <=> Has(e)
         /\ \/ sealed' = TRUE /\ faults' = faults /\ Advance /\ key' = key
            \/ sealed' = sealed /\ faults' = faults + 1 /\ Throw
<1>1. trace' = trace
  BY DEF Seal, proxyVars, queueVars, Fault
<1>2. \A e : Has(e)' <=> Has(e)
  BY <1>1, HasSame
<1> QED BY <1>1, <1>2 DEF Seal, proxyVars, queueVars, Fault

Moves == Listen \/ Run \/ Drain \/ CloseProxy \/ ProxyCloses \/ Dispose \/ Seal

LEMMA RecordMoves ==
  ASSUME SessionTypeOK, Progress, command = "record", Moves
  PROVE  Progress'
<1>1. faults \in Nat /\ at \in 1..Len(Plan)
  BY DEF SessionTypeOK
<1>2. CASE main = "working"
  <2>1. Advance => IF at < 10 THEN at' = at + 1 /\ main' = main
                   ELSE main' = "returned" /\ at' = at
    BY <1>1, <1>2, RecordSteps DEF Advance
  <2>2. at = 2 => Guarded
    BY <1>1, <1>2, RecordSteps DEF Guarded, Doing, Over
  <2>3. at # 2 => ~ Guarded
    BY <1>1, <1>2, RecordSteps DEF Guarded, Doing
  <2>4. Throw => IF Guarded THEN main' = "abandoning" /\ at' = 1 /\ key' = key
                 ELSE main' = "threw" /\ at' = at /\ ~ key'
    BY <1>2 DEF Throw
  <2>5. CASE Run
    <3>1. at = 2
      BY <1>1, <1>2, <2>5, RecordSteps, RunIs DEF Doing
    <3>2. /\ command' = command /\ errors' = errors /\ sealed' = sealed
          /\ faults' = faults /\ proxy' = proxy
          /\ \A e : Has(e)' <=> Has(e)
          /\ \/ at' = at + 1 /\ main' = main /\ key' = key
             \/ main' = "abandoning" /\ at' = 1 /\ key' = key
      BY <2>1, <2>2, <2>3, <2>4, <2>5, <3>1, RunIs
    <3> QED BY <1>1, <1>2, <3>1, <3>2
         DEF Progress, InPlan, InAbandon, ErrorsHaveCause, LeavesNothingBehind, Over,
             EndedAt, SealedAt, ClosedAt, DisposedAt
  <2>6. CASE Drain
    <3>1. at \in {3, 6}
      BY <1>1, <1>2, <2>6, RecordSteps, DrainIs DEF Doing
    <3>2. /\ command' = command /\ errors' = errors /\ sealed' = sealed
          /\ faults' = faults /\ proxy' = proxy
          /\ \A e : Has(e)' <=> Has(e)
          /\ \/ ~ errors /\ at' = at + 1 /\ main' = main /\ key' = key
             \/ errors /\ main' = "threw" /\ at' = at /\ ~ key'
      BY <2>1, <2>2, <2>3, <2>4, <2>6, <3>1, DrainIs
    <3> QED BY <1>1, <1>2, <3>1, <3>2
         DEF Progress, InPlan, InAbandon, ErrorsHaveCause, LeavesNothingBehind, Over,
             EndedAt, SealedAt, ClosedAt, DisposedAt
  <2>7. CASE CloseProxy
    <3>1. at = 5
      BY <1>1, <1>2, <2>7, RecordSteps, CloseProxyIs DEF Doing
    <3>2. /\ command' = command /\ errors' = errors /\ sealed' = sealed
          /\ faults' = faults /\ proxy = "listening" /\ proxy' = "closing"
          /\ main' = main /\ at' = at /\ key' = key
          /\ \A e : Has(e)' <=> Has(e)
      BY <2>1, <2>2, <2>3, <2>4, <2>7, <3>1, CloseProxyIs
    <3> QED BY <1>1, <1>2, <3>1, <3>2
         DEF Progress, InPlan, InAbandon, ErrorsHaveCause, LeavesNothingBehind, Over,
             EndedAt, SealedAt, ClosedAt, DisposedAt
  <2>8. CASE ProxyCloses
    <3>1. at = 5
      BY <1>1, <1>2, <2>8, RecordSteps, ProxyClosesIs DEF Doing
    <3>2. Advance
      BY <2>8, ProxyClosesIs
    <3>3. at' = at + 1 /\ main' = main
      BY <2>1, <2>2, <2>3, <2>4, <3>1, <3>2
    <3>4. /\ command' = command /\ errors' = errors /\ sealed' = sealed
          /\ faults' = faults /\ proxy' = "closed" /\ at' = at + 1 /\ main' = main
          /\ key' = key
          /\ \A e : Has(e)' <=> Has(e)
      BY <2>8, <3>3, ProxyClosesIs
    <3> QED BY <1>1, <1>2, <3>1, <3>4
         DEF Progress, InPlan, InAbandon, ErrorsHaveCause, LeavesNothingBehind, Over,
             EndedAt, SealedAt, ClosedAt, DisposedAt
  <2>9. CASE Dispose
    <3>1. at = 7
      BY <1>1, <1>2, <2>9, RecordSteps, DisposeIs DEF Doing
    <3>2. /\ command' = command /\ errors' = errors /\ sealed' = sealed
          /\ faults' = faults /\ proxy' = proxy /\ at' = at + 1 /\ main' = main
          /\ ~ key'
          /\ \A e : Has(e)' <=> Has(e)
      BY <2>1, <2>2, <2>3, <2>4, <2>9, <3>1, DisposeIs
    <3> QED BY <1>1, <1>2, <3>1, <3>2
         DEF Progress, InPlan, InAbandon, ErrorsHaveCause, LeavesNothingBehind, Over,
             EndedAt, SealedAt, ClosedAt, DisposedAt
  <2>10. CASE Seal
    <3>1. at = 10
      BY <1>1, <1>2, <2>10, RecordSteps, SealIs DEF Doing
    <3>2. \/ sealed' = TRUE /\ faults' = faults /\ key' = key /\ Advance
          \/ sealed' = sealed /\ faults' = faults + 1 /\ Throw
      BY <2>10, SealIs
    <3>3. Advance => main' = "returned" /\ at' = at
      BY <2>1, <2>2, <2>3, <2>4, <3>1
    <3>4. Throw => main' = "threw" /\ at' = at /\ ~ key'
      BY <2>1, <2>2, <2>3, <2>4, <3>1
    <3>5. /\ command' = command /\ errors' = errors /\ proxy' = proxy
          /\ \A e : Has(e)' <=> Has(e)
          /\ \/ sealed' = TRUE /\ faults' = faults /\ main' = "returned" /\ at' = at /\ key' = key
             \/ sealed' = sealed /\ faults' = faults + 1 /\ main' = "threw" /\ at' = at /\ ~ key'
      BY <2>10, <3>2, <3>3, <3>4, SealIs
    <3> QED BY <1>1, <1>2, <3>1, <3>5
         DEF Progress, InPlan, InAbandon, ErrorsHaveCause, LeavesNothingBehind, Over,
             EndedAt, SealedAt, ClosedAt, DisposedAt
  <2>11. ~ Listen
    BY <1>1, <1>2, RecordSteps, ListenIs DEF Doing
  <2> QED BY <2>5, <2>6, <2>7, <2>8, <2>9, <2>10, <2>11 DEF Moves
<1>3. CASE main = "abandoning"
  <2>1. Advance => IF at < 5 THEN at' = at + 1 /\ main' = main
                   ELSE main' = "threw" /\ at' = at
    BY <1>1, <1>3, RecordAbandonSteps DEF Advance
  <2>2. Throw => Advance /\ key' = key
    BY <1>3 DEF Throw
  <2>3. CASE Drain
    <3>1. at = 2
      BY <1>1, <1>3, <2>3, RecordAbandonSteps, DrainIs DEF Doing
    <3>2. /\ command' = command /\ errors' = errors /\ sealed' = sealed
          /\ faults' = faults /\ proxy' = proxy
          /\ \A e : Has(e)' <=> Has(e)
          /\ \/ ~ errors /\ at' = at + 1 /\ main' = main /\ key' = key
             \/ errors /\ at' = at + 1 /\ main' = main /\ key' = key
      BY <2>1, <2>2, <2>3, <3>1, DrainIs
    <3> QED BY <1>1, <1>3, <3>1, <3>2
         DEF Progress, InPlan, InAbandon, ErrorsHaveCause, LeavesNothingBehind, Over
  <2>4. CASE CloseProxy
    <3>1. at = 1
      BY <1>1, <1>3, <2>4, RecordAbandonSteps, CloseProxyIs DEF Doing
    <3>2. /\ command' = command /\ errors' = errors /\ sealed' = sealed
          /\ faults' = faults /\ proxy = "listening" /\ proxy' = "closing"
          /\ main' = main /\ at' = at /\ key' = key
          /\ \A e : Has(e)' <=> Has(e)
      BY <2>1, <2>2, <2>4, <3>1, CloseProxyIs
    <3> QED BY <1>1, <1>3, <3>1, <3>2
         DEF Progress, InPlan, InAbandon, ErrorsHaveCause, LeavesNothingBehind, Over
  <2>5. CASE ProxyCloses
    <3>1. at = 1
      BY <1>1, <1>3, <2>5, RecordAbandonSteps, ProxyClosesIs DEF Doing
    <3>2. Advance
      BY <2>5, ProxyClosesIs
    <3>3. at' = at + 1 /\ main' = main
      BY <2>1, <2>2, <3>1, <3>2
    <3>4. /\ command' = command /\ errors' = errors /\ sealed' = sealed
          /\ faults' = faults /\ proxy' = "closed" /\ at' = at + 1 /\ main' = main
          /\ key' = key
          /\ \A e : Has(e)' <=> Has(e)
      BY <2>5, <3>3, ProxyClosesIs
    <3> QED BY <1>1, <1>3, <3>1, <3>4
         DEF Progress, InPlan, InAbandon, ErrorsHaveCause, LeavesNothingBehind, Over
  <2>6. CASE Dispose
    <3>1. at = 3
      BY <1>1, <1>3, <2>6, RecordAbandonSteps, DisposeIs DEF Doing
    <3>2. /\ command' = command /\ errors' = errors /\ sealed' = sealed
          /\ faults' = faults /\ proxy' = proxy /\ at' = at + 1 /\ main' = main
          /\ ~ key'
          /\ \A e : Has(e)' <=> Has(e)
      BY <2>1, <2>2, <2>6, <3>1, DisposeIs
    <3> QED BY <1>1, <1>3, <3>1, <3>2
         DEF Progress, InPlan, InAbandon, ErrorsHaveCause, LeavesNothingBehind, Over
  <2>7. CASE Seal
    <3>1. at = 5
      BY <1>1, <1>3, <2>7, RecordAbandonSteps, SealIs DEF Doing
    <3>2. \/ sealed' = TRUE /\ faults' = faults /\ key' = key /\ Advance
          \/ sealed' = sealed /\ faults' = faults + 1 /\ Throw
      BY <2>7, SealIs
    <3>3. Advance => main' = "threw" /\ at' = at
      BY <2>1, <2>2, <3>1
    <3>4. Throw => main' = "threw" /\ at' = at /\ key' = key
      BY <2>1, <2>2, <3>1
    <3>5. /\ command' = command /\ errors' = errors /\ proxy' = proxy
          /\ \A e : Has(e)' <=> Has(e)
          /\ \/ sealed' = TRUE /\ faults' = faults /\ main' = "threw" /\ at' = at /\ key' = key
             \/ sealed' = sealed /\ faults' = faults + 1 /\ main' = "threw" /\ at' = at /\ key' = key
      BY <2>7, <3>2, <3>3, <3>4, SealIs
    <3> QED BY <1>1, <1>3, <3>1, <3>5
         DEF Progress, InPlan, InAbandon, ErrorsHaveCause, LeavesNothingBehind, Over
  <2>8. ~ Listen
    BY <1>1, <1>3, RecordAbandonSteps, ListenIs DEF Doing
  <2>9. ~ Run
    BY <1>1, <1>3, RecordAbandonSteps, RunIs DEF Doing
  <2> QED BY <2>3, <2>4, <2>5, <2>6, <2>7, <2>8, <2>9 DEF Moves
<1>4. ~ Over
  BY DEF Moves, Listen, Run, Drain, CloseProxy, ProxyCloses, Dispose, Seal, Doing
<1> QED BY <1>2, <1>3, <1>4 DEF Over, SessionTypeOK

LEMMA ForkMoves ==
  ASSUME SessionTypeOK, Progress, command = "fork", Moves
  PROVE  Progress'
<1>1. faults \in Nat /\ at \in 1..Len(Plan)
  BY DEF SessionTypeOK
<1>2. CASE main = "working"
  <2>1. Advance => IF at < 8 THEN at' = at + 1 /\ main' = main
                   ELSE main' = "returned" /\ at' = at
    BY <1>1, <1>2, ForkSteps DEF Advance
  <2>2. at = 2 => Guarded
    BY <1>1, <1>2, ForkSteps DEF Guarded, Doing, Over
  <2>3. at # 2 => ~ Guarded
    BY <1>1, <1>2, ForkSteps DEF Guarded, Doing
  <2>4. Throw => IF Guarded THEN main' = "abandoning" /\ at' = 1 /\ key' = key
                 ELSE main' = "threw" /\ at' = at
    BY <1>2 DEF Throw
  <2>5. CASE Run
    <3>1. at = 2
      BY <1>1, <1>2, <2>5, ForkSteps, RunIs DEF Doing
    <3>2. /\ command' = command /\ errors' = errors /\ sealed' = sealed
          /\ faults' = faults /\ proxy' = proxy
          /\ \A e : Has(e)' <=> Has(e)
          /\ \/ at' = at + 1 /\ main' = main /\ key' = key
             \/ main' = "abandoning" /\ at' = 1 /\ key' = key
      BY <2>1, <2>2, <2>3, <2>4, <2>5, <3>1, RunIs
    <3> QED BY <1>1, <1>2, <3>1, <3>2
         DEF Progress, InPlan, InAbandon, ErrorsHaveCause, LeavesNothingBehind, Over,
             EndedAt, SealedAt, ClosedAt, DisposedAt
  <2>6. CASE Drain
    <3>1. at = 3
      BY <1>1, <1>2, <2>6, ForkSteps, DrainIs DEF Doing
    <3>2. /\ command' = command /\ errors' = errors /\ sealed' = sealed
          /\ faults' = faults /\ proxy' = proxy
          /\ \A e : Has(e)' <=> Has(e)
          /\ \/ ~ errors /\ at' = at + 1 /\ main' = main /\ key' = key
             \/ errors /\ main' = "threw" /\ at' = at
      BY <2>1, <2>2, <2>3, <2>4, <2>6, <3>1, DrainIs
    <3> QED BY <1>1, <1>2, <3>1, <3>2
         DEF Progress, InPlan, InAbandon, ErrorsHaveCause, LeavesNothingBehind, Over,
             EndedAt, SealedAt, ClosedAt, DisposedAt
  <2>7. CASE CloseProxy
    <3>1. at = 7
      BY <1>1, <1>2, <2>7, ForkSteps, CloseProxyIs DEF Doing
    <3>2. /\ command' = command /\ errors' = errors /\ sealed' = sealed
          /\ faults' = faults /\ proxy = "listening" /\ proxy' = "closing"
          /\ main' = main /\ at' = at /\ key' = key
          /\ \A e : Has(e)' <=> Has(e)
      BY <2>1, <2>2, <2>3, <2>4, <2>7, <3>1, CloseProxyIs
    <3> QED BY <1>1, <1>2, <3>1, <3>2
         DEF Progress, InPlan, InAbandon, ErrorsHaveCause, LeavesNothingBehind, Over,
             EndedAt, SealedAt, ClosedAt, DisposedAt
  <2>8. CASE ProxyCloses
    <3>1. at = 7
      BY <1>1, <1>2, <2>8, ForkSteps, ProxyClosesIs DEF Doing
    <3>2. Advance
      BY <2>8, ProxyClosesIs
    <3>3. at' = at + 1 /\ main' = main
      BY <2>1, <2>2, <2>3, <2>4, <3>1, <3>2
    <3>4. /\ command' = command /\ errors' = errors /\ sealed' = sealed
          /\ faults' = faults /\ proxy' = "closed" /\ at' = at + 1 /\ main' = main
          /\ key' = key
          /\ \A e : Has(e)' <=> Has(e)
      BY <2>8, <3>3, ProxyClosesIs
    <3> QED BY <1>1, <1>2, <3>1, <3>4
         DEF Progress, InPlan, InAbandon, ErrorsHaveCause, LeavesNothingBehind, Over,
             EndedAt, SealedAt, ClosedAt, DisposedAt
  <2>9. CASE Dispose
    <3>1. at = 8
      BY <1>1, <1>2, <2>9, ForkSteps, DisposeIs DEF Doing
    <3>2. /\ command' = command /\ errors' = errors /\ sealed' = sealed
          /\ faults' = faults /\ proxy' = proxy /\ main' = "returned" /\ at' = at
          /\ ~ key'
          /\ \A e : Has(e)' <=> Has(e)
      BY <2>1, <2>2, <2>3, <2>4, <2>9, <3>1, DisposeIs
    <3> QED BY <1>1, <1>2, <3>1, <3>2
         DEF Progress, InPlan, InAbandon, ErrorsHaveCause, LeavesNothingBehind, Over,
             EndedAt, SealedAt, ClosedAt, DisposedAt
  <2>10. CASE Seal
    <3>1. at = 6
      BY <1>1, <1>2, <2>10, ForkSteps, SealIs DEF Doing
    <3>2. \/ sealed' = TRUE /\ faults' = faults /\ key' = key /\ Advance
          \/ sealed' = sealed /\ faults' = faults + 1 /\ Throw
      BY <2>10, SealIs
    <3>3. Advance => at' = at + 1 /\ main' = main
      BY <2>1, <2>2, <2>3, <2>4, <3>1
    <3>4. Throw => main' = "threw" /\ at' = at
      BY <2>1, <2>2, <2>3, <2>4, <3>1
    <3>5. /\ command' = command /\ errors' = errors /\ proxy' = proxy
          /\ \A e : Has(e)' <=> Has(e)
          /\ \/ sealed' = TRUE /\ faults' = faults /\ at' = at + 1 /\ main' = main /\ key' = key
             \/ sealed' = sealed /\ faults' = faults + 1 /\ main' = "threw" /\ at' = at
      BY <2>10, <3>2, <3>3, <3>4, SealIs
    <3> QED BY <1>1, <1>2, <3>1, <3>5
         DEF Progress, InPlan, InAbandon, ErrorsHaveCause, LeavesNothingBehind, Over,
             EndedAt, SealedAt, ClosedAt, DisposedAt
  <2>11. ~ Listen
    BY <1>1, <1>2, ForkSteps, ListenIs DEF Doing
  <2> QED BY <2>5, <2>6, <2>7, <2>8, <2>9, <2>10, <2>11 DEF Moves
<1>3. CASE main = "abandoning"
  <2>1. Advance => IF at < 5 THEN at' = at + 1 /\ main' = main
                   ELSE main' = "threw" /\ at' = at
    BY <1>1, <1>3, ForkAbandonSteps DEF Advance
  <2>2. Throw => Advance /\ key' = key
    BY <1>3 DEF Throw
  <2>3. CASE Drain
    <3>1. at = 2
      BY <1>1, <1>3, <2>3, ForkAbandonSteps, DrainIs DEF Doing
    <3>2. /\ command' = command /\ errors' = errors /\ sealed' = sealed
          /\ faults' = faults /\ proxy' = proxy
          /\ \A e : Has(e)' <=> Has(e)
          /\ \/ ~ errors /\ at' = at + 1 /\ main' = main /\ key' = key
             \/ errors /\ at' = at + 1 /\ main' = main /\ key' = key
      BY <2>1, <2>2, <2>3, <3>1, DrainIs
    <3> QED BY <1>1, <1>3, <3>1, <3>2
         DEF Progress, InPlan, InAbandon, ErrorsHaveCause, LeavesNothingBehind, Over
  <2>4. CASE CloseProxy
    <3>1. at = 1
      BY <1>1, <1>3, <2>4, ForkAbandonSteps, CloseProxyIs DEF Doing
    <3>2. /\ command' = command /\ errors' = errors /\ sealed' = sealed
          /\ faults' = faults /\ proxy = "listening" /\ proxy' = "closing"
          /\ main' = main /\ at' = at /\ key' = key
          /\ \A e : Has(e)' <=> Has(e)
      BY <2>1, <2>2, <2>4, <3>1, CloseProxyIs
    <3> QED BY <1>1, <1>3, <3>1, <3>2
         DEF Progress, InPlan, InAbandon, ErrorsHaveCause, LeavesNothingBehind, Over
  <2>5. CASE ProxyCloses
    <3>1. at = 1
      BY <1>1, <1>3, <2>5, ForkAbandonSteps, ProxyClosesIs DEF Doing
    <3>2. Advance
      BY <2>5, ProxyClosesIs
    <3>3. at' = at + 1 /\ main' = main
      BY <2>1, <2>2, <3>1, <3>2
    <3>4. /\ command' = command /\ errors' = errors /\ sealed' = sealed
          /\ faults' = faults /\ proxy' = "closed" /\ at' = at + 1 /\ main' = main
          /\ key' = key
          /\ \A e : Has(e)' <=> Has(e)
      BY <2>5, <3>3, ProxyClosesIs
    <3> QED BY <1>1, <1>3, <3>1, <3>4
         DEF Progress, InPlan, InAbandon, ErrorsHaveCause, LeavesNothingBehind, Over
  <2>6. CASE Dispose
    <3>1. at = 3
      BY <1>1, <1>3, <2>6, ForkAbandonSteps, DisposeIs DEF Doing
    <3>2. /\ command' = command /\ errors' = errors /\ sealed' = sealed
          /\ faults' = faults /\ proxy' = proxy /\ at' = at + 1 /\ main' = main
          /\ ~ key'
          /\ \A e : Has(e)' <=> Has(e)
      BY <2>1, <2>2, <2>6, <3>1, DisposeIs
    <3> QED BY <1>1, <1>3, <3>1, <3>2
         DEF Progress, InPlan, InAbandon, ErrorsHaveCause, LeavesNothingBehind, Over
  <2>7. CASE Seal
    <3>1. at = 5
      BY <1>1, <1>3, <2>7, ForkAbandonSteps, SealIs DEF Doing
    <3>2. \/ sealed' = TRUE /\ faults' = faults /\ key' = key /\ Advance
          \/ sealed' = sealed /\ faults' = faults + 1 /\ Throw
      BY <2>7, SealIs
    <3>3. Advance => main' = "threw" /\ at' = at
      BY <2>1, <2>2, <3>1
    <3>4. Throw => main' = "threw" /\ at' = at /\ key' = key
      BY <2>1, <2>2, <3>1
    <3>5. /\ command' = command /\ errors' = errors /\ proxy' = proxy
          /\ \A e : Has(e)' <=> Has(e)
          /\ \/ sealed' = TRUE /\ faults' = faults /\ main' = "threw" /\ at' = at /\ key' = key
             \/ sealed' = sealed /\ faults' = faults + 1 /\ main' = "threw" /\ at' = at /\ key' = key
      BY <2>7, <3>2, <3>3, <3>4, SealIs
    <3> QED BY <1>1, <1>3, <3>1, <3>5
         DEF Progress, InPlan, InAbandon, ErrorsHaveCause, LeavesNothingBehind, Over
  <2>8. ~ Listen
    BY <1>1, <1>3, ForkAbandonSteps, ListenIs DEF Doing
  <2>9. ~ Run
    BY <1>1, <1>3, ForkAbandonSteps, RunIs DEF Doing
  <2> QED BY <2>3, <2>4, <2>5, <2>6, <2>7, <2>8, <2>9 DEF Moves
<1>4. ~ Over
  BY DEF Moves, Listen, Run, Drain, CloseProxy, ProxyCloses, Dispose, Seal, Doing
<1> QED BY <1>2, <1>3, <1>4 DEF Over, SessionTypeOK

LEMMA ReplayMoves ==
  ASSUME SessionTypeOK, Progress, command = "replay", Moves
  PROVE  Progress'
<1>1. faults \in Nat /\ at \in 1..Len(Plan)
  BY DEF SessionTypeOK
<1>2. CASE main = "working"
  <2>1. Advance => IF at < 8 THEN at' = at + 1 /\ main' = main
                   ELSE main' = "returned" /\ at' = at
    BY <1>1, <1>2, ReplaySteps DEF Advance
  <2>2. Throw => main' = "abandoning" /\ at' = 1 /\ key' = key
    BY <1>2 DEF Throw, Guarded
  <2>3. CASE Run
    <3>1. at = 2
      BY <1>1, <1>2, <2>3, ReplaySteps, RunIs DEF Doing
    <3>2. /\ command' = command /\ errors' = errors /\ sealed' = sealed
          /\ faults' = faults /\ proxy' = proxy
          /\ \A e : Has(e)' <=> Has(e)
          /\ \/ at' = at + 1 /\ main' = main /\ key' = key
             \/ main' = "abandoning" /\ at' = 1 /\ key' = key
      BY <2>1, <2>2, <2>3, <3>1, RunIs
    <3> QED BY <1>1, <1>2, <3>1, <3>2
         DEF Progress, InPlan, InAbandon, ErrorsHaveCause, LeavesNothingBehind, Over,
             EndedAt, SealedAt, ClosedAt, DisposedAt
  <2>4. CASE Drain
    <3>1. at = 3
      BY <1>1, <1>2, <2>4, ReplaySteps, DrainIs DEF Doing
    <3>2. /\ command' = command /\ errors' = errors /\ sealed' = sealed
          /\ faults' = faults /\ proxy' = proxy
          /\ \A e : Has(e)' <=> Has(e)
          /\ \/ ~ errors /\ at' = at + 1 /\ main' = main /\ key' = key
             \/ errors /\ main' = "abandoning" /\ at' = 1 /\ key' = key
      BY <2>1, <2>2, <2>4, <3>1, DrainIs
    <3> QED BY <1>1, <1>2, <3>1, <3>2
         DEF Progress, InPlan, InAbandon, ErrorsHaveCause, LeavesNothingBehind, Over,
             EndedAt, SealedAt, ClosedAt, DisposedAt
  <2>5. CASE CloseProxy
    <3>1. at = 4
      BY <1>1, <1>2, <2>5, ReplaySteps, CloseProxyIs DEF Doing
    <3>2. /\ command' = command /\ errors' = errors /\ sealed' = sealed
          /\ faults' = faults /\ proxy = "listening" /\ proxy' = "closing"
          /\ main' = main /\ at' = at /\ key' = key
          /\ \A e : Has(e)' <=> Has(e)
      BY <2>1, <2>2, <2>5, <3>1, CloseProxyIs
    <3> QED BY <1>1, <1>2, <3>1, <3>2
         DEF Progress, InPlan, InAbandon, ErrorsHaveCause, LeavesNothingBehind, Over,
             EndedAt, SealedAt, ClosedAt, DisposedAt
  <2>6. CASE ProxyCloses
    <3>1. at = 4
      BY <1>1, <1>2, <2>6, ReplaySteps, ProxyClosesIs DEF Doing
    <3>2. Advance
      BY <2>6, ProxyClosesIs
    <3>3. at' = at + 1 /\ main' = main
      BY <2>1, <2>2, <3>1, <3>2
    <3>4. /\ command' = command /\ errors' = errors /\ sealed' = sealed
          /\ faults' = faults /\ proxy' = "closed" /\ at' = at + 1 /\ main' = main
          /\ key' = key
          /\ \A e : Has(e)' <=> Has(e)
      BY <2>6, <3>3, ProxyClosesIs
    <3> QED BY <1>1, <1>2, <3>1, <3>4
         DEF Progress, InPlan, InAbandon, ErrorsHaveCause, LeavesNothingBehind, Over,
             EndedAt, SealedAt, ClosedAt, DisposedAt
  <2>7. CASE Dispose
    <3>1. at = 8
      BY <1>1, <1>2, <2>7, ReplaySteps, DisposeIs DEF Doing
    <3>2. /\ command' = command /\ errors' = errors /\ sealed' = sealed
          /\ faults' = faults /\ proxy' = proxy /\ main' = "returned" /\ at' = at
          /\ ~ key'
          /\ \A e : Has(e)' <=> Has(e)
      BY <2>1, <2>2, <2>7, <3>1, DisposeIs
    <3> QED BY <1>1, <1>2, <3>1, <3>2
         DEF Progress, InPlan, InAbandon, ErrorsHaveCause, LeavesNothingBehind, Over,
             EndedAt, SealedAt, ClosedAt, DisposedAt
  <2>8. CASE Seal
    <3>1. at = 7
      BY <1>1, <1>2, <2>8, ReplaySteps, SealIs DEF Doing
    <3>2. \/ sealed' = TRUE /\ faults' = faults /\ key' = key /\ Advance
          \/ sealed' = sealed /\ faults' = faults + 1 /\ Throw
      BY <2>8, SealIs
    <3>3. Advance => at' = at + 1 /\ main' = main
      BY <2>1, <2>2, <3>1
    <3>4. Throw => main' = "abandoning" /\ at' = 1 /\ key' = key
      BY <2>1, <2>2, <3>1
    <3>5. /\ command' = command /\ errors' = errors /\ proxy' = proxy
          /\ \A e : Has(e)' <=> Has(e)
          /\ \/ sealed' = TRUE /\ faults' = faults /\ at' = at + 1 /\ main' = main /\ key' = key
             \/ sealed' = sealed /\ faults' = faults + 1 /\ main' = "abandoning" /\ at' = 1 /\ key' = key
      BY <2>8, <3>2, <3>3, <3>4, SealIs
    <3> QED BY <1>1, <1>2, <3>1, <3>5
         DEF Progress, InPlan, InAbandon, ErrorsHaveCause, LeavesNothingBehind, Over,
             EndedAt, SealedAt, ClosedAt, DisposedAt
  <2>9. ~ Listen
    BY <1>1, <1>2, ReplaySteps, ListenIs DEF Doing
  <2> QED BY <2>3, <2>4, <2>5, <2>6, <2>7, <2>8, <2>9 DEF Moves
<1>3. CASE main = "abandoning"
  <2>1. Advance => IF at < 5 THEN at' = at + 1 /\ main' = main
                   ELSE main' = "threw" /\ at' = at
    BY <1>1, <1>3, ReplayAbandonSteps DEF Advance
  <2>2. Throw => Advance /\ key' = key
    BY <1>3 DEF Throw
  <2>3. CASE Drain
    <3>1. at = 2
      BY <1>1, <1>3, <2>3, ReplayAbandonSteps, DrainIs DEF Doing
    <3>2. /\ command' = command /\ errors' = errors /\ sealed' = sealed
          /\ faults' = faults /\ proxy' = proxy
          /\ \A e : Has(e)' <=> Has(e)
          /\ \/ ~ errors /\ at' = at + 1 /\ main' = main /\ key' = key
             \/ errors /\ at' = at + 1 /\ main' = main /\ key' = key
      BY <2>1, <2>2, <2>3, <3>1, DrainIs
    <3> QED BY <1>1, <1>3, <3>1, <3>2
         DEF Progress, InPlan, InAbandon, ErrorsHaveCause, LeavesNothingBehind, Over
  <2>4. CASE CloseProxy
    <3>1. at = 1
      BY <1>1, <1>3, <2>4, ReplayAbandonSteps, CloseProxyIs DEF Doing
    <3>2. /\ command' = command /\ errors' = errors /\ sealed' = sealed
          /\ faults' = faults /\ proxy = "listening" /\ proxy' = "closing"
          /\ main' = main /\ at' = at /\ key' = key
          /\ \A e : Has(e)' <=> Has(e)
      BY <2>1, <2>2, <2>4, <3>1, CloseProxyIs
    <3> QED BY <1>1, <1>3, <3>1, <3>2
         DEF Progress, InPlan, InAbandon, ErrorsHaveCause, LeavesNothingBehind, Over
  <2>5. CASE ProxyCloses
    <3>1. at = 1
      BY <1>1, <1>3, <2>5, ReplayAbandonSteps, ProxyClosesIs DEF Doing
    <3>2. Advance
      BY <2>5, ProxyClosesIs
    <3>3. at' = at + 1 /\ main' = main
      BY <2>1, <2>2, <3>1, <3>2
    <3>4. /\ command' = command /\ errors' = errors /\ sealed' = sealed
          /\ faults' = faults /\ proxy' = "closed" /\ at' = at + 1 /\ main' = main
          /\ key' = key
          /\ \A e : Has(e)' <=> Has(e)
      BY <2>5, <3>3, ProxyClosesIs
    <3> QED BY <1>1, <1>3, <3>1, <3>4
         DEF Progress, InPlan, InAbandon, ErrorsHaveCause, LeavesNothingBehind, Over
  <2>6. CASE Dispose
    <3>1. at = 5
      BY <1>1, <1>3, <2>6, ReplayAbandonSteps, DisposeIs DEF Doing
    <3>2. /\ command' = command /\ errors' = errors /\ sealed' = sealed
          /\ faults' = faults /\ proxy' = proxy /\ main' = "threw" /\ at' = at
          /\ ~ key'
          /\ \A e : Has(e)' <=> Has(e)
      BY <2>1, <2>2, <2>6, <3>1, DisposeIs
    <3> QED BY <1>1, <1>3, <3>1, <3>2
         DEF Progress, InPlan, InAbandon, ErrorsHaveCause, LeavesNothingBehind, Over
  <2>7. CASE Seal
    <3>1. at = 4
      BY <1>1, <1>3, <2>7, ReplayAbandonSteps, SealIs DEF Doing
    <3>2. \/ sealed' = TRUE /\ faults' = faults /\ key' = key /\ Advance
          \/ sealed' = sealed /\ faults' = faults + 1 /\ Throw
      BY <2>7, SealIs
    <3>3. Advance => at' = at + 1 /\ main' = main
      BY <2>1, <2>2, <3>1
    <3>4. Throw => at' = at + 1 /\ main' = main /\ key' = key
      BY <2>1, <2>2, <3>1
    <3>5. /\ command' = command /\ errors' = errors /\ proxy' = proxy
          /\ \A e : Has(e)' <=> Has(e)
          /\ \/ sealed' = TRUE /\ faults' = faults /\ at' = at + 1 /\ main' = main /\ key' = key
             \/ sealed' = sealed /\ faults' = faults + 1 /\ at' = at + 1 /\ main' = main /\ key' = key
      BY <2>7, <3>2, <3>3, <3>4, SealIs
    <3> QED BY <1>1, <1>3, <3>1, <3>5
         DEF Progress, InPlan, InAbandon, ErrorsHaveCause, LeavesNothingBehind, Over
  <2>8. ~ Listen
    BY <1>1, <1>3, ReplayAbandonSteps, ListenIs DEF Doing
  <2>9. ~ Run
    BY <1>1, <1>3, ReplayAbandonSteps, RunIs DEF Doing
  <2> QED BY <2>3, <2>4, <2>5, <2>6, <2>7, <2>8, <2>9 DEF Moves
<1>4. ~ Over
  BY DEF Moves, Listen, Run, Drain, CloseProxy, ProxyCloses, Dispose, Seal, Doing
<1> QED BY <1>2, <1>3, <1>4 DEF Over, SessionTypeOK

LEMMA AttachMoves ==
  ASSUME SessionTypeOK, Progress, command = "attach", Moves
  PROVE  Progress'
<1>1. faults \in Nat /\ at \in 1..Len(Plan)
  BY DEF SessionTypeOK
<1>2. CASE main = "working"
  <2>1. Advance => IF at < 9 THEN at' = at + 1 /\ main' = main
                   ELSE main' = "returned" /\ at' = at
    BY <1>1, <1>2, AttachSteps DEF Advance
  <2>2. at \in {3, 4} => Guarded
    <3>1. at = 3 => Guarded
      BY <1>1, <1>2, AttachSteps DEF Guarded, Doing, Over
    <3>2. at = 4 => Guarded
      BY <1>1, <1>2, AttachSteps DEF Guarded, Doing, Over
    <3> QED BY <3>1, <3>2
  <2>3. at \notin {3, 4} => ~ Guarded
    BY <1>1, <1>2, AttachSteps DEF Guarded, Doing
  <2>4. Throw => IF Guarded THEN main' = "abandoning" /\ at' = 1 /\ key' = key
                 ELSE main' = "threw" /\ at' = at /\ ~ key'
    BY <1>2 DEF Throw
  <2>5. CASE Listen
    <3>1. at = 2
      BY <1>1, <1>2, <2>5, AttachSteps, ListenIs DEF Doing
    <3>2. /\ command' = command /\ errors' = errors /\ sealed' = sealed
          /\ faults' = faults
          /\ \A e : Has(e)' <=> Has(e)
          /\ \/ proxy' = "listening" /\ at' = at + 1 /\ main' = main /\ key' = key
             \/ proxy' = proxy /\ main' = "threw" /\ at' = at /\ ~ key'
      BY <2>1, <2>2, <2>3, <2>4, <2>5, <3>1, ListenIs
    <3> QED BY <1>1, <1>2, <3>1, <3>2
         DEF Progress, InPlan, InAbandon, ErrorsHaveCause, LeavesNothingBehind, Over,
             EndedAt, SealedAt, ClosedAt, DisposedAt
  <2>6. CASE Run
    <3>1. at = 4
      BY <1>1, <1>2, <2>6, AttachSteps, RunIs DEF Doing
    <3>2. /\ command' = command /\ errors' = errors /\ sealed' = sealed
          /\ faults' = faults /\ proxy' = proxy
          /\ \A e : Has(e)' <=> Has(e)
          /\ \/ at' = at + 1 /\ main' = main /\ key' = key
             \/ main' = "abandoning" /\ at' = 1 /\ key' = key
      BY <2>1, <2>2, <2>3, <2>4, <2>6, <3>1, RunIs
    <3> QED BY <1>1, <1>2, <3>1, <3>2
         DEF Progress, InPlan, InAbandon, ErrorsHaveCause, LeavesNothingBehind, Over,
             EndedAt, SealedAt, ClosedAt, DisposedAt
  <2>7. CASE Drain
    <3>1. at = 5
      BY <1>1, <1>2, <2>7, AttachSteps, DrainIs DEF Doing
    <3>2. /\ command' = command /\ errors' = errors /\ sealed' = sealed
          /\ faults' = faults /\ proxy' = proxy
          /\ \A e : Has(e)' <=> Has(e)
          /\ \/ ~ errors /\ at' = at + 1 /\ main' = main /\ key' = key
             \/ errors /\ main' = "threw" /\ at' = at /\ ~ key'
      BY <2>1, <2>2, <2>3, <2>4, <2>7, <3>1, DrainIs
    <3> QED BY <1>1, <1>2, <3>1, <3>2
         DEF Progress, InPlan, InAbandon, ErrorsHaveCause, LeavesNothingBehind, Over,
             EndedAt, SealedAt, ClosedAt, DisposedAt
  <2>8. CASE CloseProxy
    <3>1. at = 6
      BY <1>1, <1>2, <2>8, AttachSteps, CloseProxyIs DEF Doing
    <3>2. /\ command' = command /\ errors' = errors /\ sealed' = sealed
          /\ faults' = faults /\ proxy = "listening" /\ proxy' = "closing"
          /\ main' = main /\ at' = at /\ key' = key
          /\ \A e : Has(e)' <=> Has(e)
      BY <2>1, <2>2, <2>3, <2>4, <2>8, <3>1, CloseProxyIs
    <3> QED BY <1>1, <1>2, <3>1, <3>2
         DEF Progress, InPlan, InAbandon, ErrorsHaveCause, LeavesNothingBehind, Over,
             EndedAt, SealedAt, ClosedAt, DisposedAt
  <2>9. CASE ProxyCloses
    <3>1. at = 6
      BY <1>1, <1>2, <2>9, AttachSteps, ProxyClosesIs DEF Doing
    <3>2. Advance
      BY <2>9, ProxyClosesIs
    <3>3. at' = at + 1 /\ main' = main
      BY <2>1, <2>2, <2>3, <2>4, <3>1, <3>2
    <3>4. /\ command' = command /\ errors' = errors /\ sealed' = sealed
          /\ faults' = faults /\ proxy' = "closed" /\ at' = at + 1 /\ main' = main
          /\ key' = key
          /\ \A e : Has(e)' <=> Has(e)
      BY <2>9, <3>3, ProxyClosesIs
    <3> QED BY <1>1, <1>2, <3>1, <3>4
         DEF Progress, InPlan, InAbandon, ErrorsHaveCause, LeavesNothingBehind, Over,
             EndedAt, SealedAt, ClosedAt, DisposedAt
  <2>10. CASE Dispose
    <3>1. at = 7
      BY <1>1, <1>2, <2>10, AttachSteps, DisposeIs DEF Doing
    <3>2. /\ command' = command /\ errors' = errors /\ sealed' = sealed
          /\ faults' = faults /\ proxy' = proxy /\ at' = at + 1 /\ main' = main
          /\ ~ key'
          /\ \A e : Has(e)' <=> Has(e)
      BY <2>1, <2>2, <2>3, <2>4, <2>10, <3>1, DisposeIs
    <3> QED BY <1>1, <1>2, <3>1, <3>2
         DEF Progress, InPlan, InAbandon, ErrorsHaveCause, LeavesNothingBehind, Over,
             EndedAt, SealedAt, ClosedAt, DisposedAt
  <2>11. CASE Seal
    <3>1. at = 9
      BY <1>1, <1>2, <2>11, AttachSteps, SealIs DEF Doing
    <3>2. \/ sealed' = TRUE /\ faults' = faults /\ key' = key /\ Advance
          \/ sealed' = sealed /\ faults' = faults + 1 /\ Throw
      BY <2>11, SealIs
    <3>3. Advance => main' = "returned" /\ at' = at
      BY <2>1, <2>2, <2>3, <2>4, <3>1
    <3>4. Throw => main' = "threw" /\ at' = at /\ ~ key'
      BY <2>1, <2>2, <2>3, <2>4, <3>1
    <3>5. /\ command' = command /\ errors' = errors /\ proxy' = proxy
          /\ \A e : Has(e)' <=> Has(e)
          /\ \/ sealed' = TRUE /\ faults' = faults /\ main' = "returned" /\ at' = at /\ key' = key
             \/ sealed' = sealed /\ faults' = faults + 1 /\ main' = "threw" /\ at' = at /\ ~ key'
      BY <2>11, <3>2, <3>3, <3>4, SealIs
    <3> QED BY <1>1, <1>2, <3>1, <3>5
         DEF Progress, InPlan, InAbandon, ErrorsHaveCause, LeavesNothingBehind, Over,
             EndedAt, SealedAt, ClosedAt, DisposedAt
  <2> QED BY <2>5, <2>6, <2>7, <2>8, <2>9, <2>10, <2>11 DEF Moves
<1>3. CASE main = "abandoning"
  <2>1. Advance => IF at < 3 THEN at' = at + 1 /\ main' = main
                   ELSE main' = "threw" /\ at' = at
    BY <1>1, <1>3, AttachFinallySteps DEF Advance
  <2>2. ~ Guarded
    BY <1>1, <1>3, AttachFinallySteps DEF Guarded, Doing
  <2>3. Throw => main' = "threw" /\ at' = at /\ ~ key'
    BY <1>3, <2>2 DEF Throw
  <2>4. CASE Drain
    <3>1. at = 1
      BY <1>1, <1>3, <2>4, AttachFinallySteps, DrainIs DEF Doing
    <3>2. /\ command' = command /\ errors' = errors /\ sealed' = sealed
          /\ faults' = faults /\ proxy' = proxy
          /\ \A e : Has(e)' <=> Has(e)
          /\ \/ ~ errors /\ at' = at + 1 /\ main' = main /\ key' = key
             \/ errors /\ main' = "threw" /\ at' = at /\ ~ key'
      BY <2>1, <2>3, <2>4, <3>1, DrainIs
    <3> QED BY <1>1, <1>3, <3>1, <3>2
         DEF Progress, InPlan, InAbandon, ErrorsHaveCause, LeavesNothingBehind, Over
  <2>5. CASE CloseProxy
    <3>1. at = 2
      BY <1>1, <1>3, <2>5, AttachFinallySteps, CloseProxyIs DEF Doing
    <3>2. /\ command' = command /\ errors' = errors /\ sealed' = sealed
          /\ faults' = faults /\ proxy = "listening" /\ proxy' = "closing"
          /\ main' = main /\ at' = at /\ key' = key
          /\ \A e : Has(e)' <=> Has(e)
      BY <2>1, <2>3, <2>5, <3>1, CloseProxyIs
    <3> QED BY <1>1, <1>3, <3>1, <3>2
         DEF Progress, InPlan, InAbandon, ErrorsHaveCause, LeavesNothingBehind, Over
  <2>6. CASE ProxyCloses
    <3>1. at = 2
      BY <1>1, <1>3, <2>6, AttachFinallySteps, ProxyClosesIs DEF Doing
    <3>2. Advance
      BY <2>6, ProxyClosesIs
    <3>3. at' = at + 1 /\ main' = main
      BY <2>1, <2>3, <3>1, <3>2
    <3>4. /\ command' = command /\ errors' = errors /\ sealed' = sealed
          /\ faults' = faults /\ proxy' = "closed" /\ at' = at + 1 /\ main' = main
          /\ key' = key
          /\ \A e : Has(e)' <=> Has(e)
      BY <2>6, <3>3, ProxyClosesIs
    <3> QED BY <1>1, <1>3, <3>1, <3>4
         DEF Progress, InPlan, InAbandon, ErrorsHaveCause, LeavesNothingBehind, Over
  <2>7. CASE Dispose
    <3>1. at = 3
      BY <1>1, <1>3, <2>7, AttachFinallySteps, DisposeIs DEF Doing
    <3>2. /\ command' = command /\ errors' = errors /\ sealed' = sealed
          /\ faults' = faults /\ proxy' = proxy /\ main' = "threw" /\ at' = at
          /\ ~ key'
          /\ \A e : Has(e)' <=> Has(e)
      BY <2>1, <2>3, <2>7, <3>1, DisposeIs
    <3> QED BY <1>1, <1>3, <3>1, <3>2
         DEF Progress, InPlan, InAbandon, ErrorsHaveCause, LeavesNothingBehind, Over
  <2>8. ~ Listen
    BY <1>1, <1>3, AttachFinallySteps, ListenIs DEF Doing
  <2>9. ~ Run
    BY <1>1, <1>3, AttachFinallySteps, RunIs DEF Doing
  <2>10. ~ Seal
    BY <1>1, <1>3, AttachFinallySteps, SealIs DEF Doing
  <2> QED BY <2>4, <2>5, <2>6, <2>7, <2>8, <2>9, <2>10 DEF Moves
<1>4. ~ Over
  BY DEF Moves, Listen, Run, Drain, CloseProxy, ProxyCloses, Dispose, Seal, Doing
<1> QED BY <1>2, <1>3, <1>4 DEF Over, SessionTypeOK

(* The steps of the queue and of the clients move no command. *)

LEMMA QueuedExchange ==
  ASSUME SessionTypeOK, queue # << >>
  PROVE  /\ Head(queue).exchange \in Exchanges /\ Head(queue).left \in 1..PerTask
         /\ Head(queue) = queue[1] /\ Len(queue) \in Nat \ {0}
         /\ Tail(queue) \in Seq([exchange : Exchanges, left : 1..PerTask])
         /\ Len(Tail(queue)) = Len(queue) - 1
         /\ \A i \in 1..(Len(queue) - 1) : Tail(queue)[i] = queue[i + 1]
<1>1. queue \in Seq([exchange : Exchanges, left : 1..PerTask])
  BY DEF SessionTypeOK
<1>2. Len(queue) \in Nat \ {0}
  BY <1>1, EmptySeq
<1>4. Head(queue) = queue[1] /\ queue[1] \in [exchange : Exchanges, left : 1..PerTask]
  <2>1. 1 \in 1..Len(queue)
    BY <1>2
  <2>2. queue[1] \in [exchange : Exchanges, left : 1..PerTask]
    BY <1>1, <2>1, ElementOfSeq
  <2>3. Head(queue) = queue[1]
    BY <1>1, <2>1
  <2> QED BY <2>2, <2>3
<1>3. /\ Tail(queue) \in Seq([exchange : Exchanges, left : 1..PerTask])
      /\ Len(Tail(queue)) = Len(queue) - 1
      /\ \A i \in 1..(Len(queue) - 1) : Tail(queue)[i] = queue[i + 1]
  BY <1>1
<1> QED BY <1>2, <1>3, <1>4

LEMMA NotABracket ==
  ASSUME NEW x \in Exchanges
  PROVE  x # "run.start" /\ x # "frames" /\ x # "run.end"
BY SessionAssumption

LEMMA ProgressStays ==
  ASSUME Progress, command' = command, main' = main, at' = at, proxy' = proxy, key' = key,
         Has("run.start")' <=> Has("run.start"), Has("run.end")' <=> Has("run.end"),
         sealed' = sealed, faults \in Nat, faults' \in {faults, faults + 1},
         errors' => errors \/ faults' = faults + 1 \/ sealed
  PROVE  Progress'
<1>1. /\ faults > 0 => faults' > 0
      /\ faults' = faults + 1 => faults' > 0
      /\ faults' = 0 => faults = 0
  OBVIOUS
<1>2. InPlan'
  BY DEF Progress, InPlan, EndedAt, SealedAt, ClosedAt, DisposedAt
<1>3. InAbandon'
  BY <1>1 DEF Progress, InAbandon
<1>4. ErrorsHaveCause'
  BY <1>1 DEF Progress, ErrorsHaveCause
<1>5. LeavesNothingBehind'
  BY <1>1 DEF Progress, LeavesNothingBehind, Over
<1> QED BY <1>2, <1>3, <1>4, <1>5 DEF Progress

LEMMA OthersProgress ==
  ASSUME SessionTypeOK, Progress,
         Task \/ \E x \in Exchanges : Call(x) \/ Leave(x) \/ Ends(x)
  PROVE  Progress'
<1>1. faults \in Nat
  BY DEF SessionTypeOK
<1>2. CASE TaskAppends
  <2>1. /\ command' = command /\ main' = main /\ at' = at /\ proxy' = proxy /\ key' = key
        /\ sealed' = sealed /\ faults' = faults /\ errors' = errors
        /\ queue # << >> /\ trace' = Append(trace, Head(queue).exchange)
    BY <1>2 DEF TaskAppends, Accept, mainVars, proxyVars
  <2>2. (Has("run.start")' <=> Has("run.start")) /\ (Has("run.end")' <=> Has("run.end"))
    BY <2>1, QueuedExchange, NotABracket, HasAppended
  <2> QED BY <1>1, <2>1, <2>2, ProgressStays
<1>3. CASE TaskFails
  <2>1. /\ command' = command /\ main' = main /\ at' = at /\ proxy' = proxy /\ key' = key
        /\ sealed' = sealed /\ trace' = trace /\ queue # << >>
        /\ faults' = faults + 1 \/ (Refuses(Head(queue).exchange) /\ faults' = faults)
    BY <1>3 DEF TaskFails, Fault, writerVars, mainVars, proxyVars
  <2>2. (Has("run.start")' <=> Has("run.start")) /\ (Has("run.end")' <=> Has("run.end"))
    BY <2>1, HasSame
  <2>3. faults' = faults + 1 \/ sealed
    BY <2>1, QueuedExchange, NotABracket DEF Refuses
  <2> QED BY <1>1, <2>1, <2>2, <2>3, ProgressStays
<1>4. CASE \E x \in Exchanges : Call(x) \/ Leave(x) \/ Ends(x)
  <2>1. /\ command' = command /\ main' = main /\ at' = at /\ proxy' = proxy /\ key' = key
        /\ sealed' = sealed /\ trace' = trace /\ faults' = faults /\ errors' = errors
    BY <1>4 DEF Call, Leave, Ends, writerVars, mainVars, queueVars
  <2>2. (Has("run.start")' <=> Has("run.start")) /\ (Has("run.end")' <=> Has("run.end"))
    BY <2>1, HasSame
  <2> QED BY <1>1, <2>1, <2>2, ProgressStays
<1> QED BY <1>2, <1>3, <1>4 DEF Task

(* The type. *)

LEMMA PlanLengths ==
  ASSUME NEW c \in Commands
  PROVE  /\ Len(Plans[c]) \in Nat /\ Len(AbandonPlans[c]) \in Nat \ {0}
         /\ Len(AbandonPlans[c]) <= Len(Plans[c])
<1>1. CASE c = "record"
  BY <1>1 DEF Plans, RecordPlan, AbandonPlans, RecordAbandon
<1>2. CASE c = "fork"
  BY <1>2 DEF Plans, ForkPlan, AbandonPlans, RecordAbandon
<1>3. CASE c = "replay"
  BY <1>3 DEF Plans, ReplayPlan, AbandonPlans, ReplayAbandon
<1>4. CASE c = "attach"
  BY <1>4 DEF Plans, AttachPlan, AbandonPlans, AttachFinally
<1> QED BY <1>1, <1>2, <1>3, <1>4 DEF Commands

LEMMA PlaceType ==
  ASSUME SessionTypeOK, ~ Over, command' = command, Advance \/ Throw
  PROVE  /\ main' \in {"working", "abandoning", "returned", "threw"}
         /\ at' \in 1..Len(Plan')
         /\ Throw => key' \in BOOLEAN
<1>1. at \in 1..Len(Plan) /\ command \in Commands /\ key \in BOOLEAN
      /\ main \in {"working", "abandoning"}
  BY DEF SessionTypeOK, Over
<1>2. Len(Plans[command]) \in Nat /\ Len(AbandonPlans[command]) \in Nat \ {0}
      /\ Len(AbandonPlans[command]) <= Len(Plans[command])
  BY <1>1, PlanLengths
<1>3. Plan' = IF main' = "abandoning" THEN AbandonPlans[command] ELSE Plans[command]
  BY DEF Plan
<1>4. ASSUME Advance
      PROVE  main' \in {"working", "abandoning", "returned", "threw"} /\ at' \in 1..Len(Plan')
  BY <1>1, <1>2, <1>3, <1>4 DEF Advance, Plan
<1>5. ASSUME Throw, ~ Advance
      PROVE  main' \in {"working", "abandoning", "returned", "threw"} /\ at' \in 1..Len(Plan')
  <2>1. \/ main' = "abandoning" /\ at' = 1
        \/ main' = "threw" /\ at' = at
    BY <1>5 DEF Throw
  <2>2. at \in 1..Len(Plans[command])
    BY <1>1, <1>2 DEF Plan
  <2> QED BY <1>2, <1>3, <2>1, <2>2
<1>6. ASSUME Throw PROVE key' \in BOOLEAN
  BY <1>1, <1>6 DEF Throw
<1> QED BY <1>4, <1>5, <1>6

LEMMA WritesType ==
  ASSUME SessionTypeOK, NEW step \in {"run.start", "frames", "run.end"}, Writes(step)
  PROVE  SessionTypeOK'
<1>1. ~ Over
  BY DEF Writes, Doing
<1>2. command' = command /\ (Advance \/ Throw) /\ (key' = key \/ Throw)
  BY WritesMove
<1>3. /\ main' \in {"working", "abandoning", "returned", "threw"}
      /\ at' \in 1..Len(Plan') /\ key' \in BOOLEAN
  BY <1>1, <1>2, PlaceType DEF SessionTypeOK
<1>4. trace' \in Seq({"run.start", "frames", "run.end"} \union Exchanges)
  <2>1. trace' = trace \/ trace' = Append(trace, step)
    BY WritesMove
  <2>2. trace \in Seq({"run.start", "frames", "run.end"} \union Exchanges)
    BY DEF SessionTypeOK
  <2> QED BY <2>1, <2>2
<1>5. faults' \in 0..MaxFaults
  BY SessionAssumption DEF Writes, Accept, Fault, MayFail, writerVars, SessionTypeOK
<1> QED BY <1>2, <1>3, <1>4, <1>5, WritesMove DEF SessionTypeOK

LEMMA MovesType ==
  ASSUME SessionTypeOK, Moves
  PROVE  SessionTypeOK'
<1>1. ~ Over
  BY DEF Moves, Listen, Run, Drain, CloseProxy, ProxyCloses, Dispose, Seal, Doing
<1>2. /\ command' = command /\ trace' = trace /\ handler' = handler /\ gone' = gone
      /\ queue' = queue /\ errors' = errors
  BY ListenIs, RunIs, DrainIs, CloseProxyIs, ProxyClosesIs, DisposeIs, SealIs DEF Moves
<1>3. CASE CloseProxy
  <2>1. Plan' = Plan
    BY <1>2, <1>3, CloseProxyIs DEF Plan
  <2> QED BY <1>2, <1>3, <2>1, CloseProxyIs DEF SessionTypeOK
<1>4. CASE ~ CloseProxy
  <2>1. (Advance \/ Throw) /\ (key' \in {key, FALSE} \/ Throw)
    BY <1>4 DEF Moves, Listen, Run, Drain, ProxyCloses, Dispose, Seal
  <2>2. /\ main' \in {"working", "abandoning", "returned", "threw"}
        /\ at' \in 1..Len(Plan') /\ key' \in BOOLEAN
    BY <1>1, <1>2, <2>1, PlaceType DEF SessionTypeOK
  <2>3. /\ proxy' \in {proxy, "listening", "closed"} /\ sealed' \in {sealed, TRUE}
        /\ faults' = faults \/ (faults < MaxFaults /\ faults' = faults + 1)
    BY <1>4
       DEF Moves, Listen, Run, Drain, ProxyCloses, Dispose, Seal, Fault, MayFail,
           proxyVars, writerVars
  <2>4. /\ proxy' \in {"listening", "closing", "closed"} /\ sealed' \in BOOLEAN
        /\ faults' \in 0..MaxFaults
    <3>1. /\ proxy \in {"listening", "closing", "closed"} /\ sealed \in BOOLEAN
          /\ faults \in 0..MaxFaults /\ MaxFaults \in Nat
      BY SessionAssumption DEF SessionTypeOK
    <3>2. faults' \in 0..MaxFaults
      BY <2>3, <3>1
    <3> QED BY <2>3, <3>1, <3>2
  <2> QED BY <1>2, <2>2, <2>4 DEF SessionTypeOK
<1> QED BY <1>3, <1>4

LEMMA QueueType ==
  ASSUME SessionTypeOK, Task
  PROVE  SessionTypeOK'
<1> DEFINE Entry == [exchange : Exchanges, left : 1..PerTask]
<1>1. /\ command' = command /\ main' = main /\ at' = at /\ proxy' = proxy
      /\ handler' = handler /\ gone' = gone /\ key' = key /\ queue # << >>
  BY DEF Task, TaskAppends, TaskFails, mainVars, proxyVars
<1>2. Plan' = Plan
  BY <1>1 DEF Plan
<1>3. /\ queue \in Seq(Entry) /\ Head(queue) \in Entry /\ Tail(queue) \in Seq(Entry)
      /\ Head(queue).exchange \in Exchanges /\ Head(queue).left \in 1..PerTask
  <2>1. queue \in Seq(Entry)
    BY DEF SessionTypeOK
  <2>2. Head(queue) \in Entry /\ Tail(queue) \in Seq(Entry)
    BY <1>1, <2>1, HeadTailProperties
  <2> QED BY <2>1, <2>2
<1>4. CASE TaskAppends
  <2>1. /\ sealed' = sealed /\ faults' = faults /\ errors' = errors
        /\ trace' = Append(trace, Head(queue).exchange)
        /\ queue' = IF Head(queue).left = 1 THEN Tail(queue)
                    ELSE <<[Head(queue) EXCEPT !.left = @ - 1]>> \o Tail(queue)
    BY <1>4 DEF TaskAppends, Accept
  <2>2. trace' \in Seq({"run.start", "frames", "run.end"} \union Exchanges)
    BY <1>3, <2>1 DEF SessionTypeOK
  <2>3. Head(queue).left # 1 => [Head(queue) EXCEPT !.left = @ - 1] \in Entry
    BY <1>3, SessionAssumption
  <2>4. queue' \in Seq(Entry)
    <3>1. CASE Head(queue).left = 1
      BY <1>3, <2>1, <3>1
    <3>2. CASE Head(queue).left # 1
      <4> DEFINE less == [Head(queue) EXCEPT !.left = @ - 1]
      <4>1. queue' = <<less>> \o Tail(queue) /\ less \in Entry
        BY <2>1, <2>3, <3>2
      <4> HIDE DEF less, Entry
      <4> QED BY <1>3, <4>1
    <3> QED BY <3>1, <3>2
  <2> QED BY <1>1, <1>2, <2>1, <2>2, <2>4 DEF SessionTypeOK
<1>5. CASE TaskFails
  <2>1. /\ sealed' = sealed /\ trace' = trace /\ errors' = TRUE /\ queue' = Tail(queue)
        /\ faults' \in 0..MaxFaults
    BY <1>5, SessionAssumption DEF TaskFails, Fault, MayFail, writerVars, SessionTypeOK
  <2> QED BY <1>1, <1>2, <1>3, <2>1 DEF SessionTypeOK
<1> QED BY <1>4, <1>5 DEF Task

LEMMA ClientsType ==
  ASSUME SessionTypeOK, NEW x \in Exchanges, Call(x) \/ Leave(x) \/ Ends(x)
  PROVE  SessionTypeOK'
<1>1. /\ command' = command /\ main' = main /\ at' = at /\ proxy' = proxy
      /\ trace' = trace /\ sealed' = sealed /\ faults' = faults /\ key' = key
      /\ errors' = errors /\ gone' \in {gone, gone \union {x}}
      /\ handler' \in {[handler EXCEPT ![x] = s] : s \in {"open", "left", "ended"}}
  BY DEF Call, Leave, Ends, mainVars, queueVars, writerVars
<1>2. Plan' = Plan
  BY <1>1 DEF Plan
<1>3. handler' \in [Exchanges -> {"none", "open", "left", "ended"}]
  BY <1>1 DEF SessionTypeOK
<1>4. queue' \in Seq([exchange : Exchanges, left : 1..PerTask])
  <2>1. CASE Push(x)
    BY <2>1, SessionAssumption DEF Push, SessionTypeOK
  <2>2. CASE queue' = queue
    BY <2>2 DEF SessionTypeOK
  <2> QED BY <2>1, <2>2 DEF Call, Leave, Ends, queueVars
<1> QED BY <1>1, <1>2, <1>3, <1>4 DEF SessionTypeOK

LEMMA SessionInitType ==
  ASSUME SessionInit
  PROVE  SessionTypeOK
<1>1. at \in 1..Len(Plan)
  <2>1. command \in Commands /\ Plan = Plans[command] /\ at = 1
    BY DEF SessionInit, Plan
  <2>2. Len(Plans[command]) \in Nat \ {0}
    BY <2>1, PlanLengths
  <2> QED BY <2>1, <2>2
<1>2. /\ queue \in Seq([exchange : Exchanges, left : 1..PerTask])
      /\ trace \in Seq({"run.start", "frames", "run.end"} \union Exchanges)
  BY EmptySeq DEF SessionInit
<1>3. faults \in 0..MaxFaults
  BY SessionAssumption DEF SessionInit
<1> QED BY <1>1, <1>2, <1>3 DEF SessionInit, SessionTypeOK

LEMMA SessionStepType ==
  ASSUME SessionTypeOK, [SessionNext]_sessionVars
  PROVE  SessionTypeOK'
<1>1. CASE SessionNext
  BY <1>1, WritesType, MovesType, QueueType, ClientsType DEF SessionNext, Command, Moves
<1>2. CASE UNCHANGED sessionVars
  <2>1. Plan' = Plan
    BY <1>2 DEF Plan, sessionVars, mainVars
  <2> QED BY <1>2, <2>1
       DEF SessionTypeOK, sessionVars, mainVars, proxyVars, queueVars, writerVars
<1> QED BY <1>1, <1>2

LEMMA SessionStepProgress ==
  ASSUME SessionTypeOK, Progress, [SessionNext]_sessionVars
  PROVE  Progress'
<1>1. command = "record" \/ command = "fork" \/ command = "replay" \/ command = "attach"
  BY DEF SessionTypeOK, Commands
<1>2. CASE \E step \in {"run.start", "frames", "run.end"} : Writes(step)
  BY <1>1, <1>2, RecordWrites, ForkWrites, ReplayWrites, AttachWrites
<1>3. CASE Moves
  BY <1>1, <1>3, RecordMoves, ForkMoves, ReplayMoves, AttachMoves
<1>4. CASE Task \/ \E x \in Exchanges : Call(x) \/ Leave(x) \/ Ends(x)
  BY <1>4, OthersProgress
<1>5. CASE UNCHANGED sessionVars
  <2>1. /\ command' = command /\ main' = main /\ at' = at /\ proxy' = proxy /\ key' = key
        /\ sealed' = sealed /\ trace' = trace /\ faults' = faults /\ errors' = errors
    BY <1>5 DEF sessionVars, mainVars, proxyVars, queueVars, writerVars
  <2>2. (Has("run.start")' <=> Has("run.start")) /\ (Has("run.end")' <=> Has("run.end"))
    BY <2>1, HasSame
  <2> QED BY <2>1, <2>2, ProgressStays DEF SessionTypeOK
<1> QED BY <1>2, <1>3, <1>4, <1>5 DEF SessionNext, Command, Moves

LEMMA SessionInitProgress ==
  ASSUME SessionInit
  PROVE  Progress
<1>1. \A e : ~ Has(e)
  BY DEF SessionInit, Has
<1>2. command = "record" \/ command = "fork" \/ command = "replay" \/ command = "attach"
  BY DEF SessionInit, Commands
<1> QED BY <1>1, <1>2
     DEF SessionInit, Progress, InPlan, InAbandon, ErrorsHaveCause, LeavesNothingBehind, Over,
         EndedAt, SealedAt, ClosedAt, DisposedAt

(***************************************************************************)
(* Every command's state keeps its type, whatever fails and whenever the   *)
(* exchanges end: its step is one of its plan's (runRecording, replayFork, *)
(* replayRestored, runAttached).                                           *)
(***************************************************************************)
THEOREM SessionTypeCorrect == SessionSpec => []SessionTypeOK
<1>1. SessionInit => SessionTypeOK
  BY SessionInitType
<1>2. SessionTypeOK /\ [SessionNext]_sessionVars => SessionTypeOK'
  BY SessionStepType
<1> QED BY <1>1, <1>2, PTL DEF SessionSpec

(***************************************************************************)
(* Nothing is left behind by a command that ends, other than what the code *)
(* gives up by its own words: for any number of exchanges, however many    *)
(* appends fail and wherever, an unsealed run, a listening socket or a     *)
(* private key remains only where LeavesNothingBehind says it may.         *)
(***************************************************************************)
THEOREM NothingIsLeftBehind == SessionSpec => []LeavesNothingBehind
<1>1. SessionInit => SessionTypeOK /\ Progress
  BY SessionInitType, SessionInitProgress
<1>2. SessionTypeOK /\ Progress /\ [SessionNext]_sessionVars => (SessionTypeOK /\ Progress)'
  BY SessionStepType, SessionStepProgress
<1>3. Progress => LeavesNothingBehind
  BY DEF Progress
<1> QED BY <1>1, <1>2, <1>3, PTL DEF SessionSpec
(* What a recording holds.  A task on the queue knows what it still owes,   *)
(* an exchange is lost only to a fault of its own, and from the last drain  *)
(* on nothing is left to be written but what no client waits for.           *)

Quiet ==
  /\ proxy = "closed"
  /\ \A x \in Exchanges : handler[x] # "open"
  /\ \A i \in 1..Len(queue) : queue[i].exchange \in gone

QueueBooks ==
  /\ \A i, j \in 1..Len(queue) : queue[i].exchange = queue[j].exchange => i = j
  /\ \A i \in 1..Len(queue), x \in Exchanges :
       queue[i].exchange = x => handler[x] = "ended" /\ EventsOf(x) = PerTask - queue[i].left
  /\ \A x \in Exchanges : handler[x] # "ended" => EventsOf(x) = 0

ClientBooks ==
  /\ \A x \in Exchanges : handler[x] = "left" => x \in gone
  /\ proxy = "closed" => \A x \in Exchanges : handler[x] # "open"

\* Behind the last drain of its own plan a recording misses nothing.
Complete == (main = "working" /\ at > 6) \/ main = "returned"

LostBooks ==
  /\ IsFiniteSet(Lost) /\ Cardinality(Lost) <= faults
  /\ ~ errors => Lost = {}
  /\ Complete => Lost = {}

Drained == Complete \/ (main = "abandoning" /\ at > 2) \/ Has("run.end") \/ sealed

QuietInTime == Drained => Quiet

NothingBehind == Behind("run.end") \subseteq gone

RecordBooks == QueueBooks /\ ClientBooks /\ LostBooks /\ QuietInTime /\ NothingBehind

(* Counting the events of an exchange. *)

LEMMA EventsSame ==
  ASSUME trace' = trace
  PROVE  \A x : EventsOf(x)' = EventsOf(x)
BY DEF EventsOf

LEMMA EventsAppended ==
  ASSUME SessionTypeOK, NEW event, trace' = Append(trace, event), NEW x
  PROVE  /\ EventsOf(x) \in Nat
         /\ x # event => EventsOf(x)' = EventsOf(x)
         /\ x = event => EventsOf(x)' = EventsOf(x) + 1
<1> DEFINE S == {i \in 1..Len(trace) : trace[i] = x}
           T == {i \in 1..Len(trace') : trace'[i] = x}
           n == Len(trace) + 1
<1>1. /\ Len(trace) \in Nat /\ Len(trace') = n
      /\ \A i \in 1..Len(trace) : trace'[i] = trace[i]
      /\ trace'[n] = event
  BY DEF SessionTypeOK
<1>2. IsFiniteSet(S)
  <2>1. IsFiniteSet(1..Len(trace))
    BY <1>1, FS_Interval
  <2> QED BY <2>1, FS_Subset
<1>3. EventsOf(x) = Cardinality(S) /\ EventsOf(x)' = Cardinality(T)
  BY DEF EventsOf
<1>4. n \notin S /\ T = IF x = event THEN S \union {n} ELSE S
  BY <1>1
<1>5. Cardinality(S) \in Nat /\ Cardinality(S \union {n}) = Cardinality(S) + 1
  BY <1>2, <1>4, FS_CardinalityType, FS_AddElement
<1> QED BY <1>3, <1>4, <1>5

LEMMA BehindAppended ==
  ASSUME SessionTypeOK, NEW event, trace' = Append(trace, event), NEW e
  PROVE  Behind(e)' \subseteq Behind(e) \union (IF Has(e) THEN {event} ELSE {})
<1>1. /\ Len(trace) \in Nat /\ Len(trace') = Len(trace) + 1
      /\ \A i \in 1..Len(trace) : trace'[i] = trace[i]
      /\ trace'[Len(trace) + 1] = event
  BY DEF SessionTypeOK
<1>2. SUFFICES ASSUME NEW j \in 1..Len(trace'), NEW i \in 1..(j - 1), trace'[i] = e
               PROVE  trace'[j] \in Behind(e) \union (IF Has(e) THEN {event} ELSE {})
  BY DEF Behind
<1>3. i \in 1..Len(trace) /\ trace[i] = e
  BY <1>1, <1>2
<1>4. CASE j \in 1..Len(trace)
  BY <1>1, <1>3, <1>4 DEF Behind
<1>5. CASE j = Len(trace) + 1
  BY <1>1, <1>3, <1>5 DEF Has
<1> QED BY <1>1, <1>4, <1>5

LEMMA BehindSame ==
  ASSUME trace' = trace, NEW e
  PROVE  Behind(e)' = Behind(e)
BY DEF Behind

LEMMA LostFewer ==
  ASSUME IsFiniteSet(Lost), Cardinality(Lost) <= faults, faults \in Nat, NEW n \in Nat,
         faults <= n, NEW S \in SUBSET Lost
  PROVE  IsFiniteSet(S) /\ Cardinality(S) <= n
<1>1. IsFiniteSet(S) /\ Cardinality(S) <= Cardinality(Lost)
  BY FS_Subset
<1>2. Cardinality(S) \in Nat /\ Cardinality(Lost) \in Nat
  BY <1>1, FS_CardinalityType
<1> QED BY <1>1, <1>2

LEMMA QueueElements ==
  ASSUME SessionTypeOK
  PROVE  /\ Len(queue) \in Nat
         /\ \A i \in 1..Len(queue) : queue[i].exchange \in Exchanges /\ queue[i].left \in 1..PerTask
<1> DEFINE Entry == [exchange : Exchanges, left : 1..PerTask]
<1>1. queue \in Seq(Entry)
  BY DEF SessionTypeOK
<1>2. \A i \in 1..Len(queue) : queue[i] \in Entry
  BY <1>1, ElementOfSeq
<1> QED BY <1>1, <1>2

(* A step that touches neither the exchanges nor their events. *)

LEMMA BooksStay ==
  ASSUME SessionTypeOK, RecordBooks,
         handler' = handler, gone' = gone, queue' = queue, errors' = errors,
         \A x \in Exchanges : EventsOf(x)' = EventsOf(x),
         proxy' = "closed" => \A x \in Exchanges : handler[x] # "open",
         faults' \in {faults, faults + 1},
         Complete' => Complete \/ ~ errors,
         Drained' /\ ~ Drained => Quiet,
         Quiet => proxy' = "closed",
         Behind("run.end")' \subseteq Behind("run.end")
  PROVE  RecordBooks'
<1>1. QueueBooks'
  <2>1. \A i \in 1..Len(queue) : queue[i].exchange \in Exchanges
    BY QueueElements
  <2> QED BY <2>1 DEF RecordBooks, QueueBooks
<1>2. ClientBooks'
  BY DEF RecordBooks, ClientBooks
<1>3. Lost' = Lost
  BY DEF Lost, Queued
<1>4. LostBooks'
  <2>1. faults \in Nat /\ faults' \in Nat /\ faults <= faults'
    BY DEF SessionTypeOK
  <2>2. IsFiniteSet(Lost) /\ Cardinality(Lost) <= faults'
    BY <2>1, LostFewer DEF RecordBooks, LostBooks
  <2> QED BY <1>3, <2>2 DEF RecordBooks, LostBooks
<1>5. QuietInTime'
  BY DEF RecordBooks, QuietInTime, Quiet
<1>6. NothingBehind'
  BY DEF RecordBooks, NothingBehind
<1> QED BY <1>1, <1>2, <1>4, <1>5, <1>6 DEF RecordBooks

(* The command's own steps. *)

LEMMA RecordPlaces ==
  ASSUME SessionTypeOK, command = "record"
  PROVE  /\ main # "abandoning" => at \in 1..10 /\ Len(Plan) = 10
         /\ main = "abandoning" => at \in 1..5 /\ Len(Plan) = 5
<1>1. at \in 1..Len(Plan)
  BY DEF SessionTypeOK
<1> QED BY <1>1, RecordSteps, RecordAbandonSteps

LEMMA WritesKeepBooks ==
  ASSUME SessionTypeOK, Progress, RecordBooks, command = "record",
         NEW step \in {"run.start", "frames", "run.end"}, Writes(step)
  PROVE  RecordBooks'
<1>1. /\ handler' = handler /\ gone' = gone /\ queue' = queue /\ errors' = errors
      /\ proxy' = proxy /\ sealed' = sealed /\ faults' \in {faults, faults + 1}
      /\ Doing(step)
  BY WritesMove
<1>2. /\ (Has("run.end")' <=> Has("run.end")) \/ (~ Refuses(step) /\ Advance)
      /\ Has("run.end")' => Has("run.end") \/ step = "run.end"
      /\ trace' = trace \/ (trace' = Append(trace, step) /\ ~ Refuses(step))
      /\ Advance \/ Throw
  BY WritesMove
<1>3. at \in 1..Len(Plan) /\ main \in {"working", "abandoning"}
  BY <1>1 DEF SessionTypeOK, Doing, Over
<1>4. /\ main = "working" => at \in {1, 4, 8, 9} /\ Len(Plan) = 10
      /\ main = "working" /\ step = "run.end" => at = 9
      /\ main = "abandoning" => at = 4 /\ step = "run.end" /\ Len(Plan) = 5
  <2>1. CASE main = "working"
    BY <1>1, <1>3, <2>1, RecordSteps DEF Doing
  <2>2. CASE main = "abandoning"
    BY <1>1, <1>3, <2>2, RecordAbandonSteps DEF Doing
  <2> QED BY <1>3, <2>1, <2>2
<1>5. \/ main' = main /\ at' = at + 1
      \/ main' = "threw"
  <2>1. CASE main = "working"
    <3>1. ~ Guarded
      BY <1>1, <1>3, <1>4, <2>1, RecordSteps DEF Guarded, Doing
    <3>2. Throw => main' = "threw"
      BY <2>1, <3>1 DEF Throw
    <3>3. Advance => main' = main /\ at' = at + 1
      <4>2. at \in {1, 4, 8, 9} /\ Len(Plan) = 10
        BY <1>4, <2>1
      <4>1. at < Len(Plan)
        BY <4>2
      <4> QED BY <4>1 DEF Advance
    <3> QED BY <1>2, <3>2, <3>3
  <2>2. CASE main = "abandoning"
    BY <1>2, <1>4, <2>2 DEF Advance, Throw
  <2> QED BY <1>3, <2>1, <2>2
<1>6. Complete' => Complete
  BY <1>3, <1>4, <1>5 DEF Complete
<1>7. Drained' => Drained
  BY <1>1, <1>2, <1>3, <1>4, <1>5 DEF Drained, Complete
<1>8. trace' = Append(trace, step) /\ ~ Refuses(step) => ~ Has("run.end")
  BY <1>3, <1>4 DEF Refuses, Progress, InPlan, EndedAt
<1>9. Behind("run.end")' \subseteq Behind("run.end")
  BY <1>2, <1>8, BehindAppended, BehindSame
<1>10. \A x \in Exchanges : EventsOf(x)' = EventsOf(x)
  BY <1>2, EventsSame, EventsAppended, NotABracket
<1>11. proxy' = "closed" => \A x \in Exchanges : handler[x] # "open"
  BY <1>1 DEF RecordBooks, ClientBooks
<1>12. Quiet => proxy' = "closed"
  BY <1>1 DEF Quiet
<1> QED BY <1>1, <1>6, <1>7, <1>9, <1>10, <1>11, <1>12, BooksStay

LEMMA MovesKeepBooks ==
  ASSUME SessionTypeOK, Progress, RecordBooks, command = "record", Moves
  PROVE  RecordBooks'
<1>1. /\ handler' = handler /\ gone' = gone /\ queue' = queue /\ errors' = errors
      /\ trace' = trace
  BY ListenIs, RunIs, DrainIs, CloseProxyIs, ProxyClosesIs, DisposeIs, SealIs DEF Moves
<1>2. Has("run.end")' <=> Has("run.end")
  BY <1>1, HasSame
<1>3. at \in 1..Len(Plan) /\ main \in {"working", "abandoning"}
  BY DEF Moves, Listen, Run, Drain, CloseProxy, ProxyCloses, Dispose, Seal, SessionTypeOK,
         Doing, Over
<1>4. Behind("run.end")' \subseteq Behind("run.end")
  BY <1>1, BehindSame
<1>5. \A x \in Exchanges : EventsOf(x)' = EventsOf(x)
  BY <1>1, EventsSame
<1>6. faults' \in {faults, faults + 1}
  BY ListenIs, RunIs, DrainIs, CloseProxyIs, ProxyClosesIs, DisposeIs, SealIs DEF Moves
<1>7. proxy' = "closed" => \A x \in Exchanges : handler[x] # "open"
  <2>1. CASE ProxyCloses
    BY <2>1 DEF ProxyCloses
  <2>2. CASE ~ ProxyCloses
    <3>1. proxy' = "closed" => proxy = "closed"
      BY <2>2, ListenIs, RunIs, DrainIs, CloseProxyIs, DisposeIs, SealIs DEF Moves
    <3> QED BY <3>1 DEF RecordBooks, ClientBooks
  <2> QED BY <2>1, <2>2
<1>8. ~ Listen
  BY <1>3, RecordSteps, RecordAbandonSteps, ListenIs DEF Doing
<1>9. Quiet => proxy' = "closed"
  BY <1>8, RunIs, DrainIs, CloseProxyIs, ProxyClosesIs, DisposeIs, SealIs DEF Moves, Quiet
<1>10. sealed' => sealed \/ Doing("seal")
  BY <1>8, RunIs, DrainIs, CloseProxyIs, ProxyClosesIs, DisposeIs, SealIs DEF Moves
<1>11. CASE Drain
  <2>1. Doing("drain") /\ queue = << >> /\ sealed' = sealed /\ (~ errors \/ (errors /\ Throw))
    BY <1>11, DrainIs
  <2>2. CASE main = "working"
    <3>1. at \in {3, 6}
      BY <1>3, <2>1, <2>2, RecordSteps DEF Doing
    <3>2. ~ Guarded
      BY <1>3, <2>1, <2>2, <3>1, RecordSteps DEF Guarded, Doing
    <3>3. \/ ~ errors /\ main' = main /\ at' = at + 1
          \/ main' = "threw"
      <4>1. CASE errors
        BY <2>1, <2>2, <3>2, <4>1 DEF Throw
      <4>2. CASE ~ errors
        <5>1. Advance /\ Len(Plan) = 10
          BY <1>3, <1>11, <2>2, <4>2, DrainIs, RecordSteps
        <5> QED BY <3>1, <4>2, <5>1 DEF Advance
      <4> QED BY <4>1, <4>2
    <3>4. Complete' => Complete \/ ~ errors
      BY <2>2, <3>1, <3>3 DEF Complete
    <3>5. Drained' /\ ~ Drained => at = 6
      BY <1>2, <2>1, <2>2, <3>1, <3>3 DEF Drained, Complete
    <3>6. at = 6 => Quiet
      <4>1. at = 6 => proxy = "closed"
        BY <2>2 DEF Progress, InPlan, ClosedAt
      <4>2. Len(queue) = 0
        BY <2>1
      <4> QED BY <4>1, <4>2 DEF Quiet, RecordBooks, ClientBooks
    <3> QED BY <1>1, <1>4, <1>5, <1>6, <1>7, <1>9, <3>4, <3>5, <3>6, BooksStay
  <2>3. CASE main = "abandoning"
    <3>1. at = 2 /\ Len(Plan) = 5
      BY <1>3, <2>1, <2>3, RecordAbandonSteps DEF Doing
    <3>2. main' = main /\ at' = 3
      BY <1>11, <2>3, <3>1, DrainIs DEF Throw, Advance
    <3>3. ~ Complete'
      BY <2>3, <3>2 DEF Complete
    <3>4. Quiet
      <4>1. proxy = "closed"
        BY <2>3, <3>1 DEF Progress, InAbandon
      <4>2. Len(queue) = 0
        BY <2>1
      <4> QED BY <4>1, <4>2 DEF Quiet, RecordBooks, ClientBooks
    <3> QED BY <1>1, <1>4, <1>5, <1>6, <1>7, <1>9, <3>3, <3>4, BooksStay
  <2> QED BY <1>3, <2>2, <2>3
<1>12. CASE ~ Drain
  <2>1. /\ main = "working" => at \in {2, 5, 7, 10} /\ Len(Plan) = 10
        /\ main = "abandoning" => at \in {1, 3, 5} /\ Len(Plan) = 5
    <3>1. Doing("run") \/ Doing("close proxy") \/ Doing("dispose") \/ Doing("seal")
      BY <1>8, <1>12, RunIs, CloseProxyIs, ProxyClosesIs, DisposeIs, SealIs DEF Moves
    <3>2. CASE main = "working"
      BY <1>3, <3>1, <3>2, RecordSteps DEF Doing
    <3>3. CASE main = "abandoning"
      BY <1>3, <3>1, <3>3, RecordAbandonSteps DEF Doing
    <3> QED BY <1>3, <3>2, <3>3
  <2>2. (main' = main /\ at' = at) \/ Advance \/ Throw
    BY <1>8, <1>12, RunIs, CloseProxyIs, ProxyClosesIs, DisposeIs, SealIs DEF Moves
  <2>3. \/ main' = main /\ at' = at
        \/ main' = main /\ at' = at + 1
        \/ main = "working" /\ at = 10 /\ main' = "returned"
        \/ main' = "abandoning" /\ at' = 1
        \/ main' = "threw"
    <3>1. Advance => \/ main' = main /\ at' = at + 1
                     \/ main = "working" /\ at = 10 /\ main' = "returned"
                     \/ main' = "threw"
      <4>1. CASE main = "working"
        <5>1. at < Len(Plan) \/ at = 10
          <6>1. at \in {2, 5, 7, 10} /\ Len(Plan) = 10
            BY <2>1, <4>1
          <6> QED BY <6>1
        <5> QED BY <4>1, <5>1 DEF Advance
      <4>2. CASE main = "abandoning"
        BY <4>2 DEF Advance
      <4> QED BY <1>3, <4>1, <4>2
    <3>2. Throw => Advance \/ main' = "threw" \/ (main' = "abandoning" /\ at' = 1)
      BY DEF Throw
    <3> QED BY <2>2, <3>1, <3>2
  <2>4. Complete' => Complete
    BY <1>3, <2>1, <2>3 DEF Complete
  <2>5. Doing("seal") => Drained
    <3>1. CASE main = "working"
      BY <1>3, <3>1, RecordSteps DEF Doing, Drained, Complete
    <3>2. CASE main = "abandoning"
      BY <1>3, <3>2, RecordAbandonSteps DEF Doing, Drained
    <3> QED BY <1>3, <3>1, <3>2
  <2>6. Drained' => Drained
    <3>1. main' = "abandoning" /\ at' > 2 => main = "abandoning" /\ at > 2
      BY <1>3, <2>1, <2>3
    <3> QED BY <1>2, <1>10, <2>4, <2>5, <3>1 DEF Drained
  <2> QED BY <1>1, <1>4, <1>5, <1>6, <1>7, <1>9, <2>4, <2>6, BooksStay
<1> QED BY <1>11, <1>12

(* The steps of the queue. *)

LEMMA ConsProperties ==
  ASSUME NEW S, NEW e \in S, NEW t \in Seq(S)
  PROVE  /\ Len(<<e>> \o t) = Len(t) + 1
         /\ (<<e>> \o t)[1] = e
         /\ \A i \in 2..(Len(t) + 1) : (<<e>> \o t)[i] = t[i - 1]
<1>1. <<e>> \in Seq(S) /\ Len(<<e>>) = 1 /\ <<e>>[1] = e /\ Len(t) \in Nat
  OBVIOUS
<1>2. /\ Len(<<e>> \o t) = Len(<<e>>) + Len(t)
      /\ \A i \in 1..(Len(<<e>>) + Len(t)) :
           (<<e>> \o t)[i] = IF i <= Len(<<e>>) THEN <<e>>[i] ELSE t[i - Len(<<e>>)]
  BY <1>1, ConcatProperties
<1> QED BY <1>1, <1>2

LEMMA QueueMoves ==
  ASSUME SessionTypeOK, queue # << >>,
         \/ queue' = Tail(queue)
         \/ /\ Head(queue).left # 1
            /\ queue' = <<[Head(queue) EXCEPT !.left = @ - 1]>> \o Tail(queue)
  PROVE  /\ Len(queue) \in Nat \ {0} /\ Len(queue') \in Nat
         /\ \/ /\ queue' = Tail(queue)
               /\ Len(queue') = Len(queue) - 1
               /\ \A i \in 1..Len(queue') : queue'[i] = queue[i + 1]
            \/ /\ Head(queue).left # 1
               /\ Len(queue') = Len(queue)
               /\ queue'[1].exchange = Head(queue).exchange
               /\ queue'[1].left = Head(queue).left - 1
               /\ \A i \in 2..Len(queue') : queue'[i] = queue[i]
<1>1. /\ Len(queue) \in Nat \ {0}
      /\ Tail(queue) \in Seq([exchange : Exchanges, left : 1..PerTask])
      /\ Len(Tail(queue)) = Len(queue) - 1
      /\ \A i \in 1..(Len(queue) - 1) : Tail(queue)[i] = queue[i + 1]
  BY QueuedExchange
<1>2. CASE queue' = Tail(queue)
  <2>1. Len(queue') = Len(queue) - 1 /\ Len(queue') \in Nat
    BY <1>1, <1>2
  <2>2. \A i \in 1..Len(queue') : queue'[i] = queue[i + 1]
    BY <1>1, <1>2, <2>1
  <2> QED BY <1>1, <1>2, <2>1, <2>2
<1>3. CASE /\ Head(queue).left # 1
           /\ queue' = <<[Head(queue) EXCEPT !.left = @ - 1]>> \o Tail(queue)
  <2> DEFINE less == [Head(queue) EXCEPT !.left = @ - 1]
  <2>1. less.exchange = Head(queue).exchange /\ less.left = Head(queue).left - 1
    <3>1. Head(queue) \in [exchange : Exchanges, left : 1..PerTask]
      BY HeadTailProperties DEF SessionTypeOK
    <3> QED BY <3>1
  <2>2. queue' = <<less>> \o Tail(queue)
    BY <1>3
  <2> HIDE DEF less
  <2>3. /\ Len(queue') = Len(queue) /\ queue'[1] = less
        /\ \A i \in 2..Len(queue') : queue'[i] = Tail(queue)[i - 1]
    <3> DEFINE t == Tail(queue)
               Entry == [exchange : Exchanges, left : 1..PerTask]
    <3>1. t \in Seq(Entry) /\ Len(t) + 1 = Len(queue)
      BY <1>1
    <3>4. less \in Entry
      <4>1. Head(queue) \in Entry
        BY HeadTailProperties DEF SessionTypeOK
      <4> QED BY <1>3, <4>1, SessionAssumption DEF less
    <3> HIDE DEF Entry
    <3>2. /\ Len(<<less>> \o t) = Len(t) + 1 /\ (<<less>> \o t)[1] = less
          /\ \A i \in 2..(Len(t) + 1) : (<<less>> \o t)[i] = t[i - 1]
      BY <3>1, <3>4, ConsProperties
    <3> QED BY <2>2, <3>1, <3>2
  <2>4. \A i \in 2..Len(queue') : queue'[i] = queue[i]
    <3> TAKE i \in 2..Len(queue')
    <3>1. i - 1 \in 1..(Len(queue) - 1) /\ (i - 1) + 1 = i
      BY <1>1, <2>3
    <3> QED BY <1>1, <2>3, <3>1
  <2> QED BY <1>1, <1>3, <2>1, <2>3, <2>4
<1> QED BY <1>2, <1>3

\* What the task at the head wrote, and whether it left the queue by it.
LEMMA TaskKeepsBooks ==
  ASSUME SessionTypeOK, RecordBooks, queue # << >>,
         command' = command, main' = main, at' = at, proxy' = proxy,
         handler' = handler, gone' = gone, sealed' = sealed,
         Has("run.end")' <=> Has("run.end"),
         \/ queue' = Tail(queue)
         \/ /\ Head(queue).left # 1
            /\ queue' = <<[Head(queue) EXCEPT !.left = @ - 1]>> \o Tail(queue)
  PROVE  /\ \A i \in 1..Len(queue') : \E j \in 1..Len(queue) :
                queue'[i].exchange = queue[j].exchange
         /\ ClientBooks' /\ QuietInTime' /\ (Drained' <=> Drained) /\ (Complete' <=> Complete)
         /\ Drained => Head(queue).exchange \in gone
<1>1. \A i \in 1..Len(queue') : \E j \in 1..Len(queue) : queue'[i].exchange = queue[j].exchange
  <2> TAKE i \in 1..Len(queue')
  <2>1. CASE queue' = Tail(queue)
    <3>1. i + 1 \in 1..Len(queue) /\ queue'[i] = queue[i + 1]
      BY <2>1, QueuedExchange
    <3> QED BY <3>1
  <2>2. CASE queue' # Tail(queue)
    <3>1. /\ Len(queue') = Len(queue) /\ queue'[1].exchange = Head(queue).exchange
          /\ \A k \in 2..Len(queue') : queue'[k] = queue[k]
      BY <2>2, QueueMoves
    <3>2. Head(queue) = queue[1] /\ Len(queue) \in Nat \ {0}
      BY QueuedExchange
    <3>3. i = 1 \/ i \in 2..Len(queue')
      BY <3>1, <3>2
    <3> QED BY <3>1, <3>2, <3>3
  <2> QED BY <2>1, <2>2
<1>2. ClientBooks'
  BY DEF RecordBooks, ClientBooks
<1>3. (Complete' <=> Complete) /\ (Drained' <=> Drained)
  BY DEF Complete, Drained
<1>4. Quiet => Quiet'
  BY <1>1 DEF Quiet
<1>5. QuietInTime'
  BY <1>3, <1>4 DEF RecordBooks, QuietInTime
<1>6. Drained => Head(queue).exchange \in gone
  <2>1. Head(queue) = queue[1] /\ 1 \in 1..Len(queue)
    BY QueuedExchange
  <2> QED BY <2>1 DEF RecordBooks, QuietInTime, Quiet
<1> QED BY <1>1, <1>2, <1>3, <1>5, <1>6

LEMMA FewerLost ==
  ASSUME SessionTypeOK, LostBooks, errors' = errors, faults' = faults,
         Complete' <=> Complete, Lost' \subseteq Lost
  PROVE  LostBooks'
<1>1. faults \in Nat
  BY DEF SessionTypeOK
<1>2. IsFiniteSet(Lost') /\ Cardinality(Lost') <= faults
  BY <1>1, LostFewer DEF LostBooks
<1> QED BY <1>2 DEF LostBooks

LEMMA AppendsKeepBooks ==
  ASSUME SessionTypeOK, RecordBooks, TaskAppends
  PROVE  RecordBooks'
<1> DEFINE head == Head(queue)
           x0 == head.exchange
<1>1. /\ command' = command /\ main' = main /\ at' = at /\ proxy' = proxy
      /\ handler' = handler /\ gone' = gone /\ sealed' = sealed
      /\ errors' = errors /\ faults' = faults /\ queue # << >>
      /\ trace' = Append(trace, x0)
      /\ queue' = IF head.left = 1 THEN Tail(queue)
                  ELSE <<[head EXCEPT !.left = @ - 1]>> \o Tail(queue)
  BY DEF TaskAppends, Accept, mainVars, proxyVars
<1>2. /\ x0 \in Exchanges /\ head.left \in 1..PerTask
      /\ head = queue[1] /\ Len(queue) \in Nat \ {0} /\ 1 \in 1..Len(queue)
  BY <1>1, QueuedExchange
<1>3. \A x : /\ EventsOf(x) \in Nat
             /\ x # x0 => EventsOf(x)' = EventsOf(x)
             /\ x = x0 => EventsOf(x)' = EventsOf(x) + 1
  BY <1>1, EventsAppended
<1>4. Has("run.end")' <=> Has("run.end")
  BY <1>1, <1>2, HasAppended, NotABracket
<1>5. /\ ClientBooks' /\ QuietInTime' /\ (Drained' <=> Drained) /\ (Complete' <=> Complete)
      /\ Drained => x0 \in gone
  BY <1>1, <1>4, TaskKeepsBooks
<1>6. handler[x0] = "ended" /\ EventsOf(x0) = PerTask - head.left
  BY <1>2 DEF RecordBooks, QueueBooks
<1>7. \A i \in 1..Len(queue) : queue[i].exchange = x0 => i = 1
  BY <1>2 DEF RecordBooks, QueueBooks
<1>8. \A i \in 1..Len(queue) : queue[i].exchange \in Exchanges /\ queue[i].left \in 1..PerTask
  BY QueueElements
<1>9. ASSUME head.left = 1 PROVE QueueBooks' /\ Lost' \subseteq Lost
  <2>1. /\ Len(queue') = Len(queue) - 1 /\ Len(queue') \in Nat
        /\ \A i \in 1..Len(queue') : queue'[i] = queue[i + 1] /\ i + 1 \in 2..Len(queue)
    <3>1. queue' = Tail(queue)
      BY <1>1, <1>9
    <3>2. Len(Tail(queue)) = Len(queue) - 1
      BY <1>1, QueuedExchange
    <3>3. \A i \in 1..(Len(queue) - 1) : Tail(queue)[i] = queue[i + 1]
      BY <1>1, QueuedExchange
    <3>4. \A i \in 1..(Len(queue) - 1) : i + 1 \in 2..Len(queue)
      BY <1>2
    <3>5. Len(queue) - 1 \in Nat
      BY <1>2
    <3> QED BY <3>1, <3>2, <3>3, <3>4, <3>5
  <2>2. \A i \in 1..Len(queue') : queue'[i].exchange # x0
    BY <1>2, <1>7, <2>1
  <2>3. QueueBooks'
    <3>1. \A i, j \in 1..Len(queue') : queue'[i].exchange = queue'[j].exchange => i = j
      <4> TAKE i, j \in 1..Len(queue')
      <4>1. /\ i + 1 \in 1..Len(queue) /\ j + 1 \in 1..Len(queue)
            /\ queue'[i] = queue[i + 1] /\ queue'[j] = queue[j + 1]
        BY <1>2, <2>1
      <4>2. queue[i + 1].exchange = queue[j + 1].exchange => i + 1 = j + 1
        BY <4>1 DEF RecordBooks, QueueBooks
      <4> QED BY <2>1, <4>1, <4>2
    <3>2. ASSUME NEW i \in 1..Len(queue'), NEW x \in Exchanges, queue'[i].exchange = x
          PROVE  handler[x] = "ended" /\ EventsOf(x)' = PerTask - queue'[i].left
      <4>1. i + 1 \in 1..Len(queue) /\ queue'[i] = queue[i + 1]
        BY <1>2, <2>1
      <4>2. EventsOf(x)' = EventsOf(x)
        BY <1>3, <2>2, <3>2
      <4>3. handler[x] = "ended" /\ EventsOf(x) = PerTask - queue[i + 1].left
        BY <3>2, <4>1 DEF RecordBooks, QueueBooks
      <4> QED BY <4>1, <4>2, <4>3
    <3>3. \A x \in Exchanges : handler[x] # "ended" => EventsOf(x)' = 0
      BY <1>3, <1>6 DEF RecordBooks, QueueBooks
    <3> QED BY <1>1, <3>1, <3>2, <3>3 DEF QueueBooks
  <2>4. Lost' \subseteq Lost
    <3> SUFFICES ASSUME NEW x \in Lost' PROVE x \in Lost
      OBVIOUS
    <3>1. /\ x \in Exchanges \ gone /\ handler[x] = "ended" /\ EventsOf(x)' < PerTask
          /\ \A i \in 1..Len(queue') : queue'[i].exchange # x
      BY <1>1 DEF Lost, Queued
    <3>2. x # x0
      BY <1>3, <1>6, <1>9, <3>1, SessionAssumption
    <3>3. ASSUME NEW i \in 1..Len(queue) PROVE queue[i].exchange # x
      <4>1. CASE i = 1
        BY <1>2, <3>2, <4>1
      <4>2. CASE i # 1
        <5>1. i - 1 \in 1..Len(queue') /\ (i - 1) + 1 = i
          BY <1>2, <2>1, <4>2
        <5>2. queue'[i - 1] = queue[i]
          BY <2>1, <5>1
        <5> QED BY <3>1, <5>1, <5>2
      <4> QED BY <4>1, <4>2
    <3> QED BY <1>3, <3>1, <3>2, <3>3 DEF Lost, Queued
  <2> QED BY <2>3, <2>4
<1>10. ASSUME head.left # 1 PROVE QueueBooks' /\ Lost' \subseteq Lost
  <2>1. /\ Len(queue') = Len(queue) /\ queue'[1].exchange = x0 /\ queue'[1].left = head.left - 1
        /\ \A i \in 2..Len(queue') : queue'[i] = queue[i]
    <3>1. queue' = <<[head EXCEPT !.left = @ - 1]>> \o Tail(queue)
      BY <1>1, <1>10
    <3>2. Len(queue') # Len(queue) - 1 \/ queue' # Tail(queue)
      <4>1. Len(queue') = Len(queue)
        <5>1. [head EXCEPT !.left = @ - 1] \in [exchange : Exchanges, left : 1..PerTask]
          <6>1. head \in [exchange : Exchanges, left : 1..PerTask]
            BY <1>1, HeadTailProperties DEF SessionTypeOK
          <6> QED BY <1>10, <6>1, SessionAssumption
        <5>2. /\ Tail(queue) \in Seq([exchange : Exchanges, left : 1..PerTask])
              /\ Len(Tail(queue)) = Len(queue) - 1
          BY <1>1, QueuedExchange
        <5>3. Len(queue') = Len(Tail(queue)) + 1
          BY <3>1, <5>1, <5>2, ConsProperties
        <5> QED BY <1>2, <5>2, <5>3
      <4> QED BY <1>2, <4>1
    <3> QED BY <1>1, <1>10, <3>1, <3>2, QueueMoves
  <2>2. \A i \in 1..Len(queue) : queue'[i].exchange = queue[i].exchange
    BY <1>2, <2>1
  <2>3. QueueBooks'
    <3>1. \A i, j \in 1..Len(queue') : queue'[i].exchange = queue'[j].exchange => i = j
      BY <2>1, <2>2 DEF RecordBooks, QueueBooks
    <3>2. ASSUME NEW i \in 1..Len(queue'), NEW x \in Exchanges, queue'[i].exchange = x
          PROVE  handler[x] = "ended" /\ EventsOf(x)' = PerTask - queue'[i].left
      <4>1. CASE i = 1
        <5>1. x = x0 /\ queue'[i].left = head.left - 1
          BY <2>1, <3>2, <4>1
        <5>2. EventsOf(x)' = EventsOf(x) + 1 /\ EventsOf(x) = PerTask - head.left
          BY <1>3, <1>6, <5>1
        <5> HIDE DEF head, x0
        <5>3. EventsOf(x)' = PerTask - (head.left - 1)
          BY <1>2, <5>2, SessionAssumption
        <5> QED BY <1>6, <5>1, <5>3
      <4>2. CASE i # 1
        <5>1. i \in 1..Len(queue) /\ queue'[i] = queue[i] /\ queue[i].exchange = x /\ x # x0
          BY <1>2, <1>7, <2>1, <3>2, <4>2
        <5>2. EventsOf(x)' = EventsOf(x)
          BY <1>3, <5>1
        <5>3. handler[x] = "ended" /\ EventsOf(x) = PerTask - queue[i].left
          BY <5>1 DEF RecordBooks, QueueBooks
        <5> QED BY <5>1, <5>2, <5>3
      <4> QED BY <4>1, <4>2
    <3>3. \A x \in Exchanges : handler[x] # "ended" => EventsOf(x)' = 0
      BY <1>3, <1>6 DEF RecordBooks, QueueBooks
    <3> QED BY <1>1, <3>1, <3>2, <3>3 DEF QueueBooks
  <2>4. Lost' \subseteq Lost
    <3> SUFFICES ASSUME NEW x \in Lost' PROVE x \in Lost
      OBVIOUS
    <3>1. /\ x \in Exchanges \ gone /\ handler[x] = "ended" /\ EventsOf(x)' < PerTask
          /\ \A i \in 1..Len(queue') : queue'[i].exchange # x
      BY <1>1 DEF Lost, Queued
    <3>2. \A i \in 1..Len(queue) : queue[i].exchange # x
      BY <2>1, <2>2, <3>1
    <3>3. x # x0
      BY <1>2, <3>2
    <3> QED BY <1>3, <3>1, <3>2, <3>3 DEF Lost, Queued
  <2> QED BY <2>3, <2>4
<1>11. LostBooks'
  BY <1>1, <1>5, <1>9, <1>10, FewerLost DEF RecordBooks
<1>12. NothingBehind'
  <2>1. Has("run.end") => x0 \in gone
    BY <1>5 DEF Drained
  <2>2. Behind("run.end")' \subseteq Behind("run.end") \union (IF Has("run.end") THEN {x0} ELSE {})
    BY <1>1, BehindAppended
  <2> QED BY <1>1, <2>1, <2>2 DEF RecordBooks, NothingBehind
<1> QED BY <1>5, <1>9, <1>10, <1>11, <1>12 DEF RecordBooks

LEMMA FailuresKeepBooks ==
  ASSUME SessionTypeOK, RecordBooks, TaskFails
  PROVE  RecordBooks'
<1> DEFINE x0 == Head(queue).exchange
<1>1. /\ command' = command /\ main' = main /\ at' = at /\ proxy' = proxy
      /\ handler' = handler /\ gone' = gone /\ sealed' = sealed /\ trace' = trace
      /\ errors' = TRUE /\ queue # << >> /\ queue' = Tail(queue)
      /\ faults' = faults + 1 \/ (Refuses(x0) /\ faults' = faults)
  BY DEF TaskFails, Fault, writerVars, mainVars, proxyVars
<1>2. /\ x0 \in Exchanges /\ x0 = queue[1].exchange /\ Len(queue) \in Nat \ {0}
      /\ 1 \in 1..Len(queue)
  BY <1>1, QueuedExchange
<1>3. \A x : EventsOf(x)' = EventsOf(x)
  BY <1>1, EventsSame
<1>4. Has("run.end")' <=> Has("run.end")
  BY <1>1, HasSame
<1>5. /\ ClientBooks' /\ QuietInTime' /\ (Drained' <=> Drained) /\ (Complete' <=> Complete)
      /\ Drained => x0 \in gone
  BY <1>1, <1>4, TaskKeepsBooks
<1>6. /\ Len(queue') = Len(queue) - 1 /\ Len(queue') \in Nat
      /\ \A i \in 1..Len(queue') : queue'[i] = queue[i + 1] /\ i + 1 \in 1..Len(queue)
  <2>1. Len(Tail(queue)) = Len(queue) - 1
    BY <1>1, QueuedExchange
  <2>2. \A i \in 1..(Len(queue) - 1) : Tail(queue)[i] = queue[i + 1]
    BY <1>1, QueuedExchange
  <2>3. \A i \in 1..(Len(queue) - 1) : i + 1 \in 1..Len(queue)
    BY <1>2
  <2>4. Len(queue) - 1 \in Nat
    BY <1>2
  <2> QED BY <1>1, <2>1, <2>2, <2>3, <2>4
<1>7. QueueBooks'
  <2>1. \A i, j \in 1..Len(queue') : queue'[i].exchange = queue'[j].exchange => i = j
    <3> TAKE i, j \in 1..Len(queue')
    <3>1. /\ i + 1 \in 1..Len(queue) /\ j + 1 \in 1..Len(queue)
          /\ queue'[i] = queue[i + 1] /\ queue'[j] = queue[j + 1]
      BY <1>6
    <3>2. queue[i + 1].exchange = queue[j + 1].exchange => i + 1 = j + 1
      BY <3>1 DEF RecordBooks, QueueBooks
    <3> QED BY <1>6, <3>1, <3>2
  <2>2. ASSUME NEW i \in 1..Len(queue'), NEW x \in Exchanges, queue'[i].exchange = x
        PROVE  handler[x] = "ended" /\ EventsOf(x)' = PerTask - queue'[i].left
    <3>1. i + 1 \in 1..Len(queue) /\ queue'[i] = queue[i + 1]
      BY <1>6
    <3>2. handler[x] = "ended" /\ EventsOf(x) = PerTask - queue[i + 1].left
      BY <2>2, <3>1 DEF RecordBooks, QueueBooks
    <3> QED BY <1>3, <3>1, <3>2
  <2>3. \A x \in Exchanges : handler[x] # "ended" => EventsOf(x)' = 0
    BY <1>3 DEF RecordBooks, QueueBooks
  <2> QED BY <1>1, <2>1, <2>2, <2>3 DEF QueueBooks
<1>8. Lost' \subseteq Lost \union {x0}
  <2> SUFFICES ASSUME NEW x \in Lost', x # x0 PROVE x \in Lost
    OBVIOUS
  <2>1. /\ x \in Exchanges \ gone /\ handler[x] = "ended" /\ EventsOf(x)' < PerTask
        /\ \A i \in 1..Len(queue') : queue'[i].exchange # x
    BY <1>1 DEF Lost, Queued
  <2>2. ASSUME NEW i \in 1..Len(queue) PROVE queue[i].exchange # x
    <3>1. CASE i = 1
      BY <1>2, <3>1
    <3>2. CASE i # 1
      <4>1. i - 1 \in 1..Len(queue') /\ (i - 1) + 1 = i
        BY <1>2, <1>6, <3>2
      <4>2. queue'[i - 1] = queue[i]
        BY <1>6, <4>1
      <4> QED BY <2>1, <4>1, <4>2
    <3> QED BY <3>1, <3>2
  <2> QED BY <1>3, <2>1, <2>2 DEF Lost, Queued
<1>9. Drained => Lost' \subseteq Lost
  <2>1. x0 \in gone => x0 \notin Lost'
    BY <1>1 DEF Lost
  <2> QED BY <1>5, <1>8, <2>1
<1>10. LostBooks'
  <2>1. faults \in Nat /\ IsFiniteSet(Lost) /\ Cardinality(Lost) <= faults
    BY DEF SessionTypeOK, RecordBooks, LostBooks
  <2>2. IsFiniteSet(Lost') /\ Cardinality(Lost') <= faults'
    <3>1. CASE faults' = faults + 1
      <4>1. /\ IsFiniteSet(Lost \union {x0}) /\ Cardinality(Lost) \in Nat
            /\ Cardinality(Lost \union {x0}) \in {Cardinality(Lost), Cardinality(Lost) + 1}
        BY <2>1, FS_AddElement, FS_CardinalityType
      <4>2. IsFiniteSet(Lost') /\ Cardinality(Lost') <= Cardinality(Lost \union {x0})
        BY <1>8, <4>1, FS_Subset
      <4>3. Cardinality(Lost') \in Nat
        BY <4>2, FS_CardinalityType
      <4> QED BY <2>1, <3>1, <4>1, <4>2, <4>3
    <3>2. CASE Refuses(x0) /\ faults' = faults
      <4>1. sealed
        BY <1>2, <3>2, NotABracket DEF Refuses
      <4>2. Lost' \subseteq Lost
        BY <1>9, <4>1 DEF Drained
      <4> QED BY <2>1, <3>2, <4>2, LostFewer
    <3> QED BY <1>1, <3>1, <3>2
  <2>3. Complete' => Lost' = {}
    BY <1>5, <1>9 DEF RecordBooks, LostBooks, Drained
  <2> QED BY <1>1, <2>2, <2>3 DEF LostBooks
<1>11. NothingBehind'
  BY <1>1, BehindSame DEF RecordBooks, NothingBehind
<1> QED BY <1>5, <1>7, <1>10, <1>11 DEF RecordBooks

(* The steps of the clients and their exchanges. *)

LEMMA ClientsKeepBooks ==
  ASSUME SessionTypeOK, RecordBooks, command = "record", NEW y \in Exchanges,
         Call(y) \/ Leave(y) \/ Ends(y)
  PROVE  RecordBooks'
<1>1. /\ command' = command /\ main' = main /\ at' = at /\ proxy' = proxy /\ errors' = errors
      /\ trace' = trace /\ sealed' = sealed /\ faults' = faults
  BY DEF Call, Leave, Ends, mainVars, queueVars, writerVars
<1>2. \A x : EventsOf(x)' = EventsOf(x)
  BY <1>1, EventsSame
<1>3. Has("run.end")' <=> Has("run.end")
  BY <1>1, HasSame
<1>4. (Complete' <=> Complete) /\ (Drained' <=> Drained)
  BY <1>1, <1>3 DEF Complete, Drained
<1>5. /\ Len(queue) \in Nat
      /\ \A i \in 1..Len(queue) : queue[i].exchange \in Exchanges /\ queue[i].left \in 1..PerTask
  BY QueueElements
<1>6. handler \in [Exchanges -> {"none", "open", "left", "ended"}] /\ gone \subseteq Exchanges
  BY DEF SessionTypeOK
<1>7. handler[y] # "ended" /\ EventsOf(y) = 0
      /\ \A i \in 1..Len(queue) : queue[i].exchange # y
  BY DEF Call, Leave, Ends, RecordBooks, QueueBooks
<1>8. CASE Call(y) \/ Leave(y)
  <2>1. /\ queue' = queue /\ gone \subseteq gone'
        /\ \A x \in Exchanges : x # y => handler'[x] = handler[x] /\ (x \in gone' <=> x \in gone)
        /\ \/ proxy = "listening" /\ handler'[y] = "open"
           \/ handler[y] = "open" /\ handler'[y] = "left" /\ y \in gone'
    BY <1>6, <1>8 DEF Call, Leave, queueVars
  <2>2. QueueBooks'
    BY <1>2, <1>5, <1>7, <2>1 DEF RecordBooks, QueueBooks
  <2>3. ClientBooks'
    BY <1>1, <2>1 DEF RecordBooks, ClientBooks
  <2>4. Lost' \subseteq Lost
    BY <1>2, <2>1 DEF Lost, Queued
  <2>5. QuietInTime'
    <3>1. ~ Quiet
      BY <2>1 DEF Quiet
    <3> QED BY <1>4, <3>1 DEF RecordBooks, QuietInTime
  <2>6. NothingBehind'
    BY <1>1, <2>1, BehindSame DEF RecordBooks, NothingBehind
  <2>7. LostBooks'
    BY <1>1, <1>4, <2>4, FewerLost DEF RecordBooks
  <2> QED BY <2>2, <2>3, <2>5, <2>6, <2>7 DEF RecordBooks
<1>9. CASE Ends(y)
  <2> DEFINE task == [exchange |-> y, left |-> PerTask]
  <2>1. /\ gone' = gone /\ handler[y] \in {"open", "left"} /\ handler'[y] = "ended"
        /\ \A x \in Exchanges : x # y => handler'[x] = handler[x]
        /\ queue' = Append(queue, task)
    BY <1>6, <1>9 DEF Ends, Push
  <2>2. /\ Len(queue') = Len(queue) + 1 /\ queue'[Len(queue) + 1] = task
        /\ \A i \in 1..Len(queue) : queue'[i] = queue[i]
    BY <2>1 DEF SessionTypeOK
  <2>3. task.exchange = y /\ task.left = PerTask
    OBVIOUS
  <2> HIDE DEF task
  <2>4. QueueBooks'
    <3>1. \A i, j \in 1..Len(queue') : queue'[i].exchange = queue'[j].exchange => i = j
      BY <1>5, <1>7, <2>2, <2>3 DEF RecordBooks, QueueBooks
    <3>2. ASSUME NEW i \in 1..Len(queue'), NEW x \in Exchanges, queue'[i].exchange = x
          PROVE  handler'[x] = "ended" /\ EventsOf(x)' = PerTask - queue'[i].left
      <4>1. CASE i \in 1..Len(queue)
        <5>1. queue'[i] = queue[i] /\ x # y
          BY <1>7, <2>2, <3>2, <4>1
        <5>2. handler[x] = "ended" /\ EventsOf(x) = PerTask - queue[i].left
          BY <3>2, <4>1, <5>1 DEF RecordBooks, QueueBooks
        <5> QED BY <1>2, <2>1, <5>1, <5>2
      <4>2. CASE i = Len(queue) + 1
        <5>1. x = y /\ queue'[i].left = PerTask
          BY <2>2, <2>3, <3>2, <4>2
        <5>2. EventsOf(x)' = 0 /\ PerTask \in Nat
          BY <1>2, <1>7, <5>1, SessionAssumption
        <5> QED BY <2>1, <5>1, <5>2
      <4> QED BY <1>5, <2>2, <4>1, <4>2
    <3>3. \A x \in Exchanges : handler'[x] # "ended" => EventsOf(x)' = 0
      BY <1>2, <2>1 DEF RecordBooks, QueueBooks
    <3> QED BY <3>1, <3>2, <3>3 DEF QueueBooks
  <2>5. ClientBooks'
    BY <1>1, <2>1 DEF RecordBooks, ClientBooks
  <2>6. Lost' \subseteq Lost
    <3> SUFFICES ASSUME NEW x \in Lost' PROVE x \in Lost
      OBVIOUS
    <3>1. /\ x \in Exchanges \ gone /\ handler'[x] = "ended" /\ EventsOf(x) < PerTask
          /\ \A i \in 1..Len(queue') : queue'[i].exchange # x
      BY <1>2, <2>1 DEF Lost, Queued
    <3>2. x # y
      BY <1>5, <2>2, <2>3, <3>1
    <3>3. \A i \in 1..Len(queue) : queue[i].exchange # x
      BY <1>5, <2>2, <3>1
    <3> QED BY <2>1, <3>1, <3>2, <3>3 DEF Lost, Queued
  <2>7. QuietInTime'
    <3>1. ASSUME Quiet PROVE Quiet'
      <4>1. y \in gone
        BY <2>1, <3>1 DEF Quiet, RecordBooks, ClientBooks
      <4>2. \A i \in 1..Len(queue') : queue'[i].exchange \in gone
        BY <1>5, <2>2, <2>3, <3>1, <4>1 DEF Quiet
      <4> QED BY <1>1, <2>1, <3>1, <4>2 DEF Quiet
    <3> QED BY <1>4, <3>1 DEF RecordBooks, QuietInTime
  <2>8. NothingBehind'
    BY <1>1, <2>1, BehindSame DEF RecordBooks, NothingBehind
  <2>9. LostBooks'
    BY <1>1, <1>4, <2>6, FewerLost DEF RecordBooks
  <2> QED BY <2>4, <2>5, <2>7, <2>8, <2>9 DEF RecordBooks
<1> QED BY <1>8, <1>9

LEMMA SessionStepBooks ==
  ASSUME SessionTypeOK, Progress, command = "record" => RecordBooks, [SessionNext]_sessionVars
  PROVE  command' = "record" => RecordBooks'
<1>1. command' = command
  BY DEF SessionNext, Command, Task, Writes, Listen, Run, Drain, CloseProxy, ProxyCloses, Dispose,
         Seal, TaskAppends, TaskFails, Call, Leave, Ends, sessionVars
<1> SUFFICES ASSUME command = "record" PROVE RecordBooks'
  BY <1>1
<1>2. CASE \E step \in {"run.start", "frames", "run.end"} : Writes(step)
  BY <1>2, WritesKeepBooks
<1>3. CASE Moves
  BY <1>3, MovesKeepBooks
<1>4. CASE Task
  BY <1>4, AppendsKeepBooks, FailuresKeepBooks DEF Task
<1>5. CASE \E x \in Exchanges : Call(x) \/ Leave(x) \/ Ends(x)
  BY <1>5, ClientsKeepBooks
<1>6. CASE UNCHANGED sessionVars
  <2>1. /\ handler' = handler /\ gone' = gone /\ queue' = queue /\ errors' = errors
        /\ trace' = trace /\ main' = main /\ at' = at /\ proxy' = proxy /\ sealed' = sealed
        /\ faults' = faults
    BY <1>6 DEF sessionVars, mainVars, proxyVars, queueVars, writerVars
  <2>2. /\ \A x \in Exchanges : EventsOf(x)' = EventsOf(x)
        /\ Behind("run.end")' \subseteq Behind("run.end")
        /\ Has("run.end")' <=> Has("run.end")
    BY <2>1, EventsSame, BehindSame, HasSame
  <2>3. (Complete' => Complete) /\ (Drained' => Drained)
    BY <2>1, <2>2 DEF Complete, Drained
  <2>4. /\ proxy' = "closed" => \A x \in Exchanges : handler[x] # "open"
        /\ Quiet => proxy' = "closed"
    BY <2>1 DEF RecordBooks, ClientBooks, Quiet
  <2> QED BY <2>1, <2>2, <2>3, <2>4, BooksStay
<1> QED BY <1>2, <1>3, <1>4, <1>5, <1>6 DEF SessionNext, Command, Moves

LEMMA SessionInitBooks ==
  ASSUME SessionInit, command = "record"
  PROVE  RecordBooks
<1>1. /\ Len(trace) = 0 /\ Len(queue) = 0 /\ faults = 0 /\ main = "working" /\ at = 1
      /\ proxy = "listening" /\ ~ sealed /\ \A x \in Exchanges : handler[x] = "none"
  BY DEF SessionInit
<1>2. \A x : EventsOf(x) = 0
  <2> TAKE x
  <2>1. {i \in 1..Len(trace) : trace[i] = x} = {}
    BY <1>1
  <2> QED BY <2>1, FS_EmptySet DEF EventsOf
<1>3. QueueBooks /\ ClientBooks
  BY <1>1, <1>2 DEF QueueBooks, ClientBooks
<1>4. Lost = {}
  BY <1>1 DEF Lost
<1>5. LostBooks
  BY <1>1, <1>4, FS_EmptySet DEF LostBooks
<1>6. QuietInTime
  BY <1>1 DEF QuietInTime, Drained, Complete, Has
<1>7. NothingBehind
  BY <1>1 DEF NothingBehind, Behind
<1> QED BY <1>3, <1>5, <1>6, <1>7 DEF RecordBooks

(***************************************************************************)
(* A recording is whole and closed by its bracket: however many exchanges  *)
(* end in whatever order, and whichever appends fail, as many exchanges    *)
(* are missing as appends failed, none when runRecording returns, and only *)
(* one whose client went away is written behind run.end.                   *)
(***************************************************************************)
THEOREM RecordingsAreFull == SessionSpec => []RecordedInFull
<1> DEFINE Inv == SessionTypeOK /\ Progress /\ (command = "record" => RecordBooks)
<1>1. SessionInit => Inv
  BY SessionInitType, SessionInitProgress, SessionInitBooks
<1>2. Inv /\ [SessionNext]_sessionVars => Inv'
  BY SessionStepType, SessionStepProgress, SessionStepBooks
<1>3. Inv => RecordedInFull
  BY DEF RecordedInFull, RecordBooks, LostBooks, NothingBehind, QuietInTime, Drained, Complete, Quiet
<1> QED BY <1>1, <1>2, <1>3, PTL DEF SessionSpec

-----------------------------------------------------------------------------
(* The retrieval index: lemmas about its operators. *)

\* A set of numbers that is finite and not empty has a least one.
LEMMA LeastExists ==
  ASSUME NEW S \in SUBSET Nat, IsFiniteSet(S), S # {}
  PROVE  \E r \in S : \A t \in S : r <= t
<1> DEFINE sooner(r) == {s \in S : s < r}
           T == {sooner(r) : r \in S}
<1>1. T \subseteq SUBSET S /\ T # {}
  OBVIOUS
<1>2. PICK r \in S : \A t \in S : <<sooner(t), sooner(r)>> \notin StrictSubsetOrdering(S)
  <2>1. PICK x \in T : \A y \in T : <<y, x>> \notin StrictSubsetOrdering(S)
    <3> HIDE DEF T
    <3>1. IsWellFoundedOn(StrictSubsetOrdering(S), SUBSET S)
      BY FS_StrictSubsetOrderingWellFounded, FS_FiniteSubsetsOfFinite
    <3> QED
      BY <1>1, <3>1, WFMin
  <2> QED
    BY <2>1
<1>3. \A t \in S : r <= t
  <2> SUFFICES ASSUME NEW t \in S, ~ (r <= t) PROVE FALSE
    OBVIOUS
  <2>0. t < r /\ ~ (t < t) /\ \A s \in S : s < t => s < r
    OBVIOUS
  <2>1. /\ sooner(t) \subseteq sooner(r) /\ t \in sooner(r) /\ t \notin sooner(t)
        /\ sooner(t) \in SUBSET S /\ sooner(r) \in SUBSET S
    BY ONLY <2>0, r \in S, t \in S
  <2>2. \A x, y \in SUBSET S : x \subseteq y /\ x # y => <<x, y>> \in StrictSubsetOrdering(S)
    BY DEF StrictSubsetOrdering
  <2>3. sooner(t) # sooner(r)
    BY <2>1
  <2>4. <<sooner(t), sooner(r)>> \notin StrictSubsetOrdering(S)
    BY <1>2
  <2> HIDE DEF sooner
  <2> QED
    BY <2>1, <2>2, <2>3, <2>4
<1> QED
  BY <1>3

LEMMA EarliestIsFirst ==
  ASSUME NEW n \in Nat, NEW S \in SUBSET (1..n), S # {}
  PROVE  Earliest(S) \in S /\ \A t \in S : Earliest(S) <= t
<1>1. S \in SUBSET Nat /\ IsFiniteSet(1..n)
  BY FS_Interval
<1>3. IsFiniteSet(S)
  BY <1>1, FS_Subset
<1>2. \E r \in S : \A t \in S : r <= t
  BY <1>1, <1>3, LeastExists
<1> QED
  BY <1>2 DEF Earliest

\* How often a text occurs among the first k of a sequence: it counts up one by one.
CountTo(seq, t, k) == Cardinality({j \in 1..k : seq[j] = t})

LEMMA CountToStep ==
  ASSUME NEW seq, NEW t, NEW k \in Nat
  PROVE  /\ CountTo(seq, t, k) \in Nat /\ CountTo(seq, t, 0) = 0
         /\ CountTo(seq, t, k + 1) =
              IF seq[k + 1] = t THEN CountTo(seq, t, k) + 1 ELSE CountTo(seq, t, k)
<1> DEFINE A(i) == {j \in 1..i : seq[j] = t}
<1>1. IsFiniteSet(1..k) /\ A(k) \in SUBSET (1..k)
  BY FS_Interval
<1>2. IsFiniteSet(A(k)) /\ Cardinality(A(k)) \in Nat
  BY <1>1, FS_Subset, FS_CardinalityType
<1>3. A(0) = {}
  OBVIOUS
<1>4. Cardinality(A(0)) = 0
  BY <1>3, FS_EmptySet
<1>5. k + 1 \notin A(k)
  OBVIOUS
<1>6. CASE seq[k + 1] = t
  <2>1. A(k + 1) = A(k) \union {k + 1}
    BY <1>6
  <2>2. Cardinality(A(k) \union {k + 1}) = Cardinality(A(k)) + 1
    BY <1>2, <1>5, FS_AddElement
  <2> HIDE DEF A
  <2>3. Cardinality(A(k + 1)) = Cardinality(A(k)) + 1
    BY <2>1, <2>2
  <2> QED
    BY <2>3, <1>2, <1>4, <1>6 DEF A, CountTo
<1>7. CASE seq[k + 1] # t
  <2>1. A(k + 1) = A(k)
    BY <1>7
  <2> QED
    BY <2>1, <1>2, <1>4, <1>7 DEF CountTo
<1> QED
  BY <1>6, <1>7

\* Every occurrence there is of a text can be found by its number.
LEMMA OccurrenceFound ==
  ASSUME NEW S, NEW seq \in Seq(S), NEW t, NEW m \in Nat \ {0}, m <= Copies(seq, t)
  PROVE  \E k \in DOMAIN seq : seq[k] = t /\ Occurrence(seq, k) = m
<1> DEFINE n == Len(seq)
           C(i) == CountTo(seq, t, i)
           reached == {i \in 0..n : m <= C(i)}
<1>1. n \in Nat /\ DOMAIN seq = 1..n
  BY LenProperties
<1>2. Copies(seq, t) = C(n)
  BY <1>1 DEF Copies, CountTo
<1>3. n \in reached
  BY <1>1, <1>2
<1>4. reached \in SUBSET Nat /\ IsFiniteSet(reached)
  <2>1. reached \in SUBSET (0..n)
    OBVIOUS
  <2>2. n \in Nat => IsFiniteSet(0..n) /\ (0..n) \in SUBSET Nat
    BY FS_Interval
  <2> HIDE DEF reached, n
  <2> QED
    BY <1>1, <2>1, <2>2, FS_Subset
<1>5. PICK k \in reached : \A i \in reached : k <= i
  <2> HIDE DEF reached
  <2> QED
    BY <1>3, <1>4, LeastExists
<1>6. k \in 0..n /\ m <= C(k) /\ \A i \in 0..n : m <= C(i) => k <= i
  BY <1>5
<1> HIDE DEF reached
<1>7. C(0) = 0 /\ \A i \in Nat : C(i) \in Nat
  BY CountToStep
<1>8. k # 0
  BY <1>6, <1>7
<1> DEFINE h == k - 1
<1>9. h \in Nat /\ h \in 0..n /\ k = h + 1 /\ k \in 1..n
  BY <1>1, <1>6, <1>8
<1>10. C(h + 1) = IF seq[h + 1] = t THEN C(h) + 1 ELSE C(h)
  BY <1>9, CountToStep
<1>11. ~ (m <= C(h))
  BY <1>6, <1>9
<1> HIDE DEF h
<1>12. seq[k] = t /\ C(k) = m
  <2>1. C(k) = IF seq[k] = t THEN C(h) + 1 ELSE C(h)
    BY <1>9, <1>10
  <2>2. C(h) \in Nat /\ m <= C(k)
    BY <1>6, <1>7, <1>9
  <2> HIDE DEF C
  <2> QED
    BY <2>1, <2>2, <1>11
<1>13. Occurrence(seq, k) = C(k)
  BY <1>12 DEF Occurrence, CountTo
<1> QED
  BY <1>1, <1>9, <1>12, <1>13

\* The occurrence of a text at i is the first or a later one, and not beyond the last.
LEMMA OccurrenceInRange ==
  ASSUME NEW S, NEW seq \in Seq(S), NEW i \in 1..Len(seq)
  PROVE  /\ Occurrence(seq, i) \in Nat \ {0}
         /\ Occurrence(seq, i) <= Copies(seq, seq[i])
<1> DEFINE A == {j \in 1..i : seq[j] = seq[i]}
           B == {j \in DOMAIN seq : seq[j] = seq[i]}
<1>1. Len(seq) \in Nat /\ DOMAIN seq = 1..Len(seq)
  BY LenProperties
<1>2. IsFiniteSet(B)
  <2>1. B \in SUBSET (1..Len(seq)) /\ IsFiniteSet(1..Len(seq))
    BY <1>1, FS_Interval
  <2> HIDE DEF B
  <2> QED
    BY <2>1, FS_Subset
<1>3. A \in SUBSET B /\ i \in A
  BY <1>1
<1> HIDE DEF A, B
<1>4. IsFiniteSet(A) /\ Cardinality(A) <= Cardinality(B) /\ Cardinality(A) \in Nat
  BY <1>2, <1>3, FS_Subset, FS_CardinalityType
<1>5. Cardinality(A) # 0
  BY <1>3, <1>4, FS_EmptySet
<1> QED
  BY <1>4, <1>5 DEF A, B, Occurrence, Copies

-----------------------------------------------------------------------------
(* What a recorded list of vectors is, and what is rebuilt from one. *)

\* An order of n positions names each of them.
LEMMA OrderNamesAll ==
  ASSUME NEW n \in Nat, NEW f \in Orders(n)
  PROVE  f \in [1..n -> 1..n] /\ f \in Bijection(1..n, 1..n)
<1>1. f \in [1..n -> 1..n] /\ f \in Injection(1..n, 1..n)
  BY DEF Orders, Injection
<1>2. IsFiniteSet(1..n)
  BY FS_Interval
<1>3. f \in Surjection(1..n, 1..n)
  BY <1>1, <1>2, FS_Injection
<1> QED
  BY <1>1, <1>3 DEF Bijection

LEMMA RequestShape ==
  ASSUME RetrievalAssumption, NEW r \in Requests
  PROVE  r.input \in Seq(Texts) /\ Len(r.input) \in Nat /\ DOMAIN r.input = 1..Len(r.input)
<1>1. r.input \in Seq(Texts)
  BY DEF RetrievalAssumption
<1> QED
  BY <1>1, LenProperties

LEMMA GoodBody ==
  ASSUME RetrievalAssumption, NEW r \in Requests, NEW data \in GoodBodies(r)
  PROVE  /\ data \in Seq(Items) /\ Len(data) = Len(r.input)
         /\ \E order \in Orders(Len(r.input)) :
              \A k \in 1..Len(r.input) :
                data[k] = [index |-> order[k], vector |-> r.input[order[k]]]
<1> DEFINE n == Len(r.input)
<1>1. r.input \in Seq(Texts) /\ n \in Nat /\ DOMAIN r.input = 1..n
  BY RequestShape
<1>2. PICK order \in Orders(n) :
        data = [k \in 1..n |-> [index |-> order[k], vector |-> r.input[order[k]]]]
  BY DEF GoodBodies
<1>3. order \in [1..n -> 1..n]
  BY <1>1, OrderNamesAll
<1>4. \A i \in 1..n : r.input[i] \in Texts
  BY <1>1, ElementOfSeq
<1>5. \A k \in 1..n : [index |-> order[k], vector |-> r.input[order[k]]] \in Items
  BY <1>1, <1>3, <1>4 DEF Items
<1>6. data \in [1..n -> Items]
  BY <1>2, <1>5
<1> HIDE DEF n
<1>7. data \in Seq(Items) /\ Len(data) = n
  BY <1>1, <1>6
<1>8. \A k \in 1..n : data[k] = [index |-> order[k], vector |-> r.input[order[k]]]
  BY <1>2
<1> QED
  BY <1>7, <1>8 DEF n

\* A list of vectors given byte for byte has one for each text, under its index.
LEMMA GivenVectors ==
  ASSUME RetrievalAssumption, NEW r \in Requests, NEW data \in GoodBodies(r)
  PROVE  /\ Len(data) = Len(r.input)
         /\ \A i \in 1..Len(r.input) :
              \E k \in 1..Len(data) : data[k] = [index |-> i, vector |-> r.input[i]]
<1> DEFINE n == Len(r.input)
<1>1. n \in Nat
  BY RequestShape
<1>2. Len(data) = n
  BY GoodBody
<1>3. PICK order \in Orders(n) :
        \A k \in 1..n : data[k] = [index |-> order[k], vector |-> r.input[order[k]]]
  BY GoodBody
<1> HIDE DEF n
<1>4. \A i \in 1..n : \E k \in 1..n : order[k] = i
  BY <1>1, OrderNamesAll DEF Bijection, Surjection
<1>5. \A i \in 1..n : \E k \in 1..n : data[k] = [index |-> i, vector |-> r.input[i]]
  BY <1>3, <1>4
<1> QED
  BY <1>2, <1>5 DEF n

\* The texts a list of vectors answers are those of its request, each as often.
LEMMA TextsAnswered ==
  ASSUME RetrievalAssumption, NEW r \in Requests, NEW data \in GoodBodies(r), NEW t
  PROVE  /\ TextsOf(r.input, data) \in Seq(Texts)
         /\ DOMAIN TextsOf(r.input, data) = DOMAIN data
         /\ \A k \in DOMAIN data :
              TextsOf(r.input, data)[k] = data[k].vector
         /\ Copies(TextsOf(r.input, data), t) = Copies(r.input, t)
<1> DEFINE n == Len(r.input)
           inp == r.input
           texts == TextsOf(inp, data)
<1>1. inp \in Seq(Texts) /\ n \in Nat /\ DOMAIN inp = 1..n
  BY RequestShape
<1>2. data \in Seq(Items) /\ Len(data) = n /\ DOMAIN data = 1..n
  BY GoodBody
<1>3. PICK order \in Orders(n) :
        \A k \in 1..n : data[k] = [index |-> order[k], vector |-> inp[order[k]]]
  BY GoodBody
<1>4. order \in [1..n -> 1..n] /\ order \in Bijection(1..n, 1..n)
  BY <1>1, OrderNamesAll
<1>14. ASSUME NEW k \in 1..n
       PROVE  data[k].index = order[k] /\ data[k].vector = inp[order[k]]
  <2> HIDE DEF n, inp, texts
  <2>1. data[k] = [index |-> order[k], vector |-> inp[order[k]]]
    BY <1>3
  <2> QED
    BY ONLY <2>1
<1>5. texts = [k \in 1..n |-> inp[order[k]]]
  <2>1. texts = [k \in 1..n |-> inp[data[k].index]]
    BY <1>2 DEF TextsOf
  <2>2. \A k \in 1..n : data[k].index = order[k]
    BY <1>14
  <2> HIDE DEF n, inp, texts
  <2> QED
    BY <2>1, <2>2, Zenon
<1>6. \A k \in 1..n : data[k].vector = inp[order[k]] /\ texts[k] = inp[order[k]]
  <2> HIDE DEF n, inp, texts
  <2> QED
    BY <1>14, <1>5
<1>7. texts \in [1..n -> Texts]
  <2>1. \A i \in 1..n : inp[i] \in Texts
    BY <1>1, ElementOfSeq
  <2>2. \A k \in 1..n : order[k] \in 1..n
    BY <1>4
  <2> HIDE DEF n, inp, texts
  <2> QED
    BY <2>1, <2>2, <1>5
<1> HIDE DEF n, inp, texts
<1>8. texts \in Seq(Texts) /\ DOMAIN texts = 1..n
  BY <1>1, <1>7
<1> DEFINE A == {k \in 1..n : texts[k] = t}
           B == {i \in 1..n : inp[i] = t}
           g == [k \in A |-> order[k]]
<1>9. Copies(texts, t) = Cardinality(A) /\ Copies(inp, t) = Cardinality(B)
  BY <1>1, <1>8 DEF Copies
<1>10. IsFiniteSet(A)
  <2>1. A \in SUBSET (1..n) /\ IsFiniteSet(1..n)
    BY <1>1, FS_Interval
  <2> HIDE DEF A
  <2> QED
    BY <2>1, FS_Subset
<1>11. g \in Bijection(A, B)
  <2>1. \A x, y \in 1..n : order[x] = order[y] => x = y
    BY <1>4 DEF Bijection, Injection, IsInjective
  <2>2. \A i \in 1..n : \E k \in 1..n : order[k] = i
    BY <1>4 DEF Bijection, Surjection
  <2>3. g \in [A -> B]
    BY <1>4, <1>6
  <2>4. \A x, y \in A : g[x] = g[y] => x = y
    BY <2>1
  <2>5. \A i \in B : \E k \in A : g[k] = i
    BY <2>2, <1>6
  <2> HIDE DEF g, A, B
  <2>6. g \in Injection(A, B)
    BY <2>3, <2>4 DEF Injection, IsInjective
  <2> QED
    BY <2>3, <2>5, <2>6 DEF Bijection, Surjection
<1>12. Cardinality(B) = Cardinality(A)
  <2> HIDE DEF g, A, B
  <2>1. ExistsBijection(A, B)
    BY <1>11 DEF ExistsBijection
  <2> QED
    BY <2>1, <1>10, FS_Bijection
<1>13. Copies(texts, t) = Copies(inp, t)
  BY <1>9, <1>12
<1> QED
  BY <1>2, <1>6, <1>8, <1>13 DEF n, inp, texts

\* A batch rebuilt from a recorded one of the same texts has, at each position, the
\* vector of the text asked for there.
LEMMA RebuiltVectors ==
  ASSUME RetrievalAssumption, NEW r \in Requests, NEW s \in Requests, SameBatch(r, s),
         NEW data \in GoodBodies(r)
  PROVE  /\ Reorder(r.input, data, s.input) \in Seq(Items)
         /\ Len(Reorder(r.input, data, s.input)) = Len(s.input)
         /\ \A i \in 1..Len(s.input) :
              Reorder(r.input, data, s.input)[i] = [index |-> i, vector |-> s.input[i]]
<1> DEFINE inp == r.input
           live == s.input
           n == Len(live)
           texts == TextsOf(inp, data)
           out == Reorder(inp, data, live)
<1>1. live \in Seq(Texts) /\ n \in Nat /\ DOMAIN live = 1..n
  BY RequestShape
<1>2. data \in Seq(Items) /\ DOMAIN data = 1..Len(data)
  BY GoodBody
<1>3. \A i \in 1..n : live[i] \in Texts
  BY <1>1, ElementOfSeq
<1>4. \A t \in Texts : Copies(live, t) = Copies(inp, t)
  <2>1. BatchKey(r) = BatchKey(s)
    BY DEF SameBatch
  <2> QED
    BY <2>1 DEF BatchKey
<1>5. /\ texts \in Seq(Texts) /\ DOMAIN texts = DOMAIN data
      /\ \A k \in DOMAIN data : texts[k] = data[k].vector
      /\ \A t : Copies(texts, t) = Copies(inp, t)
  BY TextsAnswered
<1>6. \A k \in DOMAIN data : data[k] \in Items
  BY <1>2, ElementOfSeq
<1>7. ASSUME NEW i \in 1..n
      PROVE  [ItemFor(inp, data, live, i) EXCEPT !.index = i] = [index |-> i, vector |-> live[i]]
  <2> DEFINE found(k) == texts[k] = live[i] /\ Occurrence(texts, k) = Occurrence(live, i)
             item == CHOOSE k \in DOMAIN data : found(k)
  <2>1. /\ Occurrence(live, i) \in Nat \ {0}
        /\ Occurrence(live, i) <= Copies(live, live[i])
    BY <1>1, OccurrenceInRange
  <2>2. Copies(live, live[i]) = Copies(texts, live[i])
    BY <1>3, <1>4, <1>5
  <2>3. \E k \in DOMAIN texts : texts[k] = live[i] /\ Occurrence(texts, k) = Occurrence(live, i)
    <3> HIDE DEF texts, live, found, item, n
    <3> QED
      BY <2>1, <2>2, <1>5, OccurrenceFound
  <2>4. item \in DOMAIN data /\ found(item)
    BY <2>3, <1>5
  <2>5. ItemFor(inp, data, live, i) = data[item]
    BY DEF ItemFor
  <2> HIDE DEF item
  <2>6. data[item] \in Items /\ data[item].vector = live[i]
    BY <2>4, <1>5, <1>6
  <2>7. [data[item] EXCEPT !.index = i] = [index |-> i, vector |-> live[i]]
    <3> DEFINE it == data[item]
    <3>1. it \in [index : Nat, vector : Texts] /\ it.vector = live[i]
      BY <2>6 DEF Items
    <3> HIDE DEF it
    <3>2. [it EXCEPT !.index = i] = [index |-> i, vector |-> it.vector]
      BY <3>1
    <3> QED
      BY <3>1, <3>2 DEF it
  <2> QED
    BY <2>5, <2>7
<1>8. out = [i \in 1..n |-> [index |-> i, vector |-> live[i]]]
  BY <1>1, <1>7 DEF Reorder
<1>9. out \in [1..n -> Items]
  BY <1>1, <1>3, <1>8 DEF Items
<1> HIDE DEF out, n
<1>10. out \in Seq(Items) /\ Len(out) = n
  BY <1>1, <1>9
<1>11. \A i \in 1..n : out[i] = [index |-> i, vector |-> live[i]]
  BY <1>8
<1> QED
  BY <1>10, <1>11 DEF out, n
-----------------------------------------------------------------------------
(* The retrieval index: its inductive invariant. *)

\* The queues hold the positions that have not answered yet, each once.
QueuesAreUnused ==
  /\ \A p \in Positions : used[p] <= 1
  /\ byKey = {p \in Positions : Unused(p)}
  /\ byBatch = {p \in byKey : HasBatchKey(recorded[p].request)}

\* Of two recorded calls that ask the same, the earlier answers first.
EarlierFirst ==
  \A p, q \in Positions :
    p < q /\ recorded[p].request = recorded[q].request => used[q] <= used[p]

\* A body that is a list of vectors has an item for each text of its request.
GoodOnly(log) ==
  \A p \in DOMAIN log :
    log[p].kind = "good" => log[p].data \in GoodBodies(log[p].request)

\* What a recording has counted, and what it has not done yet.
RecordingBooks ==
  /\ IsFiniteSet(pending) /\ \A c \in pending : c.call < calls
  /\ config.mode = "record" =>
       /\ recorded = << >> /\ answer.how = "none"
       /\ retrievalServed = 0 /\ retrievalLive = 0 /\ unmatched = 0

RetrievalBooks ==
  /\ RetrievalTypeOK
  /\ QueuesAreUnused /\ EarlierFirst
  /\ GoodOnly(recorded) /\ GoodOnly(captured)
  /\ RecordingBooks
  /\ VectorsAreRight /\ NoMatchIsTrue /\ EveryCallCounted

\* What an answer and its counters are about stays as it is.
SameIndex == UNCHANGED <<recorded, byKey, byBatch, used, retrievalServed, retrievalReordered>>

LEMMA RetrievalTypes ==
  ASSUME RetrievalTypeOK
  PROVE  /\ config \in Configs
         /\ recorded \in Seq(Bodies) /\ captured \in Seq(Bodies)
         /\ Len(recorded) \in Nat /\ Positions = 1..Len(recorded)
         /\ \A p \in Positions :
              /\ recorded[p].request \in Requests /\ recorded[p].kind \in Kinds
              /\ recorded[p].data \in Seq(Items)
         /\ byKey \subseteq Positions /\ byBatch \subseteq Positions
         /\ used \in [Positions -> Nat]
         /\ pending \subseteq [call : Nat, request : Requests]
         /\ answer.request \in Requests /\ answer.data \in Seq(Items)
         /\ retrievalTotal \in Nat /\ retrievalServed \in Nat /\ retrievalReordered \in Nat
         /\ retrievalLive \in Nat /\ unmatched \in Nat /\ calls \in Nat
<1>1. recorded \in Seq(Bodies)
  BY DEF RetrievalTypeOK
<1>2. Len(recorded) \in Nat /\ Positions = 1..Len(recorded)
  BY <1>1, LenProperties DEF Positions
<1>3. \A p \in Positions : recorded[p] \in Bodies
  BY <1>1, <1>2, ElementOfSeq
<1>4. \A p \in Positions :
        /\ recorded[p].request \in Requests /\ recorded[p].kind \in Kinds
        /\ recorded[p].data \in Seq(Items)
  BY <1>3 DEF Bodies
<1>5. <<retrievalTotal, retrievalServed, retrievalReordered, retrievalLive, unmatched,
        calls>> \in Nat \X Nat \X Nat \X Nat \X Nat \X Nat
  BY DEF RetrievalTypeOK
<1>6. /\ retrievalTotal \in Nat /\ retrievalServed \in Nat /\ retrievalReordered \in Nat
      /\ retrievalLive \in Nat /\ unmatched \in Nat /\ calls \in Nat
  BY <1>5
<1> QED
  BY <1>1, <1>2, <1>4, <1>6 DEF RetrievalTypeOK

\* The heads of the two queues of a request.
LEMMA HeadOfKey ==
  ASSUME RetrievalTypeOK, NEW request, ByKey(request) # {}
  PROVE  /\ KeyHead(request) \in byKey
         /\ recorded[KeyHead(request)].request = request
         /\ \A q \in byKey : recorded[q].request = request => KeyHead(request) <= q
<1> DEFINE S == ByKey(request)
<1>1. Len(recorded) \in Nat /\ S \in SUBSET (1..Len(recorded))
  BY RetrievalTypes DEF ByKey
<1>2. Earliest(S) \in S /\ \A q \in S : Earliest(S) <= q
  <2> HIDE DEF S
  <2> QED
    BY <1>1, EarliestIsFirst DEF S
<1> QED
  BY <1>2 DEF KeyHead, ByKey

LEMMA HeadOfBatch ==
  ASSUME RetrievalTypeOK, NEW request, ByBatch(request) # {}
  PROVE  /\ BatchHead(request) \in byBatch
         /\ SameBatch(recorded[BatchHead(request)].request, request)
         /\ \A q \in byBatch :
              SameBatch(recorded[q].request, request) => BatchHead(request) <= q
<1> DEFINE S == ByBatch(request)
<1>1. Len(recorded) \in Nat /\ S \in SUBSET (1..Len(recorded))
  BY RetrievalTypes DEF ByBatch
<1>2. Earliest(S) \in S /\ \A q \in S : Earliest(S) <= q
  <2> HIDE DEF S
  <2> QED
    BY <1>1, EarliestIsFirst DEF S
<1> QED
  BY <1>2 DEF BatchHead, ByBatch

\* The calls that have answered, and the number there are of them.
Answered == {p \in Positions : ~ Unused(p)}

\* A call that is consumed, after those before it that asked the same, is in neither
\* queue any more and one more has answered.
LEMMA ConsumeKeeps ==
  ASSUME RetrievalTypeOK, QueuesAreUnused, EarlierFirst,
         NEW p \in byKey, Consume(p), recorded' = recorded,
         \A q \in byKey : recorded[q].request = recorded[p].request => p <= q
  PROVE  /\ QueuesAreUnused' /\ EarlierFirst'
         /\ byKey' \subseteq Positions' /\ byBatch' \subseteq Positions'
         /\ used' \in [Positions' -> Nat]
         /\ IsFiniteSet(Answered)
         /\ Cardinality(Answered') = Cardinality(Answered) + 1
<1>1. /\ Positions' = Positions /\ used \in [Positions -> Nat]
      /\ Len(recorded) \in Nat /\ Positions = 1..Len(recorded)
      /\ byKey \subseteq Positions /\ p \in Positions
  BY RetrievalTypes DEF Positions
<1>2. /\ \A q \in Positions : used[q] <= 1
      /\ \A q \in Positions : q \in byKey <=> used[q] = 0
  BY DEF QueuesAreUnused, Unused
<1>3. used[p] = 0
  BY <1>1, <1>2
<1>4. used' \in [Positions -> Nat] /\ used'[p] = 1 /\ \A q \in Positions : q # p => used'[q] = used[q]
  BY <1>1, <1>3 DEF Consume
<1>5. byKey' = byKey \ {p} /\ byBatch' = byBatch \ {p}
  BY DEF Consume
<1>6. QueuesAreUnused'
  <2>1. \A q \in Positions : used'[q] <= 1
    BY <1>2, <1>4
  <2>2. \A q \in Positions : q \in byKey' <=> used'[q] = 0
    BY <1>2, <1>4, <1>5
  <2>3. byKey' = {q \in Positions : used'[q] = 0}
    BY <2>2, <1>1, <1>5
  <2>4. byBatch = {q \in byKey : HasBatchKey(recorded[q].request)}
    BY DEF QueuesAreUnused
  <2>5. byBatch' = {q \in byKey' : HasBatchKey(recorded[q].request)}
    BY <2>4, <1>5
  <2> QED
    BY <2>1, <2>3, <2>5, <1>1 DEF QueuesAreUnused, Unused, HasBatchKey
<1>7. EarlierFirst'
  <2> SUFFICES ASSUME NEW q \in Positions, NEW r \in Positions, q < r,
                      recorded[q].request = recorded[r].request
               PROVE  used'[r] <= used'[q]
    BY <1>1 DEF EarlierFirst
  <2>1. used[r] <= used[q]
    BY DEF EarlierFirst
  <2>2. used[r] \in Nat /\ used[q] \in Nat /\ used[q] <= 1 /\ used[r] <= 1
    BY <1>1, <1>2
  <2>3. CASE r = p
    <3>1. q \notin byKey
      BY <2>3, <1>1
    <3> QED
      BY <3>1, <2>2, <2>3, <1>1, <1>2, <1>4
  <2>4. CASE q = p
    BY <2>2, <2>4, <1>4
  <2>5. CASE q # p /\ r # p
    BY <2>1, <2>5, <1>4
  <2> QED
    BY <2>3, <2>4, <2>5
<1>8. IsFiniteSet(Answered)
  <2>1. Answered \in SUBSET (1..Len(recorded)) /\ IsFiniteSet(1..Len(recorded))
    BY <1>1, FS_Interval DEF Answered
  <2> QED
    BY <2>1, FS_Subset
<1>9. Answered' = Answered \union {p} /\ p \notin Answered
  BY <1>1, <1>3, <1>4 DEF Answered, Unused
<1>10. Cardinality(Answered') = Cardinality(Answered) + 1
  BY <1>8, <1>9, FS_AddElement
<1>11. byKey' \subseteq Positions /\ byBatch' \subseteq Positions
  BY <1>1, <1>5, RetrievalTypes
<1> QED
  BY <1>1, <1>4, <1>6, <1>7, <1>8, <1>10, <1>11

\* A call of the trace is found in a replay only.
LEMMA FoundInReplay ==
  ASSUME RetrievalBooks, NEW p \in byKey
  PROVE  config.mode # "record"
<1>1. p \in DOMAIN recorded
  BY RetrievalTypes DEF RetrievalBooks, Positions
<1>2. recorded # << >>
  BY <1>1
<1> QED
  BY <1>2 DEF RetrievalBooks, RecordingBooks

LEMMA ServedKeeps ==
  ASSUME RetrievalAssumption, RetrievalBooks,
         NEW p \in byKey, Consume(p), NEW request \in Requests, NEW how, NEW data \in Seq(Items),
         \A q \in byKey : recorded[q].request = recorded[p].request => p <= q,
         Give(how, request, data), how # "no match",
         how \in {"good", "rebuilt"} =>
            /\ Len(data) = Len(request.input)
            /\ \A i \in 1..Len(request.input) :
                 \E k \in 1..Len(data) : data[k] = [index |-> i, vector |-> request.input[i]],
         retrievalServed' = retrievalServed + 1,
         retrievalReordered' \in Nat, calls' = calls + 1,
         UNCHANGED <<liveVars, unmatched, config, recorded, captured>>
  PROVE  RetrievalBooks'
<1>0. RetrievalTypeOK /\ QueuesAreUnused /\ EarlierFirst /\ RecordingBooks
  BY DEF RetrievalBooks
<1>1. /\ QueuesAreUnused' /\ EarlierFirst'
      /\ byKey' \subseteq Positions' /\ byBatch' \subseteq Positions'
      /\ used' \in [Positions' -> Nat]
      /\ Cardinality(Answered') = Cardinality(Answered) + 1
  BY <1>0, ConsumeKeeps
<1>2. config.mode # "record"
  BY FoundInReplay
<1>3. /\ config' = config /\ recorded' = recorded /\ captured' = captured
      /\ pending' = pending /\ retrievalTotal' = retrievalTotal
      /\ retrievalLive' = retrievalLive /\ unmatched' = unmatched
  BY DEF liveVars
<1>4. answer'.how = how /\ answer'.request = request /\ answer'.data = data
  BY DEF Give
<1>5. /\ retrievalTotal \in Nat /\ retrievalServed \in Nat /\ calls \in Nat
      /\ retrievalLive \in Nat /\ unmatched \in Nat
  BY <1>0, RetrievalTypes
<1>6. RetrievalTypeOK'
  <2>3. /\ retrievalTotal' \in Nat /\ retrievalServed' \in Nat /\ retrievalReordered' \in Nat
        /\ retrievalLive' \in Nat /\ unmatched' \in Nat /\ calls' \in Nat
    BY ONLY <1>3, <1>5, retrievalReordered' \in Nat, calls' = calls + 1,
            retrievalServed' = retrievalServed + 1
  <2>1. <<retrievalTotal', retrievalServed', retrievalReordered', retrievalLive', unmatched',
          calls'>> \in Nat \X Nat \X Nat \X Nat \X Nat \X Nat
    BY ONLY <2>3
  <2>2. answer'.request \in Requests /\ answer'.data \in Seq(Items)
    BY <1>4
  <2> QED
    BY <2>1, <2>2, <1>0, <1>1, <1>3 DEF RetrievalTypeOK, Bodies, Items
<1>7. GoodOnly(recorded)' /\ GoodOnly(captured)'
  BY <1>3 DEF RetrievalBooks, GoodOnly
<1>8. RecordingBooks'
  <2>1. IsFiniteSet(pending) /\ \A c \in pending : c.call < calls
    BY <1>0 DEF RecordingBooks
  <2>2. \A c \in pending : c.call < calls + 1
    <3>1. \A c \in pending : c.call \in Nat
      BY <1>0, RetrievalTypes
    <3> QED
      BY ONLY <3>1, <2>1, <1>5
  <2> QED
    BY <2>1, <2>2, <1>2, <1>3 DEF RecordingBooks
<1>9. VectorsAreRight'
  BY <1>4 DEF VectorsAreRight
<1>10. NoMatchIsTrue'
  BY <1>4 DEF NoMatchIsTrue
<1>11. EveryCallCounted'
  <2>1. retrievalServed = Cardinality(Answered)
    BY DEF RetrievalBooks, EveryCallCounted, Answered
  <2>2. retrievalServed' = Cardinality(Answered')
    BY <2>1, <1>1
  <2>4. config.mode = "replay" => calls = retrievalServed + retrievalLive + unmatched
    BY DEF RetrievalBooks, EveryCallCounted
  <2>3. config.mode = "replay" => calls' = retrievalServed' + retrievalLive' + unmatched'
    BY ONLY <2>4, <1>3, <1>5, calls' = calls + 1, retrievalServed' = retrievalServed + 1
  <2> QED
    BY <2>2, <2>3, <1>2, <1>3 DEF EveryCallCounted, Answered
<1> QED
  BY <1>1, <1>6, <1>7, <1>8, <1>9, <1>10, <1>11 DEF RetrievalBooks

LEMMA ServeExactKeeps ==
  ASSUME RetrievalAssumption, RetrievalBooks, NEW request \in Requests, ServeExact(request),
         calls' = calls + 1, UNCHANGED <<config, recorded, captured>>
  PROVE  RetrievalBooks'
<1> DEFINE p == KeyHead(request)
<1>1. ByKey(request) # {} /\ RetrievalTypeOK
  BY DEF ServeExact, RetrievalBooks
<1>2. /\ p \in byKey /\ recorded[p].request = request
      /\ \A q \in byKey : recorded[q].request = recorded[p].request => p <= q
  BY <1>1, HeadOfKey
<1>3. /\ Consume(p) /\ Give(recorded[p].kind, request, recorded[p].data)
      /\ retrievalServed' = retrievalServed + 1
      /\ UNCHANGED <<retrievalReordered, liveVars, unmatched>>
  BY DEF ServeExact
<1> HIDE DEF p
<1>4. p \in Positions /\ recorded[p].kind \in Kinds /\ recorded[p].data \in Seq(Items)
  BY <1>1, <1>2, RetrievalTypes
<1>5. recorded[p].kind # "no match" /\ recorded[p].kind # "rebuilt"
  BY <1>4 DEF Kinds
<1>6. recorded[p].kind = "good" => recorded[p].data \in GoodBodies(request)
  BY <1>2, <1>4 DEF RetrievalBooks, GoodOnly, Positions
<1>7. recorded[p].kind \in {"good", "rebuilt"} =>
        /\ Len(recorded[p].data) = Len(request.input)
        /\ \A i \in 1..Len(request.input) :
             \E k \in 1..Len(recorded[p].data) :
               recorded[p].data[k] = [index |-> i, vector |-> request.input[i]]
  BY <1>5, <1>6, GivenVectors
<1>8. retrievalReordered' \in Nat
  BY <1>1, <1>3, RetrievalTypes
<1> QED
  BY <1>2, <1>3, <1>4, <1>5, <1>7, <1>8, ServedKeeps

LEMMA ServeRebuiltKeeps ==
  ASSUME RetrievalAssumption, RetrievalBooks, NEW request \in Requests, ServeRebuilt(request),
         calls' = calls + 1, UNCHANGED <<config, recorded, captured>>
  PROVE  RetrievalBooks'
<1> DEFINE p == BatchHead(request)
           data == Reorder(recorded[p].request.input, recorded[p].data, request.input)
<1>1. ByBatch(request) # {} /\ RetrievalTypeOK /\ QueuesAreUnused
  BY DEF ServeRebuilt, UsesBatch, RetrievalBooks
<1>2. /\ p \in byBatch /\ SameBatch(recorded[p].request, request)
      /\ \A q \in byBatch : SameBatch(recorded[q].request, request) => p <= q
  BY <1>1, HeadOfBatch
<1>3. /\ Consume(p) /\ Give("rebuilt", request, data) /\ recorded[p].kind = "good"
      /\ retrievalServed' = retrievalServed + 1
      /\ retrievalReordered' = retrievalReordered + 1
      /\ UNCHANGED <<liveVars, unmatched>>
  BY DEF ServeRebuilt
<1> HIDE DEF p
<1>4. p \in Positions /\ recorded[p].request \in Requests
  BY <1>1, <1>2, RetrievalTypes
<1>5. recorded[p].data \in GoodBodies(recorded[p].request)
  BY <1>3, <1>4 DEF RetrievalBooks, GoodOnly, Positions
<1>6. /\ data \in Seq(Items) /\ Len(data) = Len(request.input)
      /\ \A i \in 1..Len(request.input) : data[i] = [index |-> i, vector |-> request.input[i]]
  BY <1>2, <1>4, <1>5, RebuiltVectors
<1>7. byBatch = {q \in byKey : HasBatchKey(recorded[q].request)}
  BY <1>1 DEF QueuesAreUnused
<1>8. p \in byKey /\ \A q \in byKey : recorded[q].request = recorded[p].request => p <= q
  <2> SUFFICES ASSUME NEW q \in byKey, recorded[q].request = recorded[p].request
               PROVE  p <= q
    BY <1>2, <1>7
  <2>1. HasBatchKey(recorded[p].request)
    BY <1>2, <1>7
  <2>2. q \in byBatch
    BY <2>1, <1>7
  <2> QED
    BY <2>2, <1>2
<1>9. retrievalReordered' \in Nat
  <2>1. retrievalReordered \in Nat
    BY <1>1, RetrievalTypes
  <2>2. retrievalReordered' = retrievalReordered + 1
    BY <1>3
  <2> QED
    BY ONLY <2>1, <2>2
<1>10. \A i \in 1..Len(request.input) :
         \E k \in 1..Len(data) : data[k] = [index |-> i, vector |-> request.input[i]]
  BY <1>6
<1> HIDE DEF data
<1> QED
  BY <1>3, <1>6, <1>8, <1>9, <1>10, ServedKeeps

\* What was left of the index is what it was.
LEMMA IndexStill ==
  ASSUME RetrievalBooks, SameIndex
  PROVE  /\ QueuesAreUnused' /\ EarlierFirst' /\ GoodOnly(recorded)'
         /\ recorded' = recorded /\ used' = used
         /\ retrievalServed' = Cardinality({p \in Positions' : ~ Unused(p)'})
         /\ recorded' \in Seq(Bodies) /\ byKey' \subseteq Positions' /\ byBatch' \subseteq Positions'
         /\ used' \in [Positions' -> Nat]
<1>1. /\ recorded' = recorded /\ used' = used /\ byKey' = byKey /\ byBatch' = byBatch
      /\ retrievalServed' = retrievalServed
  BY DEF SameIndex
<1>2. QueuesAreUnused' /\ EarlierFirst'
  BY <1>1 DEF RetrievalBooks, QueuesAreUnused, EarlierFirst, Positions, Unused
<1>3. GoodOnly(recorded)'
  BY <1>1 DEF RetrievalBooks, GoodOnly
<1>4. retrievalServed' = Cardinality({p \in Positions' : ~ Unused(p)'})
  <2>1. {p \in Positions' : ~ Unused(p)'} = {p \in Positions : ~ Unused(p)}
    BY <1>1 DEF Positions, Unused
  <2> QED
    BY <2>1, <1>1 DEF RetrievalBooks, EveryCallCounted
<1>5. /\ recorded' \in Seq(Bodies) /\ byKey' \subseteq Positions' /\ byBatch' \subseteq Positions'
      /\ used' \in [Positions' -> Nat]
  BY <1>1 DEF RetrievalBooks, RetrievalTypeOK, Positions
<1> QED
  BY <1>1, <1>2, <1>3, <1>4, <1>5

LEMMA SixCounters ==
  ASSUME NEW a1 \in Nat, NEW a2 \in Nat, NEW a3 \in Nat, NEW a4 \in Nat, NEW a5 \in Nat,
         NEW a6 \in Nat
  PROVE  <<a1, a2, a3, a4, a5, a6>> \in Nat \X Nat \X Nat \X Nat \X Nat \X Nat
OBVIOUS

\* The types of a step that leaves the index alone.
LEMMA StillTyped ==
  ASSUME RetrievalBooks, SameIndex, config' \in Configs, captured' \in Seq(Bodies),
         pending' \subseteq [call : Nat, request : Requests],
         answer'.request \in Requests, answer'.data \in Seq(Items),
         retrievalTotal' \in Nat, retrievalLive' \in Nat, unmatched' \in Nat, calls' \in Nat
  PROVE  RetrievalTypeOK'
<1>1. /\ recorded' \in Seq(Bodies) /\ byKey' \subseteq Positions' /\ byBatch' \subseteq Positions'
      /\ used' \in [Positions' -> Nat]
  BY IndexStill
<1>2. retrievalServed' \in Nat /\ retrievalReordered' \in Nat
  BY RetrievalTypes DEF RetrievalBooks, SameIndex
<1>3. <<retrievalTotal', retrievalServed', retrievalReordered', retrievalLive', unmatched',
        calls'>> \in Nat \X Nat \X Nat \X Nat \X Nat \X Nat
  BY <1>2, SixCounters
<1> QED
  BY <1>1, <1>3 DEF RetrievalTypeOK, Bodies, Items

\* What a call that halts may be told is true when it is told.
LEMMA NoMatchTold ==
  ASSUME RetrievalBooks, NEW request \in Requests, NoMatch(request)
  PROVE  \A p \in Positions :
           Unused(p) =>
             /\ recorded[p].request # request
             /\ SameBatch(recorded[p].request, request) =>
                  \E q \in 1..p : Unused(q) /\ recorded[q].kind \in {"error", "failed"}
<1> SUFFICES ASSUME NEW p \in Positions, Unused(p)
             PROVE  /\ recorded[p].request # request
                    /\ SameBatch(recorded[p].request, request) =>
                         \E q \in 1..p : Unused(q) /\ recorded[q].kind \in {"error", "failed"}
  OBVIOUS
<1>0. RetrievalTypeOK /\ QueuesAreUnused
  BY DEF RetrievalBooks
<1>1. p \in byKey
  BY <1>0 DEF QueuesAreUnused
<1>2. recorded[p].request # request
  BY <1>1 DEF NoMatch, ByKey
<1>3. ASSUME SameBatch(recorded[p].request, request)
      PROVE  \E q \in 1..p : Unused(q) /\ recorded[q].kind \in {"error", "failed"}
  <2>1. p \in byBatch
    BY <1>0, <1>1, <1>3 DEF QueuesAreUnused, SameBatch
  <2>2. ByBatch(request) # {}
    BY <2>1, <1>3 DEF ByBatch
  <2>3. PICK q \in byBatch : q <= p /\ recorded[q].kind \in {"error", "failed"}
    BY <2>1, <2>2, <1>0, <1>3, HeadOfBatch DEF NoMatch
  <2>4. q \in byKey
    BY <1>0 DEF QueuesAreUnused
  <2>5. q \in Positions /\ Unused(q) /\ Len(recorded) \in Nat /\ Positions = 1..Len(recorded)
    BY <2>4, <1>0, RetrievalTypes DEF QueuesAreUnused
  <2>6. q \in 1..p
    BY ONLY <2>3, <2>5, p \in Positions
  <2> QED
    BY <2>3, <2>5, <2>6
<1> QED
  BY <1>2, <1>3

LEMMA HaltKeeps ==
  ASSUME RetrievalAssumption, RetrievalBooks, NEW request \in Requests, Halt(request),
         calls' = calls + 1, UNCHANGED <<config, recorded, captured>>
  PROVE  RetrievalBooks'
<1>0. RetrievalTypeOK /\ RecordingBooks
  BY DEF RetrievalBooks
<1>1. /\ SameIndex /\ config' = config /\ captured' = captured
      /\ pending' = pending /\ retrievalTotal' = retrievalTotal
      /\ retrievalLive' = retrievalLive /\ retrievalServed' = retrievalServed
      /\ unmatched' = unmatched + 1 /\ config.mode = "replay"
  BY DEF Halt, Strict, servedVars, liveVars, SameIndex
<1>2. /\ QueuesAreUnused' /\ EarlierFirst' /\ GoodOnly(recorded)'
      /\ recorded' = recorded /\ used' = used
      /\ retrievalServed' = Cardinality({p \in Positions' : ~ Unused(p)'})
  BY <1>1, IndexStill
<1>12. /\ answer'.request = request /\ answer'.data = << >> /\ << >> \in Seq(Items)
       /\ answer'.how \in {"only a digest", "no match"}
       /\ answer'.how = "no match" => NoMatch(request)
  <2>1. \/ answer' = [how |-> "only a digest", request |-> request, data |-> << >>]
        \/ /\ answer' = [how |-> "no match", request |-> request, data |-> << >>]
           /\ NoMatch(request)
    BY DEF Halt, Give
  <2>2. << >> \in Seq(Items)
    BY EmptySeq
  <2>3. PICK how \in {"only a digest", "no match"} :
          /\ answer' = [how |-> how, request |-> request, data |-> << >>]
          /\ how = "no match" => NoMatch(request)
    BY <2>1, Zenon
  <2>4. answer'.request = request /\ answer'.data = << >> /\ answer'.how = how
    BY ONLY <2>3, Zenon
  <2> QED
    BY <2>2, <2>3, <2>4
<1>3. answer'.request = request /\ answer'.data = << >> /\ << >> \in Seq(Items)
  BY <1>12
<1>4. /\ answer'.how \in {"only a digest", "no match"}
      /\ answer'.how = "no match" => NoMatch(request)
  BY <1>12
<1>5. /\ config \in Configs /\ captured \in Seq(Bodies)
      /\ pending \subseteq [call : Nat, request : Requests]
      /\ retrievalTotal \in Nat /\ retrievalServed \in Nat /\ calls \in Nat
      /\ retrievalLive \in Nat /\ unmatched \in Nat
  BY <1>0, RetrievalTypes
<1>6. RetrievalTypeOK'
  <2>1. unmatched' \in Nat /\ calls' \in Nat
    BY <1>1, <1>5
  <2> QED
    BY <2>1, <1>1, <1>3, <1>5, StillTyped
<1>7. GoodOnly(captured)'
  BY <1>1 DEF RetrievalBooks, GoodOnly
<1>8. RecordingBooks'
  <2>1. IsFiniteSet(pending) /\ \A c \in pending : c.call < calls /\ c.call \in Nat
    BY <1>0, <1>5 DEF RecordingBooks
  <2>2. \A c \in pending : c.call < calls + 1
    BY ONLY <2>1, <1>5
  <2> QED
    BY <2>1, <2>2, <1>1 DEF RecordingBooks
<1>9. VectorsAreRight'
  BY <1>4 DEF VectorsAreRight
<1>10. NoMatchIsTrue'
  <2>1. SUFFICES ASSUME answer'.how = "no match" PROVE NoMatchIsTrue'
    BY DEF NoMatchIsTrue
  <2>2. \A p \in Positions :
          Unused(p) =>
            /\ recorded[p].request # request
            /\ SameBatch(recorded[p].request, request) =>
                 \E q \in 1..p : Unused(q) /\ recorded[q].kind \in {"error", "failed"}
    BY <2>1, <1>4, NoMatchTold
  <2> QED
    BY ONLY <2>2, <1>2, <1>3 DEF NoMatchIsTrue, Positions, Unused
<1>11. EveryCallCounted'
  <2>1. calls = retrievalServed + retrievalLive + unmatched
    BY <1>1 DEF RetrievalBooks, EveryCallCounted
  <2>2. calls' = retrievalServed' + retrievalLive' + unmatched'
    BY ONLY <2>1, <1>1, <1>5, calls' = calls + 1
  <2> QED
    BY <2>2, <1>1, <1>2 DEF EveryCallCounted
<1> QED
  BY <1>2, <1>6, <1>7, <1>8, <1>9, <1>10, <1>11 DEF RetrievalBooks

\* An answer that stays is as right as it was.
LEMMA AnswerStill ==
  ASSUME RetrievalBooks, answer' = answer, recorded' = recorded, used' = used
  PROVE  VectorsAreRight' /\ NoMatchIsTrue'
<1>1. VectorsAreRight'
  <2>1. VectorsAreRight
    BY DEF RetrievalBooks
  <2> QED
    BY <2>1 DEF VectorsAreRight
<1>2. NoMatchIsTrue'
  <2>1. NoMatchIsTrue
    BY DEF RetrievalBooks
  <2> QED
    BY <2>1 DEF NoMatchIsTrue, Positions, Unused
<1> QED
  BY <1>1, <1>2

LEMMA ForwardKeeps ==
  ASSUME RetrievalAssumption, RetrievalBooks, NEW request \in Requests, Forward(request),
         calls' = calls + 1, UNCHANGED <<config, recorded, captured>>
  PROVE  RetrievalBooks'
<1> DEFINE new == [call |-> calls, request |-> request]
<1>0. RetrievalTypeOK /\ RecordingBooks
  BY DEF RetrievalBooks
<1>1. /\ SameIndex /\ config' = config /\ captured' = captured /\ answer' = answer
      /\ pending' = pending \union {new} /\ unmatched' = unmatched
      /\ retrievalServed' = retrievalServed
  BY DEF Forward, servedVars, SameIndex
<1>2. /\ QueuesAreUnused' /\ EarlierFirst' /\ GoodOnly(recorded)'
      /\ recorded' = recorded /\ used' = used
      /\ retrievalServed' = Cardinality({p \in Positions' : ~ Unused(p)'})
  BY <1>1, IndexStill
<1>3. /\ config.mode = "record" =>
           retrievalTotal' = retrievalTotal + 1 /\ retrievalLive' = retrievalLive
      /\ config.mode # "record" =>
           retrievalTotal' = retrievalTotal /\ retrievalLive' = retrievalLive + 1
  BY DEF Forward
<1>5. /\ config \in Configs /\ captured \in Seq(Bodies)
      /\ pending \subseteq [call : Nat, request : Requests]
      /\ answer.request \in Requests /\ answer.data \in Seq(Items)
      /\ retrievalTotal \in Nat /\ retrievalServed \in Nat /\ calls \in Nat
      /\ retrievalLive \in Nat /\ unmatched \in Nat
  BY <1>0, RetrievalTypes
<1>6. RetrievalTypeOK'
  <2>1. retrievalTotal' \in Nat /\ retrievalLive' \in Nat
    BY ONLY <1>3, <1>5
  <2>2. unmatched' \in Nat /\ calls' \in Nat
    BY ONLY <1>1, <1>5, calls' = calls + 1
  <2>3. pending' \subseteq [call : Nat, request : Requests]
    BY <1>1, <1>5
  <2> QED
    BY <2>1, <2>2, <2>3, <1>1, <1>5, StillTyped
<1>7. GoodOnly(captured)'
  BY <1>1 DEF RetrievalBooks, GoodOnly
<1>8. IsFiniteSet(pending) /\ \A c \in pending : c.call < calls /\ c.call \in Nat
  BY <1>0, <1>5 DEF RecordingBooks
<1>9. new.call = calls /\ new \notin pending
  BY <1>8, <1>5
<1> HIDE DEF new
<1>10. /\ IsFiniteSet(pending') /\ Cardinality(pending') = Cardinality(pending) + 1
       /\ Cardinality(pending) \in Nat
  BY <1>1, <1>8, <1>9, FS_AddElement, FS_CardinalityType
<1>11. RecordingBooks'
  <2>1. \A c \in pending' : c.call < calls + 1
    BY ONLY <1>1, <1>8, <1>9, <1>5
  <2>2. config.mode = "record" => recorded' = << >> /\ answer'.how = "none"
                                  /\ retrievalServed' = 0 /\ retrievalLive' = 0 /\ unmatched' = 0
    BY <1>0, <1>1, <1>2, <1>3 DEF RecordingBooks
  <2> QED
    BY <2>1, <2>2, <1>10, <1>1 DEF RecordingBooks
<1>12. VectorsAreRight' /\ NoMatchIsTrue'
  BY <1>1, <1>2, AnswerStill
<1>13. EveryCallCounted'
  <2>1. config.mode = "record" => retrievalTotal = Len(captured) + Cardinality(pending)
    BY DEF RetrievalBooks, EveryCallCounted
  <2>2. config.mode = "replay" => calls = retrievalServed + retrievalLive + unmatched
    BY DEF RetrievalBooks, EveryCallCounted
  <2>3. Len(captured) \in Nat
    BY <1>5, LenProperties
  <2>4. config.mode = "record" => retrievalTotal' = Len(captured) + Cardinality(pending')
    BY ONLY <2>1, <2>3, <1>3, <1>5, <1>10
  <2>5. config.mode = "replay" => calls' = retrievalServed' + retrievalLive' + unmatched'
    BY ONLY <2>2, <1>1, <1>3, <1>5, calls' = calls + 1
  <2> QED
    BY <2>4, <2>5, <1>1, <1>2 DEF EveryCallCounted
<1> QED
  BY <1>2, <1>6, <1>7, <1>11, <1>12, <1>13 DEF RetrievalBooks

LEMMA AskUnkeyedKeeps ==
  ASSUME RetrievalAssumption, RetrievalBooks, AskUnkeyed
  PROVE  RetrievalBooks'
<1>0. RetrievalTypeOK /\ RecordingBooks
  BY DEF RetrievalBooks
<1>1. /\ SameIndex /\ config' = config /\ captured' = captured /\ answer' = answer
      /\ pending' = pending /\ retrievalTotal' = retrievalTotal
      /\ retrievalLive' = retrievalLive /\ retrievalServed' = retrievalServed
      /\ calls' = calls + 1
  BY DEF AskUnkeyed, servedVars, liveVars, SameIndex
<1>2. /\ QueuesAreUnused' /\ EarlierFirst' /\ GoodOnly(recorded)'
      /\ recorded' = recorded /\ used' = used
      /\ retrievalServed' = Cardinality({p \in Positions' : ~ Unused(p)'})
  BY <1>1, IndexStill
<1>3. /\ config.mode = "replay" => unmatched' = unmatched + 1
      /\ config.mode # "replay" => unmatched' = unmatched + 0
  BY DEF AskUnkeyed
<1>5. /\ config \in Configs /\ captured \in Seq(Bodies)
      /\ pending \subseteq [call : Nat, request : Requests]
      /\ answer.request \in Requests /\ answer.data \in Seq(Items)
      /\ retrievalTotal \in Nat /\ retrievalServed \in Nat /\ calls \in Nat
      /\ retrievalLive \in Nat /\ unmatched \in Nat
  BY <1>0, RetrievalTypes
<1>6. RetrievalTypeOK'
  <2>1. unmatched' \in Nat /\ calls' \in Nat
    BY ONLY <1>1, <1>3, <1>5
  <2> QED
    BY <2>1, <1>1, <1>5, StillTyped
<1>7. GoodOnly(captured)'
  BY <1>1 DEF RetrievalBooks, GoodOnly
<1>8. RecordingBooks'
  <2>1. IsFiniteSet(pending) /\ \A c \in pending : c.call < calls /\ c.call \in Nat
    BY <1>0, <1>5 DEF RecordingBooks
  <2>2. \A c \in pending : c.call < calls + 1
    BY ONLY <2>1, <1>5
  <2>3. config.mode = "record" => /\ recorded' = << >> /\ answer'.how = "none"
                                  /\ retrievalServed' = 0 /\ retrievalLive' = 0
    BY <1>0, <1>1, <1>2 DEF RecordingBooks
  <2>4. config.mode = "record" => unmatched = 0
    BY <1>0 DEF RecordingBooks
  <2>5. config.mode = "record" => unmatched' = 0
    BY ONLY <2>4, <1>3
  <2> QED
    BY <2>1, <2>2, <2>3, <2>5, <1>1 DEF RecordingBooks
<1>9. VectorsAreRight' /\ NoMatchIsTrue'
  BY <1>1, <1>2, AnswerStill
<1>10. EveryCallCounted'
  <2>1. config.mode = "replay" => calls = retrievalServed + retrievalLive + unmatched
    BY DEF RetrievalBooks, EveryCallCounted
  <2>2. config.mode = "replay" => calls' = retrievalServed' + retrievalLive' + unmatched'
    BY ONLY <2>1, <1>1, <1>3, <1>5
  <2>3. config.mode = "record" => retrievalTotal' = Len(captured') + Cardinality(pending')
    BY <1>1 DEF RetrievalBooks, EveryCallCounted
  <2> QED
    BY <2>2, <2>3, <1>1, <1>2 DEF EveryCallCounted
<1> QED
  BY <1>2, <1>6, <1>7, <1>8, <1>9, <1>10 DEF RetrievalBooks

\* What the recorder appends for a call that ended.
LEMMA CaptureKeeps ==
  ASSUME RetrievalBooks, NEW request \in Requests, NEW kind \in Kinds, NEW data \in Seq(Items),
         kind = "good" => data \in GoodBodies(request), Capture(request, kind, data)
  PROVE  /\ captured' \in Seq(Bodies) /\ GoodOnly(captured)'
         /\ config.mode = "record" => Len(captured') = Len(captured) + 1
<1>1. captured \in Seq(Bodies) /\ Len(captured) \in Nat /\ GoodOnly(captured)
  BY LenProperties DEF RetrievalBooks, RetrievalTypeOK
<1>2. CASE config.mode # "record"
  BY <1>1, <1>2 DEF Capture, GoodOnly
<1>3. ASSUME config.mode = "record", NEW body \in Bodies, captured' = Append(captured, body),
             body.kind = "good" => body.data \in GoodBodies(body.request)
      PROVE  /\ captured' \in Seq(Bodies) /\ GoodOnly(captured)'
             /\ Len(captured') = Len(captured) + 1
  <2>1. captured' \in Seq(Bodies) /\ Len(captured') = Len(captured) + 1
    BY <1>1, <1>3
  <2>2. /\ DOMAIN captured' = 1..(Len(captured) + 1) /\ DOMAIN captured = 1..Len(captured)
        /\ \A p \in 1..Len(captured) : captured'[p] = captured[p]
        /\ captured'[Len(captured) + 1] = body
    BY <1>1, <1>3
  <2>3. \A p \in DOMAIN captured' :
          captured'[p].kind = "good" => captured'[p].data \in GoodBodies(captured'[p].request)
    <3> SUFFICES ASSUME NEW p \in DOMAIN captured', captured'[p].kind = "good"
                 PROVE  captured'[p].data \in GoodBodies(captured'[p].request)
      OBVIOUS
    <3>1. CASE p = Len(captured) + 1
      BY <3>1, <2>2, <1>3
    <3>2. CASE p \in 1..Len(captured)
      <4>1. captured'[p] = captured[p] /\ p \in DOMAIN captured
        BY <3>2, <2>2
      <4> QED
        BY <4>1, <1>1 DEF GoodOnly
    <3> QED
      BY <3>1, <3>2, <2>2, <1>1
  <2> QED
    BY <2>1, <2>3 DEF GoodOnly
<1>4. ASSUME config.mode = "record", config.store = "digest", kind # "failed"
      PROVE  captured' = Append(captured, [request |-> request, kind |-> "absent", data |-> << >>])
  BY <1>4 DEF Capture
<1>5. ASSUME config.mode = "record", ~ (config.store = "digest" /\ kind # "failed")
      PROVE  captured' = Append(captured, [request |-> request, kind |-> kind, data |-> data])
  BY <1>5 DEF Capture
<1>6. << >> \in Seq(Items)
  BY EmptySeq
<1>7. CASE config.mode = "record" /\ config.store = "digest" /\ kind # "failed"
  <2> DEFINE body == [request |-> request, kind |-> "absent", data |-> << >>]
  <2>1. body \in Bodies /\ body.kind # "good"
    BY <1>6 DEF Bodies, Kinds
  <2>2. captured' = Append(captured, body)
    BY <1>4, <1>7
  <2> HIDE DEF body
  <2> QED
    BY <1>3, <1>7, <2>1, <2>2
<1>8. CASE config.mode = "record" /\ ~ (config.store = "digest" /\ kind # "failed")
  <2> DEFINE body == [request |-> request, kind |-> kind, data |-> data]
  <2>1. body \in Bodies /\ (body.kind = "good" => body.data \in GoodBodies(body.request))
    BY DEF Bodies
  <2>2. captured' = Append(captured, body)
    BY <1>5, <1>8
  <2> HIDE DEF body
  <2> QED
    BY <1>3, <1>8, <2>1, <2>2
<1> QED
  BY <1>2, <1>7, <1>8

LEMMA CallEndsKeeps ==
  ASSUME RetrievalAssumption, RetrievalBooks, NEW call \in pending, NEW kind \in Kinds,
         NEW data \in Seq(Items),
         kind = "good" => data \in GoodBodies(call.request), CallEnds(call, kind, data)
  PROVE  RetrievalBooks'
<1>0. RetrievalTypeOK /\ RecordingBooks
  BY DEF RetrievalBooks
<1>1. /\ SameIndex /\ config' = config /\ answer' = answer /\ calls' = calls
      /\ pending' = pending \ {call} /\ unmatched' = unmatched
      /\ retrievalTotal' = retrievalTotal /\ retrievalLive' = retrievalLive
      /\ retrievalServed' = retrievalServed /\ Capture(call.request, kind, data)
  BY DEF CallEnds, servedVars, SameIndex
<1>2. /\ QueuesAreUnused' /\ EarlierFirst' /\ GoodOnly(recorded)'
      /\ recorded' = recorded /\ used' = used
      /\ retrievalServed' = Cardinality({p \in Positions' : ~ Unused(p)'})
  BY <1>1, IndexStill
<1>3. /\ config \in Configs /\ captured \in Seq(Bodies)
      /\ pending \subseteq [call : Nat, request : Requests]
      /\ answer.request \in Requests /\ answer.data \in Seq(Items)
      /\ retrievalTotal \in Nat /\ retrievalServed \in Nat /\ calls \in Nat
      /\ retrievalLive \in Nat /\ unmatched \in Nat
  BY <1>0, RetrievalTypes
<1>4. call.request \in Requests
  BY <1>3
<1>5. /\ captured' \in Seq(Bodies) /\ GoodOnly(captured)'
      /\ config.mode = "record" => Len(captured') = Len(captured) + 1
  BY <1>1, <1>4, CaptureKeeps
<1>6. RetrievalTypeOK'
  <2>1. pending' \subseteq [call : Nat, request : Requests]
    BY <1>1, <1>3
  <2> QED
    BY <2>1, <1>1, <1>3, <1>5, StillTyped
<1>7. /\ IsFiniteSet(pending') /\ Cardinality(pending') = Cardinality(pending) - 1
      /\ Cardinality(pending) \in Nat
  <2>1. IsFiniteSet(pending)
    BY <1>0 DEF RecordingBooks
  <2> QED
    BY <2>1, <1>1, FS_RemoveElement, FS_CardinalityType
<1>8. RecordingBooks'
  <2>1. \A c \in pending' : c.call < calls
    BY <1>0, <1>1 DEF RecordingBooks
  <2>2. config.mode = "record" => /\ recorded' = << >> /\ answer'.how = "none"
                                  /\ retrievalServed' = 0 /\ retrievalLive' = 0
                                  /\ unmatched' = 0
    BY <1>0, <1>1, <1>2 DEF RecordingBooks
  <2> QED
    BY <2>1, <2>2, <1>1, <1>7 DEF RecordingBooks
<1>9. VectorsAreRight' /\ NoMatchIsTrue'
  BY <1>1, <1>2, AnswerStill
<1>10. EveryCallCounted'
  <2>1. config.mode = "record" => retrievalTotal = Len(captured) + Cardinality(pending)
    BY DEF RetrievalBooks, EveryCallCounted
  <2>2. Len(captured) \in Nat
    BY <1>3, LenProperties
  <2>3. config.mode = "record" => retrievalTotal' = Len(captured') + Cardinality(pending')
    BY ONLY <2>1, <2>2, <1>1, <1>3, <1>5, <1>7
  <2>4. config.mode = "replay" => calls' = retrievalServed' + retrievalLive' + unmatched'
    BY <1>1 DEF RetrievalBooks, EveryCallCounted
  <2> QED
    BY <2>3, <2>4, <1>1, <1>2 DEF EveryCallCounted
<1> QED
  BY <1>2, <1>5, <1>6, <1>8, <1>9, <1>10 DEF RetrievalBooks

\* Whatever a call is answered with, or no answer at all, ends it as CallEnds says.
LEMMA ForwardEndsKeeps ==
  ASSUME RetrievalAssumption, RetrievalBooks, NEW call \in pending,
         ForwardAnswers(call) \/ ForwardFails(call)
  PROVE  RetrievalBooks'
<1>1. call.request \in Requests
  BY RetrievalTypes DEF RetrievalBooks
<1>2. << >> \in Seq(Items) /\ {"good", "error", "absent", "failed"} \subseteq Kinds
  BY EmptySeq DEF Kinds
<1>3. ASSUME NEW data \in GoodBodies(call.request), CallEnds(call, "good", data)
      PROVE  RetrievalBooks'
  <2>1. data \in Seq(Items)
    BY <1>1, GoodBody
  <2> QED
    BY <2>1, <1>2, <1>3, CallEndsKeeps
<1>4. ASSUME NEW kind \in {"error", "absent", "failed"}, CallEnds(call, kind, << >>)
      PROVE  RetrievalBooks'
  <2>1. kind \in Kinds /\ kind # "good"
    BY <1>2
  <2> QED
    BY <2>1, <1>2, <1>4, CallEndsKeeps
<1>5. \/ \E data \in GoodBodies(call.request) : CallEnds(call, "good", data)
      \/ \E kind \in {"error", "absent", "failed"} : CallEnds(call, kind, << >>)
  BY DEF ForwardAnswers, ForwardFails
<1> QED
  BY <1>3, <1>4, <1>5

\* The trace a replay finds is the recording, perhaps without its last body.
LEMMA TraceFound ==
  ASSUME RetrievalBooks, NEW log \in Traces
  PROVE  log \in Seq(Bodies) /\ GoodOnly(log)
<1>1. captured \in Seq(Bodies) /\ GoodOnly(captured)
  BY DEF RetrievalBooks, RetrievalTypeOK
<1>2. CASE log = captured
  BY <1>1, <1>2
<1>3. CASE /\ captured # << >>
           /\ log = [captured EXCEPT ![Len(captured)].kind = "absent",
                                     ![Len(captured)].data = << >>]
  <2> DEFINE n == Len(captured)
             last == [captured[n] EXCEPT !.kind = "absent", !.data = << >>]
  <2>1. n \in Nat \ {0} /\ DOMAIN captured = 1..n /\ n \in 1..n
    BY <1>1, <1>3, EmptySeq, LenProperties
  <2>2. captured[n] \in Bodies
    BY <1>1, <2>1, ElementOfSeq
  <2>3. last \in Bodies /\ last.kind # "good"
    <3>1. << >> \in Seq(Items) /\ "absent" \in Kinds
      BY EmptySeq DEF Kinds
    <3> DEFINE old == captured[n]
    <3>2. old \in [request : Requests, kind : Kinds, data : Seq(Items)]
      BY <2>2 DEF Bodies
    <3> HIDE DEF old
    <3>3. [old EXCEPT !.kind = "absent", !.data = << >>]
             \in [request : Requests, kind : {"absent"}, data : {<< >>}]
      <4> DEFINE none == << >>
      <4> HIDE DEF none
      <4>1. [old EXCEPT !.kind = "absent", !.data = none]
               \in [request : Requests, kind : {"absent"}, data : {none}]
        BY ONLY <3>2
      <4> QED
        BY <4>1 DEF none
    <3>4. last \in [request : Requests, kind : {"absent"}, data : {<< >>}]
      BY <3>3 DEF old
    <3> HIDE DEF last
    <3> QED
      BY ONLY <3>1, <3>4 DEF Bodies
  <2>4. log = [captured EXCEPT ![n] = last]
    BY <1>3, <2>1
  <2> HIDE DEF n, last
  <2>5. /\ log \in Seq(Bodies) /\ DOMAIN log = 1..n
        /\ \A p \in 1..n : log[p] = IF p = n THEN last ELSE captured[p]
    <3>1. n \in 1..Len(captured)
      BY <2>1 DEF n
    <3>2. /\ log \in Seq(Bodies) /\ Len(log) = Len(captured)
          /\ \A p \in 1..Len(captured) : log[p] = IF p = n THEN last ELSE captured[p]
      BY <1>1, <2>3, <2>4, <3>1, ExceptSeq
    <3> QED
      BY <3>2, LenProperties DEF n
  <2>6. GoodOnly(log)
    BY <1>1, <2>1, <2>3, <2>5 DEF GoodOnly
  <2> QED
    BY <2>5, <2>6
<1> QED
  BY <1>2, <1>3 DEF Traces

LEMMA ReplayKeeps ==
  ASSUME RetrievalAssumption, RetrievalBooks, Replay
  PROVE  RetrievalBooks'
<1>0. RetrievalTypeOK /\ RecordingBooks
  BY DEF RetrievalBooks
<1>1. PICK log \in Traces : Index(log) /\ retrievalTotal' = Len(log)
  BY DEF Replay
<1>2. /\ config.mode = "record" /\ pending' = {} /\ calls' = 0
      /\ captured' = captured /\ answer' = answer /\ retrievalServed' = retrievalServed
      /\ retrievalReordered' = retrievalReordered /\ retrievalLive' = retrievalLive
      /\ unmatched' = unmatched
  BY DEF Replay
<1>3. config' \in Configs /\ config'.mode # "record"
  <2>1. PICK mode \in {"replay", "hybrid"}, loose \in BOOLEAN :
          config' = [config EXCEPT !.mode = mode, !.loose = loose]
    BY DEF Replay
  <2>2. config \in [mode : {"record", "replay", "hybrid"}, loose : BOOLEAN,
                    store : {"full", "digest"}]
    BY <1>0, RetrievalTypes DEF Configs
  <2>3. config' = [mode |-> mode, loose |-> loose, store |-> config.store]
    BY ONLY <2>1, <2>2
  <2> QED
    BY ONLY <2>2, <2>3 DEF Configs
<1>4. log \in Seq(Bodies) /\ GoodOnly(log)
  BY TraceFound
<1>5. /\ recorded' = log /\ byKey' = DOMAIN log /\ used' = [p \in DOMAIN log |-> 0]
      /\ byBatch' = {p \in DOMAIN log : HasBatchKey(log[p].request)}
  BY <1>1 DEF Index
<1>6. Positions' = DOMAIN log /\ Len(log) \in Nat
  BY <1>4, <1>5, LenProperties DEF Positions
<1>7. answer.how = "none" /\ retrievalServed = 0 /\ retrievalLive = 0 /\ unmatched = 0
  BY <1>0, <1>2 DEF RecordingBooks
<1>8. /\ captured \in Seq(Bodies) /\ answer.request \in Requests /\ answer.data \in Seq(Items)
      /\ retrievalReordered \in Nat
  BY <1>0, RetrievalTypes
<1>9. \A p \in DOMAIN log : used'[p] = 0
  BY <1>5
<1>10. RetrievalTypeOK'
  <2>1. used' \in [Positions' -> Nat]
    BY <1>5, <1>6
  <2>2. <<retrievalTotal', retrievalServed', retrievalReordered', retrievalLive', unmatched',
          calls'>> \in Nat \X Nat \X Nat \X Nat \X Nat \X Nat
    BY <1>1, <1>2, <1>6, <1>7, <1>8, SixCounters
  <2>3. /\ recorded' \in Seq(Bodies) /\ captured' \in Seq(Bodies) /\ byKey' \subseteq Positions'
        /\ byBatch' \subseteq Positions' /\ pending' \subseteq [call : Nat, request : Requests]
        /\ answer'.request \in Requests /\ answer'.data \in Seq(Items)
    BY <1>2, <1>4, <1>5, <1>6, <1>8
  <2> QED
    BY <2>1, <2>2, <2>3, <1>3 DEF RetrievalTypeOK, Bodies, Items
<1>11. QueuesAreUnused' /\ EarlierFirst'
  <2>1. \A p \in Positions' : used'[p] = 0
    BY <1>6, <1>9
  <2>2. EarlierFirst'
    BY <2>1 DEF EarlierFirst
  <2>3. \A p \in Positions' : used'[p] <= 1
    BY <2>1
  <2>4. byKey' = {p \in Positions' : used'[p] = 0}
    BY <2>1, <1>5, <1>6
  <2>5. byBatch' = {p \in byKey' : HasBatchKey(recorded'[p].request)}
    BY <1>5
  <2> QED
    BY <2>2, <2>3, <2>4, <2>5 DEF QueuesAreUnused, Unused
<1>12. GoodOnly(recorded)' /\ GoodOnly(captured)'
  BY <1>2, <1>4, <1>5 DEF RetrievalBooks, GoodOnly
<1>13. RecordingBooks'
  BY <1>2, <1>3, FS_EmptySet DEF RecordingBooks
<1>14. VectorsAreRight' /\ NoMatchIsTrue'
  BY <1>2, <1>7 DEF VectorsAreRight, NoMatchIsTrue
<1>15. EveryCallCounted'
  <2>1. {p \in Positions' : ~ (used'[p] = 0)} = {}
    BY <1>6, <1>9
  <2>2. retrievalServed' = Cardinality({p \in Positions' : ~ (used'[p] = 0)})
    BY <2>1, <1>2, <1>7, FS_EmptySet
  <2>3. calls' = retrievalServed' + retrievalLive' + unmatched'
    BY <1>2, <1>7
  <2> QED
    BY <2>2, <2>3, <1>3 DEF EveryCallCounted, Unused
<1> QED
  BY <1>10, <1>11, <1>12, <1>13, <1>14, <1>15 DEF RetrievalBooks

LEMMA RetrievalInitBooks ==
  ASSUME RetrievalAssumption, RetrievalInit
  PROVE  RetrievalBooks
<1>1. /\ config \in Configs /\ recorded = << >> /\ byKey = {} /\ byBatch = {} /\ used = << >>
      /\ pending = {} /\ captured = << >>
      /\ retrievalTotal = 0 /\ retrievalServed = 0 /\ retrievalReordered = 0
      /\ retrievalLive = 0 /\ unmatched = 0 /\ calls = 0
  BY DEF RetrievalInit
<1>2. answer.how = "none" /\ answer.request \in Requests /\ answer.data = << >>
  <2>1. (CHOOSE r \in Requests : TRUE) \in Requests
    BY DEF RetrievalAssumption
  <2> QED
    BY <2>1 DEF RetrievalInit
<1>3. DOMAIN << >> = {} /\ << >> \in Seq(Bodies) /\ << >> \in Seq(Items) /\ Len(<< >>) = 0
  BY EmptySeq
<1>4. Positions = {}
  BY <1>1, <1>3 DEF Positions
<1>5. RetrievalTypeOK
  <2>1. <<retrievalTotal, retrievalServed, retrievalReordered, retrievalLive, unmatched,
          calls>> \in Nat \X Nat \X Nat \X Nat \X Nat \X Nat
    BY <1>1, SixCounters
  <2>2. used \in [Positions -> Nat]
    BY <1>1, <1>4
  <2> QED
    BY <2>1, <2>2, <1>1, <1>2, <1>3 DEF RetrievalTypeOK
<1>6. QueuesAreUnused /\ EarlierFirst
  BY <1>1, <1>4 DEF QueuesAreUnused, EarlierFirst
<1>7. GoodOnly(recorded) /\ GoodOnly(captured)
  BY <1>1, <1>3 DEF GoodOnly
<1>8. RecordingBooks
  BY <1>1, <1>2, FS_EmptySet DEF RecordingBooks
<1>9. VectorsAreRight /\ NoMatchIsTrue
  BY <1>2 DEF VectorsAreRight, NoMatchIsTrue
<1>10. EveryCallCounted
  <2>1. {p \in Positions : ~ Unused(p)} = {} /\ Cardinality({}) = 0
    BY <1>4, FS_EmptySet
  <2>2. retrievalServed = Cardinality({p \in Positions : ~ Unused(p)})
    BY <2>1, <1>1
  <2>3. retrievalTotal = Len(captured) + Cardinality(pending)
    <3>1. Len(captured) = 0 /\ Cardinality(pending) = 0
      BY <2>1, <1>1, <1>3
    <3> QED
      BY ONLY <3>1, <1>1
  <2>4. calls = retrievalServed + retrievalLive + unmatched
    BY ONLY <1>1
  <2> QED
    BY <2>2, <2>3, <2>4 DEF EveryCallCounted
<1> QED
  BY <1>5, <1>6, <1>7, <1>8, <1>9, <1>10 DEF RetrievalBooks

LEMMA RetrievalStutters ==
  ASSUME RetrievalBooks, UNCHANGED retrievalVars
  PROVE  RetrievalBooks'
<1>1. /\ SameIndex /\ config' = config /\ captured' = captured /\ answer' = answer
      /\ pending' = pending /\ retrievalTotal' = retrievalTotal
      /\ retrievalLive' = retrievalLive /\ unmatched' = unmatched /\ calls' = calls
  BY DEF retrievalVars, servedVars, liveVars, SameIndex
<1>2. /\ QueuesAreUnused' /\ EarlierFirst' /\ GoodOnly(recorded)'
      /\ recorded' = recorded /\ used' = used
      /\ retrievalServed' = Cardinality({p \in Positions' : ~ Unused(p)'})
  BY <1>1, IndexStill
<1>3. RetrievalTypeOK'
  <2>1. /\ config' \in Configs /\ captured' \in Seq(Bodies)
        /\ pending' \subseteq [call : Nat, request : Requests]
        /\ answer'.request \in Requests /\ answer'.data \in Seq(Items)
        /\ retrievalTotal' \in Nat /\ retrievalLive' \in Nat /\ unmatched' \in Nat /\ calls' \in Nat
    BY <1>1, RetrievalTypes DEF RetrievalBooks
  <2> QED
    BY <2>1, <1>1, StillTyped
<1>4. GoodOnly(captured)'
  BY <1>1 DEF RetrievalBooks, GoodOnly
<1>5. RecordingBooks'
  BY <1>1, <1>2 DEF RetrievalBooks, RecordingBooks, SameIndex
<1>6. VectorsAreRight' /\ NoMatchIsTrue'
  BY <1>1, <1>2, AnswerStill
<1>7. EveryCallCounted'
  BY <1>1, <1>2 DEF RetrievalBooks, EveryCallCounted, SameIndex
<1> QED
  BY <1>2, <1>3, <1>4, <1>5, <1>6, <1>7 DEF RetrievalBooks

-----------------------------------------------------------------------------
(* The retrieval index: what holds of it. *)

LEMMA RetrievalBooksHold == RetrievalSpec => []RetrievalBooks
<1>1. RetrievalInit => RetrievalBooks
  BY RetrievalAssumption, RetrievalInitBooks
<1>2. RetrievalBooks /\ [RetrievalNext]_retrievalVars => RetrievalBooks'
  <2> SUFFICES ASSUME RetrievalBooks, [RetrievalNext]_retrievalVars
               PROVE  RetrievalBooks'
    OBVIOUS
  <2>1. ASSUME NEW request \in Requests, Ask(request)
        PROVE  RetrievalBooks'
    <3>1. calls' = calls + 1 /\ UNCHANGED <<config, recorded, captured>>
      BY <2>1 DEF Ask
    <3>2. CASE ServeExact(request)
      BY <3>1, <3>2, RetrievalAssumption, ServeExactKeeps
    <3>3. CASE ServeRebuilt(request)
      BY <3>1, <3>3, RetrievalAssumption, ServeRebuiltKeeps
    <3>4. CASE Halt(request)
      BY <3>1, <3>4, RetrievalAssumption, HaltKeeps
    <3>5. CASE Forward(request)
      BY <3>1, <3>5, RetrievalAssumption, ForwardKeeps
    <3> QED
      BY <2>1, <3>2, <3>3, <3>4, <3>5 DEF Ask
  <2>2. CASE AskUnkeyed
    BY <2>2, RetrievalAssumption, AskUnkeyedKeeps
  <2>3. ASSUME NEW call \in pending, ForwardAnswers(call) \/ ForwardFails(call)
        PROVE  RetrievalBooks'
    BY <2>3, RetrievalAssumption, ForwardEndsKeeps
  <2>4. CASE Replay
    BY <2>4, RetrievalAssumption, ReplayKeeps
  <2>5. CASE UNCHANGED retrievalVars
    BY <2>5, RetrievalStutters
  <2> QED
    BY <2>1, <2>2, <2>3, <2>4, <2>5 DEF RetrievalNext
<1> QED
  BY <1>1, <1>2, PTL DEF RetrievalSpec

(***************************************************************************)
(* Every state of the retrieval index and of the calls in flight has the   *)
(* type it is declared with.                                               *)
(***************************************************************************)
THEOREM RetrievalTypeCorrect == RetrievalSpec => []RetrievalTypeOK
<1>1. RetrievalBooks => RetrievalTypeOK
  BY DEF RetrievalBooks
<1> QED
  BY <1>1, RetrievalBooksHold, PTL

(***************************************************************************)
(* A recorded call answers once and the earlier of two equal ones first, a *)
(* list of vectors given from the trace holds the vector of each text      *)
(* under its index, "no match" is said when nothing matches, and           *)
(* retrieval=N/N counts what it says (serveRetrieval, reorder, consume).   *)
(***************************************************************************)
THEOREM RecordedAnswersAreRight == RetrievalSpec => []RecordedAnswersOnly
<1>1. RetrievalBooks => OnceEarliestFirst
  BY DEF RetrievalBooks, QueuesAreUnused, EarlierFirst, OnceEarliestFirst
<1>2. RetrievalBooks => RecordedAnswersOnly
  BY <1>1 DEF RetrievalBooks, RecordedAnswersOnly
<1> QED
  BY <1>2, RetrievalBooksHold, PTL

-----------------------------------------------------------------------------
(* The MCP mock. *)

(***************************************************************************)
(* Its inductive invariant.                                                *)
(***************************************************************************)

FrameSet ==
  [server : {"own", "other"}, way : {"in", "out"}, id : Nat, call : Calls \union {NoCall}, answer : Nat]
ReplayTypes ==
  taken \in [Shims -> [Slots -> Nat]] /\ asked \in [Shims -> Seq(Calls \X Nat)]
McpTypes ==
  /\ phase \in {"record", "replay"} /\ frames \in Seq(FrameSet) /\ nextId \in Nat \ {0}
  /\ open \in [Id -> Calls \union {NoCall}]
  /\ cut \in Id \union {None} /\ (cut # None => open[cut] # NoCall)
  /\ truth \subseteq Calls \X Nat
  /\ ReplayTypes

\* A call that is open is what its id stands for among the frames, and a frame is filed
\* under a call exactly when the server answered that call with it.
Asks(j, i) == Kept(frames[j]) /\ frames[j].way = "in" /\ frames[j].id = i
StandsFor(i, c) ==
  \E j \in 1..Len(frames) :
    Asks(j, i) /\ frames[j].call = c /\ \A m \in 1..Len(frames) : Asks(m, i) => m <= j
\* Frame f is filed under one of qs when it comes after the frames so far.
Files(f, qs) ==
  /\ Kept(f) /\ f.way = "out" /\ f.id # None
  /\ \E j \in 1..Len(frames) : Asks(j, f.id)
  /\ frames[LastOf({j \in 1..Len(frames) : Asks(j, f.id)})].call \in qs
FrameBooks ==
  /\ \A i \in Id : open[i] # NoCall => StandsFor(i, open[i])
  /\ \A j \in 1..Len(frames) : Asks(j, ServerId) => frames[j].call = NoCall
  /\ \A c \in Calls : \A k \in Nat : <<c, k>> \in truth <=> k \in IndexFrames({c})
  /\ \A k \in 1..Len(frames) : Kept(frames[k]) /\ frames[k].way = "out" => frames[k].answer = k

\* A slot of a shim counts the requests q that the shim answered from it.
Unheard(m) == {d \in OfMethod(m) : Said({d}) = << >>}
Before(q, n, qs) == Cardinality({k \in 1..n : q[k][1] \in qs})
CountsOf(s, q) ==
  /\ \A c \in Calls : Said({c}) # << >> => taken[s][<<"call", c>>] = Before(q, Len(q), {c})
  /\ \A m \in Methods : taken[s][<<"method", m>>] = Before(q, Len(q), Unheard(m))
Unasked == \A s \in Shims : asked[s] = << >> /\ \A slot \in Slots : taken[s][slot] = 0
Counted ==
  /\ phase = "record" => Unasked
  /\ phase = "replay" => \A s \in Shims : CountsOf(s, asked[s])

McpBooks == McpTypes /\ FrameBooks /\ Counted /\ AnswersTheQuestion

-----------------------------------------------------------------------------
(* Places in order. *)

UpTo(S, x) == {y \in S : y <= x}
PlaceOf(S, x) == Cardinality(UpTo(S, x))

LEMMA PlaceIs ==
  ASSUME NEW S \in SUBSET Nat, IsFiniteSet(S)
  PROVE  /\ \A i \in 1..Cardinality(S) : \E x \in S : PlaceOf(S, x) = i
         /\ \A x \in S : PlaceOf(S, x) \in 1..Cardinality(S)
         /\ \A x, y \in S : PlaceOf(S, x) = PlaceOf(S, y) => x = y
<1> DEFINE f == [x \in S |-> PlaceOf(S, x)]
           n == Cardinality(S)
<1>0. n \in Nat
  BY FS_CardinalityType
<1>1. ASSUME NEW x \in S PROVE PlaceOf(S, x) \in 1..n
  <2>1. UpTo(S, x) \in SUBSET S /\ x \in UpTo(S, x)
    BY DEF UpTo
  <2>2. IsFiniteSet(UpTo(S, x)) /\ PlaceOf(S, x) <= n
    BY <2>1, FS_Subset DEF PlaceOf
  <2>3. PlaceOf(S, x) \in Nat /\ PlaceOf(S, x) # 0
    BY <2>1, <2>2, FS_CardinalityType, FS_EmptySet DEF PlaceOf
  <2> QED
    BY <1>0, <2>2, <2>3
<1>2. ASSUME NEW x \in S, NEW y \in S, x < y PROVE PlaceOf(S, x) # PlaceOf(S, y)
  <2>1. UpTo(S, x) \in SUBSET UpTo(S, y) /\ y \in UpTo(S, y) /\ y \notin UpTo(S, x)
    <3>1. x \in Nat /\ y \in Nat /\ S \subseteq Nat
      OBVIOUS
    <3>2. y <= y /\ ~ (y <= x) /\ \A z \in S : z <= x => z <= y
      BY <3>1, <1>2
    <3> QED
      BY <3>2 DEF UpTo
  <2>2. IsFiniteSet(UpTo(S, y))
    BY FS_Subset DEF UpTo
  <2> QED
    BY <2>1, <2>2, FS_Subset DEF PlaceOf
<1>3. f \in [S -> 1..n] /\ \A x, y \in S : f[x] = f[y] => x = y
  <2>1. ASSUME NEW x \in S, NEW y \in S, x # y PROVE PlaceOf(S, x) # PlaceOf(S, y)
    <3>1. x < y \/ y < x
      BY <2>1
    <3> QED
      BY <3>1, <1>2
  <2> HIDE DEF n
  <2> QED
    BY <1>1, <2>1
<1>4. IsFiniteSet(1..n) /\ Cardinality(1..n) = n
  BY <1>0, FS_Interval
<1>5. f \in Injection(S, 1..n)
  <2> HIDE DEF f, n
  <2> QED
    BY <1>3 DEF Injection, IsInjective
<1>6. f \in Surjection(S, 1..n)
  <2> HIDE DEF f
  <2> QED
    BY <1>4, <1>5, FS_Injection
<1>7. \A i \in 1..n : \E x \in S : f[x] = i
  <2> HIDE DEF f, n
  <2> QED
    BY <1>6 DEF Surjection
<1>8. \A x \in S : f[x] = PlaceOf(S, x)
  OBVIOUS
<1> HIDE DEF f
<1> QED
  BY <1>1, <1>3, <1>7, <1>8

LEMMA AscendingIs ==
  ASSUME NEW S \in SUBSET Nat, IsFiniteSet(S)
  PROVE  /\ Ascending(S) \in Seq(S) /\ Len(Ascending(S)) = Cardinality(S)
         /\ \A n \in 1..Len(Ascending(S)) : Ascending(S)[n] \in S
         /\ Ascending(S) = << >> <=> S = {}
<1> DEFINE c == Cardinality(S)
           pick(n) == CHOOSE k \in S : PlaceOf(S, k) = n
<1>1. Ascending(S) = [n \in 1..c |-> pick(n)]
  BY DEF Ascending, PlaceOf, UpTo
<1>2. c \in Nat
  BY FS_CardinalityType
<1>3. \A n \in 1..c : pick(n) \in S
  BY PlaceIs
<1>4. c = 0 <=> S = {}
  BY FS_EmptySet
<1> HIDE DEF pick, c
<1>5. Ascending(S) \in Seq(S)
  BY <1>1, <1>2, <1>3, IsASeq
<1>6. Len(Ascending(S)) = c
  BY <1>1, <1>2, <1>5, LenProperties
<1>7. Ascending(S) = << >> <=> c = 0
  BY <1>5, <1>6, EmptySeq
<1> QED
  BY <1>1, <1>3, <1>4, <1>5, <1>6, <1>7 DEF c

LEMMA LastIs ==
  ASSUME NEW S \in SUBSET Nat, IsFiniteSet(S), S # {}
  PROVE  /\ LastOf(S) \in S /\ \A i \in S : i <= LastOf(S)
         /\ \A j \in S : (\A i \in S : i <= j) => LastOf(S) = j
<1>1. Cardinality(S) \in Nat /\ Cardinality(S) # 0
  BY FS_CardinalityType, FS_EmptySet
<1>2. PICK x \in S : PlaceOf(S, x) = Cardinality(S)
  <2>1. Cardinality(S) \in 1..Cardinality(S)
    BY <1>1
  <2> QED
    BY <2>1, PlaceIs
<1>3. UpTo(S, x) \in SUBSET S
  BY DEF UpTo
<1>4. S = UpTo(S, x)
  BY <1>2, <1>3, FS_Subset DEF PlaceOf
<1>5. \A i \in S : i <= x
  BY <1>4 DEF UpTo
<1>6. LastOf(S) \in S /\ \A i \in S : i <= LastOf(S)
  BY <1>5 DEF LastOf
<1>7. ASSUME NEW j \in S, \A i \in S : i <= j PROVE LastOf(S) = j
  <2>1. LastOf(S) <= j /\ j <= LastOf(S) /\ j \in Nat /\ LastOf(S) \in Nat
    BY <1>6, <1>7
  <2> QED
    BY <2>1
<1> QED
  BY <1>6, <1>7

-----------------------------------------------------------------------------
(* Frames and what is filed of them. *)

LEMMA McpConstants ==
  /\ None = 0 /\ None \notin Id /\ Id \subseteq Nat /\ NoCall \notin Calls
  /\ ServerId \in Nat \ {0}
BY McpAssumption DEF McpAssumption, Id, None

\* A frame more leaves what was filed of the others.
LEMMA FrameMore ==
  ASSUME frames \in Seq(FrameSet), NEW f \in FrameSet, frames' = Append(frames, f)
  PROVE  /\ Len(frames) \in Nat /\ frames' \in Seq(FrameSet) /\ Len(frames') = Len(frames) + 1
         /\ \A j \in 1..Len(frames) : j \in 1..Len(frames') /\ frames'[j] = frames[j]
         /\ \A j \in 1..Len(frames') : j \in 1..Len(frames) \/ j = Len(frames) + 1
         /\ frames'[Len(frames) + 1] = f
<1>1. Len(frames) \in Nat
  BY LenProperties
<1>2. /\ frames' \in Seq(FrameSet) /\ Len(frames') = Len(frames) + 1
      /\ \A j \in 1..Len(frames) : frames'[j] = frames[j]
      /\ frames'[Len(frames) + 1] = f
  BY AppendProperties
<1> QED
  BY <1>1, <1>2

LEMMA AskersAre ==
  ASSUME frames \in Seq(FrameSet), NEW k \in 1..Len(frames)
  PROVE  /\ Askers(k) \in SUBSET Nat /\ IsFiniteSet(Askers(k)) /\ Askers(k) \subseteq 1..Len(frames)
         /\ Askers(k) # {} => LastOf(Askers(k)) \in 1..Len(frames)
<1>1. Len(frames) \in Nat
  BY LenProperties
<1>2. \A j \in 1..(k - 1) : j \in 1..Len(frames)
  BY <1>1
<1>3. Askers(k) \in SUBSET (1..Len(frames))
  BY <1>2 DEF Askers
<1>4. IsFiniteSet(1..Len(frames)) /\ (1..Len(frames)) \subseteq Nat
  BY <1>1, FS_Interval
<1>5. IsFiniteSet(Askers(k)) /\ Askers(k) \in SUBSET Nat
  BY <1>3, <1>4, FS_Subset
<1> QED
  BY <1>3, <1>5, LastIs

LEMMA FiledStays ==
  ASSUME frames \in Seq(FrameSet), NEW f \in FrameSet, frames' = Append(frames, f), NEW qs
  PROVE  /\ \A k \in 1..Len(frames) : k \in IndexFrames(qs)' <=> k \in IndexFrames(qs)
         /\ Len(frames) + 1 \in IndexFrames(qs)' <=> Files(f, qs)
         /\ \A k \in IndexFrames(qs)' : k \in 1..Len(frames) \/ k = Len(frames) + 1
<1>0. PICK n : n = Len(frames)
  OBVIOUS
<1> DEFINE before == {j \in 1..n : Asks(j, f.id)}
<1>1. /\ n \in Nat /\ Len(frames') = n + 1
      /\ \A j \in 1..n : j \in 1..(n + 1) /\ frames'[j] = frames[j]
      /\ \A j \in 1..(n + 1) : j \in 1..n \/ j = n + 1
      /\ frames'[n + 1] = f
  BY <1>0, FrameMore
<1>2. ASSUME NEW k \in 1..n PROVE Askers(k)' = Askers(k)
  <2>1. \A j \in 1..(k - 1) : j \in 1..n
    BY <1>1
  <2> QED
    BY <1>1, <2>1 DEF Askers
<1>3. Askers(n + 1)' = before
  <2>1. (n + 1) - 1 = n
    BY <1>1
  <2> QED
    BY <1>1, <2>1 DEF Askers, Asks
<1>4. ASSUME NEW k \in 1..n PROVE k \in IndexFrames(qs)' <=> k \in IndexFrames(qs)
  <2>1. Askers(k) # {} => LastOf(Askers(k)) \in 1..n
    BY <1>0, AskersAre
  <2>2. /\ k \in 1..Len(frames) /\ k \in 1..Len(frames') /\ frames'[k] = frames[k]
        /\ Askers(k) # {} => frames'[LastOf(Askers(k))] = frames[LastOf(Askers(k))]
    BY <1>0, <1>1, <2>1
  <2>3. Askers(k)' = Askers(k)
    BY <1>2
  <2> QED
    BY <2>2, <2>3 DEF IndexFrames
<1>5. before # {} => LastOf(before) \in 1..n
  <2>0. before \in SUBSET (1..n)
    OBVIOUS
  <2>1. IsFiniteSet(1..n) /\ before \in SUBSET (1..n) /\ (1..n) \subseteq Nat
    <3>1. n \in Nat
      BY <1>1
    <3>2. IsFiniteSet(1..n) /\ (1..n) \subseteq Nat
      BY ONLY <3>1, FS_Interval
    <3> QED
      BY <2>0, <3>2
  <2> HIDE DEF before
  <2>2. IsFiniteSet(before) /\ before \in SUBSET Nat
    BY <2>1, FS_Subset
  <2>3. before # {} => LastOf(before) \in before
    BY <2>2, LastIs
  <2> QED
    BY <2>1, <2>3
<1>6. before # {} <=> \E j \in 1..n : Asks(j, f.id)
  OBVIOUS
<1>7. n + 1 \in 1..(n + 1)
  BY <1>1
<1> HIDE DEF before
<1>8. n + 1 \in IndexFrames(qs)' <=>
        /\ Kept(f) /\ f.way = "out" /\ f.id # None
        /\ before # {} /\ frames[LastOf(before)].call \in qs
  BY <1>1, <1>3, <1>5, <1>7 DEF IndexFrames
<1>9. \A k \in IndexFrames(qs)' : k \in 1..n \/ k = n + 1
  BY <1>1 DEF IndexFrames
<1> QED
  BY <1>0, <1>4, <1>6, <1>8, <1>9 DEF before, Files

LEMMA FiledAre ==
  ASSUME frames \in Seq(FrameSet), NEW qs
  PROVE  /\ IndexFrames(qs) \in SUBSET Nat /\ IsFiniteSet(IndexFrames(qs))
         /\ IndexFrames(qs) \subseteq 1..Len(frames)
         /\ \A k \in IndexFrames(qs) : Kept(frames[k]) /\ frames[k].way = "out"
         /\ \A k : k \in IndexFrames(qs) <=> \E c \in qs : k \in IndexFrames({c})
<1>1. Len(frames) \in Nat
  BY LenProperties
<1>2. /\ IndexFrames(qs) \in SUBSET (1..Len(frames))
      /\ \A k \in IndexFrames(qs) : Kept(frames[k]) /\ frames[k].way = "out"
      /\ \A k : k \in IndexFrames(qs) <=> \E c \in qs : k \in IndexFrames({c})
  BY DEF IndexFrames
<1>3. IsFiniteSet(1..Len(frames)) /\ (1..Len(frames)) \subseteq Nat
  BY <1>1, FS_Interval
<1> QED
  BY <1>2, <1>3, FS_Subset

-----------------------------------------------------------------------------
(* The books after a frame more. *)

\* What is filed for some calls is what the server said to them, in order.
LEMMA AnswersAreSaid ==
  ASSUME McpTypes, FrameBooks, NEW qs \in SUBSET Calls
  PROVE  /\ AnswersTo(qs) = Said(qs) /\ Said(qs) \in Seq(Nat)
         /\ Said(qs) = << >> <=> \A t \in truth : t[1] \notin qs
<1> DEFINE S == IndexFrames(qs)
           T == {t[2] : t \in {u \in truth : u[1] \in qs}}
<1>1. /\ frames \in Seq(FrameSet) /\ truth \subseteq Calls \X Nat
      /\ \A c \in Calls : \A k \in Nat : <<c, k>> \in truth <=> k \in IndexFrames({c})
      /\ \A k \in 1..Len(frames) : Kept(frames[k]) /\ frames[k].way = "out" => frames[k].answer = k
  BY DEF McpTypes, FrameBooks
<1>2. /\ S \in SUBSET Nat /\ IsFiniteSet(S) /\ S \subseteq 1..Len(frames)
      /\ \A k \in S : Kept(frames[k]) /\ frames[k].way = "out"
      /\ \A k : k \in S <=> \E c \in qs : k \in IndexFrames({c})
  BY <1>1, FiledAre
<1>3. \A k \in S : frames[k].answer = k
  BY <1>1, <1>2
<1>4. S = T
  <2> HIDE DEF S
  <2>1. ASSUME NEW k \in S PROVE k \in T
    <3>1. PICK c \in qs : k \in IndexFrames({c})
      BY <1>2
    <3>2. k \in Nat /\ c \in Calls
      BY <1>2
    <3>3. <<c, k>> \in truth
      BY <1>1, <3>1, <3>2
    <3> QED
      BY <3>3
  <2>2. ASSUME NEW k \in T PROVE k \in S
    <3>1. PICK u \in truth : u[1] \in qs /\ k = u[2]
      OBVIOUS
    <3>2. u = <<u[1], k>> /\ u[1] \in Calls /\ k \in Nat
      BY <1>1, <3>1
    <3>3. k \in IndexFrames({u[1]})
      BY <1>1, <3>1, <3>2
    <3> QED
      BY <1>2, <3>1, <3>3
  <2> QED
    BY <2>1, <2>2
<1>5. Said(qs) = Ascending(S)
  BY <1>4 DEF Said
<1>6. /\ Ascending(S) \in Seq(S) /\ Len(Ascending(S)) = Cardinality(S)
      /\ \A n \in 1..Len(Ascending(S)) : Ascending(S)[n] \in S
      /\ Ascending(S) = << >> <=> S = {}
  <2> HIDE DEF S
  <2> QED
    BY <1>2, AscendingIs
<1>7. AnswersTo(qs) = [n \in 1..Len(Ascending(S)) |-> frames[Ascending(S)[n]].answer]
  BY DEF AnswersTo
<1>8. S = {} <=> \A t \in truth : t[1] \notin qs
  BY <1>4
<1> HIDE DEF S, T
<1>9. Ascending(S) = [n \in 1..Len(Ascending(S)) |-> Ascending(S)[n]]
  BY <1>6
<1>10. AnswersTo(qs) = Ascending(S)
  <2>1. \A n \in 1..Len(Ascending(S)) : frames[Ascending(S)[n]].answer = Ascending(S)[n]
    BY <1>3, <1>6
  <2> QED
    BY <1>7, <1>9, <2>1
<1>11. Ascending(S) \in Seq(Nat)
  BY <1>2, <1>6
<1> QED
  BY <1>5, <1>6, <1>8, <1>10, <1>11

LEMMA FilesWhatItAnswers ==
  ASSUME frames \in Seq(FrameSet), NEW f \in FrameSet, NEW c, StandsFor(f.id, c),
         Kept(f), f.way = "out", f.id # None, NEW qs
  PROVE  Files(f, qs) <=> c \in qs
<1> DEFINE S == {j \in 1..Len(frames) : Asks(j, f.id)}
<1>1. PICK j \in S : frames[j].call = c /\ \A m \in S : m <= j
  BY DEF StandsFor
<1>2. Len(frames) \in Nat
  BY LenProperties
<1>3. IsFiniteSet(1..Len(frames)) /\ (1..Len(frames)) \subseteq Nat
  BY <1>2, FS_Interval
<1>4. S \in SUBSET (1..Len(frames))
  OBVIOUS
<1>5. Files(f, qs) <=> S # {} /\ frames[LastOf(S)].call \in qs
  BY DEF Files
<1> HIDE DEF S
<1>6. IsFiniteSet(S) /\ S \in SUBSET Nat /\ S # {}
  BY <1>1, <1>3, <1>4, FS_Subset
<1>7. LastOf(S) = j
  BY <1>1, <1>6, LastIs
<1> QED
  BY <1>1, <1>5, <1>6, <1>7

\* What a frame more must be, and what must be written of it, for the books to stand.
AskedBy(f, i) == Kept(f) /\ f.way = "in" /\ f.id = i
LEMMA RecordedMore ==
  ASSUME McpTypes, FrameBooks, NEW f \in FrameSet, frames' = Append(frames, f),
         \A i \in Id : open'[i] # NoCall =>
           \/ open'[i] = open[i] /\ ~ AskedBy(f, i)
           \/ open'[i] = f.call /\ AskedBy(f, i),
         AskedBy(f, ServerId) => f.call = NoCall,
         Kept(f) /\ f.way = "out" => f.answer = Token,
         \A c \in Calls : <<c, Token>> \in truth' <=> Files(f, {c}),
         \A c \in Calls : \A k \in Nat : k # Token => (<<c, k>> \in truth' <=> <<c, k>> \in truth)
  PROVE  FrameBooks'
<1>0. PICK n : n = Len(frames)
  OBVIOUS
<1>1. /\ n \in Nat /\ Len(frames') = n + 1 /\ Token = n + 1
      /\ \A j \in 1..n : j \in 1..(n + 1) /\ frames'[j] = frames[j]
      /\ \A j \in 1..(n + 1) : j \in 1..n \/ j = n + 1
      /\ frames'[n + 1] = f /\ n + 1 \in 1..(n + 1)
  <2>1. frames \in Seq(FrameSet)
    BY DEF McpTypes
  <2>2. /\ n \in Nat /\ Len(frames') = n + 1
        /\ \A j \in 1..n : j \in 1..(n + 1) /\ frames'[j] = frames[j]
        /\ \A j \in 1..(n + 1) : j \in 1..n \/ j = n + 1
        /\ frames'[n + 1] = f
    BY <1>0, <2>1, FrameMore
  <2> QED
    BY <1>0, <2>2 DEF Token
<1>2. /\ \A j \in 1..n : \A i : Asks(j, i)' <=> Asks(j, i)
      /\ \A i : Asks(n + 1, i)' <=> AskedBy(f, i)
  BY <1>1 DEF Asks, AskedBy
<1>3. ASSUME NEW i \in Id, open'[i] # NoCall PROVE StandsFor(i, open[i])'
  <2>0. PICK c : c = open'[i]
    OBVIOUS
  <2>1. CASE c = open[i] /\ ~ AskedBy(f, i)
    <3>1. StandsFor(i, c)
      BY <1>3, <2>0, <2>1 DEF FrameBooks
    <3>2. PICK j \in 1..n : Asks(j, i) /\ frames[j].call = c /\ \A m \in 1..n : Asks(m, i) => m <= j
      BY <1>0, <3>1 DEF StandsFor
    <3>3. j \in 1..(n + 1) /\ Asks(j, i)' /\ frames'[j].call = c
      BY <1>1, <1>2, <3>2
    <3>4. \A m \in 1..(n + 1) : Asks(m, i)' => m <= j
      BY <1>1, <1>2, <2>1, <3>2
    <3> QED
      BY <1>1, <2>0, <3>3, <3>4 DEF StandsFor
  <2>2. CASE c = f.call /\ AskedBy(f, i)
    <3>1. n + 1 \in 1..(n + 1) /\ Asks(n + 1, i)' /\ frames'[n + 1].call = c
      BY <1>1, <1>2, <2>2
    <3>2. \A m \in 1..(n + 1) : m <= n + 1
      BY <1>1
    <3> QED
      BY <1>1, <2>0, <3>1, <3>2 DEF StandsFor
  <2> QED
    BY <1>3, <2>0, <2>1, <2>2
<1>4. \A j \in 1..(n + 1) : Asks(j, ServerId)' => frames'[j].call = NoCall
  BY <1>0, <1>1, <1>2 DEF FrameBooks
<1>5. ASSUME NEW c \in Calls, NEW k \in Nat PROVE <<c, k>> \in truth' <=> k \in IndexFrames({c})'
  <2>1. frames \in Seq(FrameSet)
    BY DEF McpTypes
  <2>2. /\ \A m \in 1..n : m \in IndexFrames({c})' <=> m \in IndexFrames({c})
        /\ n + 1 \in IndexFrames({c})' <=> Files(f, {c})
        /\ \A m \in IndexFrames({c})' : m \in 1..n \/ m = n + 1
    BY <1>0, <2>1, FiledStays
  <2>3. \A m \in IndexFrames({c}) : m \in 1..n
    BY <1>0, <2>1, FiledAre
  <2>4. n + 1 \notin 1..n
    BY <1>1
  <2>5. <<c, k>> \in truth <=> k \in IndexFrames({c})
    BY DEF FrameBooks
  <2>6. CASE k = n + 1
    BY <1>1, <2>2, <2>6
  <2>7. CASE k # n + 1
    <3>1. <<c, k>> \in truth' <=> <<c, k>> \in truth
      BY <1>1, <2>7
    <3> QED
      BY <2>2, <2>3, <2>5, <2>7, <3>1
  <2> QED
    BY <2>6, <2>7
<1>6. \A k \in 1..(n + 1) : Kept(frames'[k]) /\ frames'[k].way = "out" => frames'[k].answer = k
  BY <1>0, <1>1 DEF FrameBooks
<1> QED
  BY <1>1, <1>3, <1>4, <1>5, <1>6 DEF FrameBooks

-----------------------------------------------------------------------------
(* Recording. *)

LEMMA UnaskedAnswers ==
  ASSUME Unasked
  PROVE  AnswersTheQuestion
<1>1. \A s \in Shims : Len(asked[s]) = 0
  BY DEF Unasked
<1>2. \A s \in Shims : \A j : j \notin 1..Len(asked[s])
  BY <1>1
<1> QED
  BY <1>2 DEF AnswersTheQuestion

LEMMA McpInitBooks == McpInit => McpBooks
<1> SUFFICES ASSUME McpInit PROVE McpBooks
  OBVIOUS
<1>1. /\ phase = "record" /\ frames = << >> /\ nextId = 1 /\ cut = None /\ truth = {}
      /\ open = [i \in Id |-> NoCall]
      /\ asked = [s \in Shims |-> << >>] /\ taken = [s \in Shims |-> [slot \in Slots |-> 0]]
  BY DEF McpInit
<1>2. Unasked
  BY <1>1 DEF Unasked
<1>3. McpTypes
  <2>1. frames \in Seq(FrameSet) /\ open \in [Id -> Calls \union {NoCall}]
    BY <1>1
  <2>2. << >> \in Seq(Calls \X Nat) /\ [slot \in Slots |-> 0] \in [Slots -> Nat]
    OBVIOUS
  <2>3. ReplayTypes
    BY <1>1, <2>2 DEF ReplayTypes
  <2> QED
    BY <1>1, <2>1, <2>3 DEF McpTypes
<1>4. FrameBooks
  <2>1. Len(frames) = 0
    BY <1>1
  <2>2. \A j : j \notin 1..Len(frames)
    BY <2>1
  <2>3. \A i \in Id : open[i] = NoCall
    BY <1>1
  <2> QED
    BY <1>1, <2>2, <2>3 DEF FrameBooks, IndexFrames
<1> QED
  BY <1>1, <1>2, <1>3, <1>4, UnaskedAnswers DEF McpBooks, Counted

\* While a recording goes on the replay has not begun.
LEMMA NotYetReplayed ==
  ASSUME McpBooks, phase = "record", phase' = "record", UNCHANGED replayVars
  PROVE  Counted' /\ AnswersTheQuestion' /\ ReplayTypes'
<1>1. Unasked'
  BY DEF McpBooks, Counted, Unasked, replayVars
<1>2. AnswersTheQuestion'
  <2>1. \A s \in Shims : Len(asked'[s]) = 0
    BY <1>1 DEF Unasked
  <2>2. \A s \in Shims : \A j : j \notin 1..Len(asked'[s])
    BY <2>1
  <2> QED
    BY <2>2 DEF AnswersTheQuestion
<1>3. Counted'
  BY <1>1 DEF Counted
<1>4. ReplayTypes'
  BY DEF McpBooks, McpTypes, ReplayTypes, replayVars
<1> QED
  BY <1>2, <1>3, <1>4

LEMMA FrameIsOne ==
  ASSUME NEW s \in {"own", "other"}, NEW w \in {"in", "out"}, NEW i \in Nat,
         NEW c \in Calls \union {NoCall}, NEW a \in Nat
  PROVE  /\ Frame(s, w, i, c, a) \in FrameSet
         /\ Frame(s, w, i, c, a).way = w /\ Frame(s, w, i, c, a).id = i
         /\ Frame(s, w, i, c, a).call = c /\ Frame(s, w, i, c, a).answer = a
         /\ Kept(Frame(s, w, i, c, a)) <=> s = "own" /\ (w = "in" \/ i # None)
BY DEF Frame, FrameSet, Kept

LEMMA TokenIs ==
  ASSUME McpTypes
  PROVE  /\ Token \in Nat \ {0} /\ Token \notin 1..Len(frames)
         /\ \A qs : Token \notin IndexFrames(qs)
<1>1. frames \in Seq(FrameSet)
  BY DEF McpTypes
<1>2. Len(frames) \in Nat
  BY <1>1, LenProperties
<1>3. Token \in Nat \ {0} /\ Token \notin 1..Len(frames)
  BY <1>2 DEF Token
<1> QED
  BY <1>3 DEF IndexFrames

\* A frame that answers nothing of the client's.
LEMMA RecordedUnfiled ==
  ASSUME McpBooks, phase = "record", phase' = "record", UNCHANGED replayVars,
         NEW f \in FrameSet, frames' = Append(frames, f), truth' = truth,
         \A i \in Id : open'[i] # NoCall =>
           \/ open'[i] = open[i] /\ ~ AskedBy(f, i)
           \/ open'[i] = f.call /\ AskedBy(f, i),
         AskedBy(f, ServerId) => f.call = NoCall,
         Kept(f) /\ f.way = "out" => f.answer = Token,
         \A c \in Calls : ~ Files(f, {c}),
         nextId' \in Nat \ {0}, open' \in [Id -> Calls \union {NoCall}],
         cut' \in Id \union {None}, cut' # None => open'[cut'] # NoCall
  PROVE  McpBooks'
<1>1. McpTypes /\ FrameBooks
  BY DEF McpBooks
<1>2. \A c \in Calls : <<c, Token>> \notin truth
  BY <1>1, TokenIs DEF FrameBooks
<1>3. \A c \in Calls : <<c, Token>> \in truth' <=> Files(f, {c})
  BY <1>2
<1>4. FrameBooks'
  BY <1>1, <1>3, RecordedMore
<1>5. frames' \in Seq(FrameSet)
  BY <1>1, FrameMore DEF McpTypes
<1>6. Counted' /\ AnswersTheQuestion' /\ ReplayTypes'
  BY NotYetReplayed
<1>7. McpTypes'
  BY <1>1, <1>5, <1>6 DEF McpTypes
<1> QED
  BY <1>4, <1>6, <1>7 DEF McpBooks

LEMMA InIsUnfiled ==
  ASSUME NEW f, Kept(f) => f.way = "in"
  PROVE  \A qs : ~ Files(f, qs)
BY DEF Files

LEMMA ClientAsksBooks ==
  ASSUME McpBooks, ServerId \notin Id, NEW c \in Calls, ClientAsks(c)
  PROVE  McpBooks'
<1> DEFINE f == Frame("own", "in", nextId, c, None)
<1>1. /\ phase = "record" /\ cut = None /\ nextId <= MaxId /\ frames' = Append(frames, f)
      /\ open' = [open EXCEPT ![nextId] = c] /\ nextId' = nextId + 1
      /\ phase' = phase /\ cut' = cut /\ truth' = truth /\ UNCHANGED replayVars
  BY DEF ClientAsks, Recording, Tees
<1>2. nextId \in Nat \ {0} /\ open \in [Id -> Calls \union {NoCall}]
  BY DEF McpBooks, McpTypes
<1>3. nextId \in Id
  BY <1>1, <1>2, McpAssumption DEF McpAssumption, Id
<1>4. None \in Nat /\ nextId \in Nat /\ c \in Calls \union {NoCall}
  BY <1>2 DEF None
<1>5. f \in FrameSet /\ f.way = "in" /\ f.id = nextId /\ f.call = c
  BY <1>4, FrameIsOne
<1> HIDE DEF f
<1>6. \A i : AskedBy(f, i) => i = nextId
  BY <1>5 DEF AskedBy
<1>7. \A i \in Id : open'[i] = IF i = nextId THEN c ELSE open[i]
  BY <1>1, <1>2
<1>8. AskedBy(f, nextId)
  BY <1>4, <1>5, FrameIsOne DEF AskedBy, f
<1>9. nextId' \in Nat \ {0} /\ open' \in [Id -> Calls \union {NoCall}]
  <2>1. nextId' \in Nat \ {0}
    BY <1>1, <1>2
  <2>2. open' \in [Id -> Calls \union {NoCall}]
    BY <1>1, <1>2, <1>4
  <2> QED
    BY <2>1, <2>2
<1>10. \A i \in Id : open'[i] # NoCall =>
         \/ open'[i] = open[i] /\ ~ AskedBy(f, i)
         \/ open'[i] = f.call /\ AskedBy(f, i)
  BY <1>5, <1>6, <1>7, <1>8
<1>11. ~ AskedBy(f, ServerId)
  BY <1>3, <1>6
<1>12. \A d \in Calls : ~ Files(f, {d})
  BY <1>5, InIsUnfiled
<1> QED
  BY <1>1, <1>5, <1>9, <1>10, <1>11, <1>12, RecordedUnfiled

\* What is not asked by its client leaves what is open alone.
LEMMA OthersBooks ==
  ASSUME McpBooks, phase = "record", phase' = "record", UNCHANGED <<replayVars, nextId, cut, open>>,
         NEW f \in FrameSet, frames' = Append(frames, f), truth' = truth,
         \A i \in Id : ~ AskedBy(f, i),
         AskedBy(f, ServerId) => f.call = NoCall,
         Kept(f) /\ f.way = "out" => f.answer = Token,
         \A c \in Calls : ~ Files(f, {c})
  PROVE  McpBooks'
<1>1. /\ nextId' \in Nat \ {0} /\ open' \in [Id -> Calls \union {NoCall}]
      /\ cut' \in Id \union {None} /\ (cut' # None => open'[cut'] # NoCall)
  BY DEF McpBooks, McpTypes
<1>2. \A i \in Id : open'[i] # NoCall =>
        \/ open'[i] = open[i] /\ ~ AskedBy(f, i)
        \/ open'[i] = f.call /\ AskedBy(f, i)
  OBVIOUS
<1>3. UNCHANGED replayVars
  OBVIOUS
<1> QED
  BY <1>1, <1>2, <1>3, RecordedUnfiled

LEMMA ClientNotifiesBooks ==
  ASSUME McpBooks, NEW c \in Calls, ClientNotifies(c)
  PROVE  McpBooks'
<1> DEFINE f == Frame("own", "in", None, c, None)
<1>1. /\ phase = "record" /\ frames' = Append(frames, f)
      /\ phase' = phase /\ truth' = truth /\ UNCHANGED <<replayVars, nextId, cut, open>>
  BY DEF ClientNotifies, Recording, Tees
<1>2. None \in Nat /\ c \in Calls \union {NoCall}
  BY DEF None
<1>3. f \in FrameSet /\ f.way = "in" /\ f.id = None
  BY <1>2, FrameIsOne
<1> HIDE DEF f
<1>4. \A i : AskedBy(f, i) => i = None
  BY <1>3 DEF AskedBy
<1>5. (\A i \in Id : ~ AskedBy(f, i)) /\ ~ AskedBy(f, ServerId)
  BY <1>4, McpConstants
<1>6. \A d \in Calls : ~ Files(f, {d})
  BY <1>3, InIsUnfiled
<1> QED
  BY <1>1, <1>3, <1>5, <1>6, OthersBooks

LEMMA ClientAnswersBooks ==
  ASSUME McpBooks, ServerId \notin Id, ClientAnswers
  PROVE  McpBooks'
<1> DEFINE f == Frame("own", "in", ServerId, NoCall, None)
<1>1. /\ phase = "record" /\ frames' = Append(frames, f)
      /\ phase' = phase /\ truth' = truth /\ UNCHANGED <<replayVars, nextId, cut, open>>
  BY DEF ClientAnswers, Recording, Tees
<1>2. None \in Nat /\ ServerId \in Nat
  BY McpConstants DEF None
<1>3. f \in FrameSet /\ f.way = "in" /\ f.id = ServerId /\ f.call = NoCall
  BY <1>2, FrameIsOne
<1> HIDE DEF f
<1>4. \A i : AskedBy(f, i) => i = ServerId
  BY <1>3 DEF AskedBy
<1>5. \A i \in Id : ~ AskedBy(f, i)
  BY <1>4
<1>6. \A d \in Calls : ~ Files(f, {d})
  BY <1>3, InIsUnfiled
<1> QED
  BY <1>1, <1>3, <1>5, <1>6, OthersBooks

\* The frame of the server's own request is filed under nothing: only the client's answers
\* to it have its id, and they ask nothing.
LEMMA ServerAsksBooks ==
  ASSUME McpBooks, ServerAsks
  PROVE  McpBooks'
<1> DEFINE f == Frame("own", "out", ServerId, NoCall, Token)
<1>1. /\ phase = "record" /\ frames' = Append(frames, f)
      /\ phase' = phase /\ truth' = truth /\ UNCHANGED <<replayVars, nextId, cut, open>>
  BY DEF ServerAsks, Recording, Tees
<1>2. ServerId \in Nat /\ Token \in Nat /\ McpTypes /\ FrameBooks
  BY McpConstants, TokenIs DEF McpBooks
<1>3. f \in FrameSet /\ f.way = "out" /\ f.id = ServerId /\ f.answer = Token
  <2>1. f \in FrameSet
    BY <1>2 DEF Frame, FrameSet
  <2>2. f.way = "out" /\ f.id = ServerId /\ f.answer = Token
    BY DEF Frame
  <2> QED
    BY <2>1, <2>2
<1> HIDE DEF f
<1>4. \A i : ~ AskedBy(f, i)
  BY <1>3 DEF AskedBy
<1>5. ASSUME NEW d \in Calls PROVE ~ Files(f, {d})
  <2> SUFFICES ASSUME Files(f, {d}) PROVE FALSE
    OBVIOUS
  <2> DEFINE S == {j \in 1..Len(frames) : Asks(j, ServerId)}
  <2>1. S # {} /\ frames[LastOf(S)].call = d
    BY <1>3 DEF Files
  <2>2. \A j \in S : frames[j].call = NoCall
    BY <1>2 DEF FrameBooks
  <2>3. S \in SUBSET (1..Len(frames))
    OBVIOUS
  <2>4. frames \in Seq(FrameSet)
    BY <1>2 DEF McpTypes
  <2>5. Len(frames) \in Nat
    BY <2>4, LenProperties
  <2>6. IsFiniteSet(1..Len(frames)) /\ (1..Len(frames)) \subseteq Nat
    BY <2>5, FS_Interval
  <2> HIDE DEF S
  <2>7. IsFiniteSet(S) /\ S \in SUBSET Nat
    BY <2>3, <2>6, FS_Subset
  <2>8. LastOf(S) \in S
    BY <2>1, <2>7, LastIs
  <2> QED
    BY <2>1, <2>2, <2>8, McpConstants
<1> QED
  BY <1>1, <1>3, <1>4, <1>5, OthersBooks

LEMMA OtherAskedBooks ==
  ASSUME McpBooks, NEW c \in Calls, OtherAsked(c, 1)
  PROVE  McpBooks'
<1> DEFINE f == Frame("other", "in", 1, c, None)
<1>1. /\ phase = "record" /\ frames' = Append(frames, f)
      /\ phase' = phase /\ truth' = truth /\ UNCHANGED <<replayVars, nextId, cut, open>>
  BY DEF OtherAsked, Tees
<1>2. None \in Nat /\ c \in Calls \union {NoCall}
  BY DEF None
<1>3. f \in FrameSet /\ ~ Kept(f)
  BY <1>2, FrameIsOne
<1> HIDE DEF f
<1>4. \A i : ~ AskedBy(f, i)
  BY <1>3 DEF AskedBy
<1>5. \A d \in Calls : ~ Files(f, {d})
  BY <1>3, InIsUnfiled
<1> QED
  BY <1>1, <1>3, <1>4, <1>5, OthersBooks

LEMMA OtherAnsweredBooks ==
  ASSUME McpBooks, OtherAnswered(1)
  PROVE  McpBooks'
<1> DEFINE f == Frame("other", "out", 1, NoCall, Token)
<1>1. /\ phase = "record" /\ frames' = Append(frames, f)
      /\ phase' = phase /\ truth' = truth /\ UNCHANGED <<replayVars, nextId, cut, open>>
  BY DEF OtherAnswered, Tees
<1>2. Token \in Nat
  BY TokenIs DEF McpBooks
<1>3. f \in FrameSet /\ ~ Kept(f)
  BY <1>2, FrameIsOne
<1> HIDE DEF f
<1>4. \A i : ~ AskedBy(f, i)
  BY <1>3 DEF AskedBy
<1>5. \A d \in Calls : ~ Files(f, {d})
  BY <1>3, InIsUnfiled
<1> QED
  BY <1>1, <1>3, <1>4, <1>5, OthersBooks

\* The server's answer to what is open is filed under what is open.
LEMMA AnsweredBooks ==
  ASSUME McpBooks, phase = "record", phase' = "record", UNCHANGED <<replayVars, nextId>>,
         NEW i \in Id, open[i] # NoCall,
         frames' = Append(frames, Frame("own", "out", i, NoCall, Token)),
         truth' = truth \union {<<open[i], Token>>},
         open' = [open EXCEPT ![i] = NoCall], cut' = None
  PROVE  McpBooks'
<1> DEFINE f == Frame("own", "out", i, NoCall, Token)
<1>1. McpTypes /\ FrameBooks /\ Token \in Nat /\ i \in Nat /\ i # None
  BY McpConstants, TokenIs DEF McpBooks
<1>2. f \in FrameSet /\ f.way = "out" /\ f.id = i /\ f.answer = Token /\ Kept(f)
  BY <1>1, FrameIsOne
<1>3. frames' = Append(frames, f)
  OBVIOUS
<1> HIDE DEF f
<1>4. PICK c : c = open[i]
  OBVIOUS
<1>5. c \in Calls /\ open' \in [Id -> Calls \union {NoCall}] /\ StandsFor(i, c)
  BY <1>1, <1>4 DEF McpTypes, FrameBooks
<1>6. \A j \in Id : open'[j] # NoCall => open'[j] = open[j]
  BY <1>1 DEF McpTypes
<1>7. \A j : ~ AskedBy(f, j)
  BY <1>2 DEF AskedBy
<1>8. ASSUME NEW d \in Calls PROVE <<d, Token>> \in truth' <=> Files(f, {d})
  <2>1. frames \in Seq(FrameSet)
    BY <1>1 DEF McpTypes
  <2>2. Files(f, {d}) <=> c \in {d}
    BY <1>1, <1>2, <1>5, <2>1, FilesWhatItAnswers
  <2>3. <<d, Token>> \notin truth
    BY <1>1, TokenIs DEF FrameBooks
  <2>4. <<d, Token>> \in truth' <=> d = c
    BY <1>4, <2>3
  <2> QED
    BY <2>2, <2>4
<1>9. \A d \in Calls : \A k \in Nat : k # Token => (<<d, k>> \in truth' <=> <<d, k>> \in truth)
  OBVIOUS
<1>10. FrameBooks'
  BY <1>1, <1>2, <1>3, <1>6, <1>7, <1>8, <1>9, RecordedMore
<1>11. frames' \in Seq(FrameSet)
  BY <1>1, <1>2, <1>3, FrameMore DEF McpTypes
<1>12. Counted' /\ AnswersTheQuestion' /\ ReplayTypes'
  <2>1. UNCHANGED replayVars
    OBVIOUS
  <2> QED
    BY <2>1, NotYetReplayed
<1>13. truth' \subseteq Calls \X Nat
  BY <1>1, <1>4, <1>5 DEF McpTypes
<1>14. McpTypes'
  BY <1>1, <1>5, <1>11, <1>12, <1>13 DEF McpTypes
<1> QED
  BY <1>10, <1>12, <1>14 DEF McpBooks

LEMMA ServerAnswersBooks ==
  ASSUME McpBooks, NEW i \in Id, ServerAnswers(i)
  PROVE  McpBooks'
<1>1. /\ phase = "record" /\ phase' = "record" /\ cut' = None /\ open[i] # NoCall
      /\ frames' = Append(frames, Frame("own", "out", i, NoCall, Token))
      /\ truth' = truth \union {<<open[i], Token>>} /\ open' = [open EXCEPT ![i] = NoCall]
      /\ UNCHANGED <<replayVars, nextId>>
  BY DEF ServerAnswers, Recording, Tees
<1> QED
  BY <1>1, AnsweredBooks

LEMMA ServerCompletesBooks ==
  ASSUME McpBooks, ServerCompletes
  PROVE  McpBooks'
<1>1. PICK i : i = cut
  OBVIOUS
<1>2. /\ phase = "record" /\ phase' = "record" /\ cut' = None /\ i # None
      /\ frames' = Append(frames, Frame("own", "out", i, NoCall, Token))
      /\ truth' = truth \union {<<open[i], Token>>} /\ open' = [open EXCEPT ![i] = NoCall]
      /\ UNCHANGED <<replayVars, nextId>>
  BY <1>1 DEF ServerCompletes, Tees
<1>3. i \in Id /\ open[i] # NoCall
  BY <1>1, <1>2 DEF McpBooks, McpTypes
<1> QED
  BY <1>2, <1>3, AnsweredBooks

\* What a step leaves of the books when the frames stay as they are.
LEMMA FramesUnchanged ==
  ASSUME McpBooks, frames' = frames, truth' = truth,
         \A i \in Id : open'[i] # NoCall => open'[i] = open[i]
  PROVE  FrameBooks' /\ \A qs : IndexFrames(qs)' = IndexFrames(qs)
<1>1. FrameBooks
  BY DEF McpBooks
<1>2. /\ \A qs : IndexFrames(qs)' = IndexFrames(qs)
      /\ \A j, i : Asks(j, i)' <=> Asks(j, i)
  BY DEF IndexFrames, Askers, Asks
<1>3. \A i, c : StandsFor(i, c)' <=> StandsFor(i, c)
  BY <1>2 DEF StandsFor
<1>4. \A i \in Id : open'[i] # NoCall => StandsFor(i, open[i])'
  BY <1>1, <1>3 DEF FrameBooks
<1>5. \A c \in Calls : \A k \in Nat : <<c, k>> \in truth' <=> k \in IndexFrames({c})'
  BY <1>1, <1>2 DEF FrameBooks
<1> QED
  BY <1>1, <1>2, <1>4, <1>5 DEF FrameBooks

LEMMA ServerBeginsBooks ==
  ASSUME McpBooks, NEW i \in Id, ServerBegins(i)
  PROVE  McpBooks'
<1>1. /\ phase = "record" /\ phase' = "record" /\ cut' = i /\ open[i] # NoCall
      /\ frames' = frames /\ truth' = truth /\ open' = open /\ nextId' = nextId
      /\ UNCHANGED replayVars
  BY DEF ServerBegins, Recording
<1>2. FrameBooks'
  BY <1>1, FramesUnchanged
<1>3. Counted' /\ AnswersTheQuestion' /\ ReplayTypes'
  BY <1>1, NotYetReplayed
<1>4. McpTypes'
  BY <1>1, <1>3 DEF McpBooks, McpTypes
<1> QED
  BY <1>2, <1>3, <1>4 DEF McpBooks

LEMMA SessionEndsBooks ==
  ASSUME McpBooks, SessionEnds
  PROVE  McpBooks'
<1> DEFINE f == Frame("own", "out", None, NoCall, None)
<1>1. /\ phase = "record" /\ phase' = "record" /\ cut' = None /\ nextId' = 1 /\ truth' = truth
      /\ open' = [i \in Id |-> NoCall] /\ UNCHANGED replayVars
      /\ frames' = frames \/ frames' = Append(frames, f)
  BY DEF SessionEnds, Tees
<1>2. open' \in [Id -> Calls \union {NoCall}] /\ \A i \in Id : open'[i] = NoCall
  BY <1>1
<1>3. CASE frames' = frames
  <2>1. FrameBooks'
    BY <1>1, <1>2, <1>3, FramesUnchanged
  <2>2. Counted' /\ AnswersTheQuestion' /\ ReplayTypes'
    BY <1>1, NotYetReplayed
  <2>3. McpTypes'
    BY <1>1, <1>2, <1>3, <2>2 DEF McpBooks, McpTypes
  <2> QED
    BY <2>1, <2>2, <2>3 DEF McpBooks
<1>4. CASE frames' = Append(frames, f)
  <2>1. None \in Nat
    BY DEF None
  <2>2. f \in FrameSet /\ f.way = "out" /\ f.id = None /\ ~ Kept(f)
    BY <2>1, FrameIsOne
  <2> HIDE DEF f
  <2>3. \A i : ~ AskedBy(f, i)
    BY <2>2 DEF AskedBy
  <2>4. \A d \in Calls : ~ Files(f, {d})
    BY <2>2, InIsUnfiled
  <2>5. nextId' \in Nat \ {0} /\ cut' \in Id \union {None} /\ (cut' # None => open'[cut'] # NoCall)
    BY <1>1
  <2> QED
    BY <1>1, <1>2, <1>4, <2>2, <2>3, <2>4, <2>5, RecordedUnfiled
<1> QED
  BY <1>1, <1>3, <1>4

-----------------------------------------------------------------------------
(* Replaying. *)

LEMMA ReplayBeginsBooks ==
  ASSUME McpBooks, ReplayBegins
  PROVE  McpBooks'
<1>1. /\ phase = "record" /\ phase' = "replay" /\ frames' = frames /\ truth' = truth
      /\ nextId' = 1 /\ open' = [i \in Id |-> NoCall] /\ cut' = None
      /\ asked' = asked /\ taken' = taken
  BY DEF ReplayBegins, replayVars
<1>2. open' \in [Id -> Calls \union {NoCall}] /\ \A i \in Id : open'[i] = NoCall
  BY <1>1
<1>3. FrameBooks'
  BY <1>1, <1>2, FramesUnchanged
<1>4. McpTypes'
  BY <1>1, <1>2 DEF McpBooks, McpTypes, ReplayTypes
<1>5. Unasked'
  BY <1>1 DEF McpBooks, Counted, Unasked
<1>6. \A s \in Shims : Len(asked'[s]) = 0
  BY <1>5 DEF Unasked
<1>7. \A q, qs : Before(q, 0, qs) = 0
  <2>1. \A q, qs : {k \in 1..0 : q[k][1] \in qs} = {}
    OBVIOUS
  <2> QED
    BY <2>1, FS_EmptySet DEF Before
<1>8. Counted'
  <2>1. /\ \A c \in Calls : <<"call", c>> \in Slots
        /\ \A m \in Methods : <<"method", m>> \in Slots
    BY DEF Slots
  <2>2. ASSUME NEW s \in Shims PROVE CountsOf(s, asked[s])'
    <3>1. Len(asked'[s]) = 0 /\ \A slot \in Slots : taken'[s][slot] = 0
      BY <1>5, <1>6 DEF Unasked
    <3>2. \A c \in Calls : taken'[s][<<"call", c>>] = Before(asked'[s], Len(asked'[s]), {c})
      BY <1>7, <2>1, <3>1
    <3>3. \A m \in Methods :
            taken'[s][<<"method", m>>] = Before(asked'[s], Len(asked'[s]), Unheard(m)')
      BY <1>7, <2>1, <3>1
    <3> QED
      BY <3>2, <3>3 DEF CountsOf
  <2> QED
    BY <1>1, <2>2 DEF Counted
<1>9. AnswersTheQuestion'
  <2>1. \A s \in Shims : \A j : j \notin 1..Len(asked'[s])
    BY <1>6
  <2> QED
    BY <2>1 DEF AnswersTheQuestion
<1> QED
  BY <1>3, <1>4, <1>8, <1>9 DEF McpBooks

\* One request more: it counts where its call is asked for, and nothing else changes.
OneMore(q, r, p) ==
  /\ Len(q) \in Nat /\ Len(p) = Len(q) + 1 /\ p \in Seq(Calls \X Nat)
  /\ p[Len(q) + 1] = r
  /\ \A j \in 1..Len(q) : p[j] = q[j]
  /\ \A n \in 0..Len(q) : \A qs : Before(p, n, qs) = Before(q, n, qs)
  /\ \A qs : /\ Before(q, Len(q), qs) \in Nat
             /\ Before(p, Len(p), qs) = Before(q, Len(q), qs) + (IF r[1] \in qs THEN 1 ELSE 0)
LEMMA AskedMore ==
  ASSUME NEW q \in Seq(Calls \X Nat), NEW r \in Calls \X Nat
  PROVE  OneMore(q, r, Append(q, r))
<1> DEFINE p == Append(q, r)
<1>0. PICK n : n = Len(q)
  OBVIOUS
<1>1. /\ n \in Nat /\ Len(p) = n + 1 /\ p \in Seq(Calls \X Nat)
      /\ p[n + 1] = r /\ \A j \in 1..n : p[j] = q[j]
  BY <1>0, LenProperties, AppendProperties
<1> HIDE DEF p
<1>2. ASSUME NEW m \in 0..n, NEW qs PROVE Before(p, m, qs) = Before(q, m, qs)
  <2>1. \A k \in 1..m : k \in 1..n
    BY <1>1
  <2>2. \A k \in 1..m : p[k] = q[k]
    BY <1>1, <2>1
  <2>3. {k \in 1..m : p[k][1] \in qs} = {k \in 1..m : q[k][1] \in qs}
    BY <2>2
  <2> QED
    BY <2>3 DEF Before
<1>3. ASSUME NEW qs
      PROVE  /\ Before(q, n, qs) \in Nat
             /\ Before(p, n + 1, qs) = Before(q, n, qs) + (IF r[1] \in qs THEN 1 ELSE 0)
  <2> DEFINE B == {k \in 1..n : q[k][1] \in qs}
             C == {k \in 1..(n + 1) : p[k][1] \in qs}
  <2>1. n + 1 \in 1..(n + 1) /\ n + 1 \notin 1..n /\ \A k \in 1..(n + 1) : k \in 1..n \/ k = n + 1
    BY <1>1
  <2>2. \A k \in 1..n : k \in 1..(n + 1) /\ p[k] = q[k]
    BY <1>1
  <2>3. C = IF r[1] \in qs THEN B \union {n + 1} ELSE B
    BY <1>1, <2>1, <2>2
  <2>4. B \in SUBSET (1..n) /\ n + 1 \notin B
    BY <2>1
  <2>5. IsFiniteSet(1..n)
    BY <1>1, FS_Interval
  <2>6. Before(q, n, qs) = Cardinality(B) /\ Before(p, n + 1, qs) = Cardinality(C)
    BY DEF Before
  <2> HIDE DEF B, C
  <2>7. IsFiniteSet(B)
    BY <2>4, <2>5, FS_Subset
  <2>8. Cardinality(B) \in Nat /\ Cardinality(B \union {n + 1}) = Cardinality(B) + 1
    BY <2>4, <2>7, FS_AddElement, FS_CardinalityType
  <2> QED
    BY <2>3, <2>6, <2>8
<1>4. OneMore(q, r, p)
  BY <1>0, <1>1, <1>2, <1>3 DEF OneMore
<1> QED
  BY <1>4 DEF p

\* Truth is what it was, so what the server said is too.
LEMMA SaidStays ==
  ASSUME truth' = truth
  PROVE  /\ \A qs : Said(qs)' = Said(qs)
         /\ \A m : Unheard(m)' = Unheard(m)
<1>1. \A qs : Said(qs)' = Said(qs)
  BY DEF Said
<1> QED
  BY <1>1 DEF Unheard

LEMMA NthIsOne ==
  ASSUME NEW s \in Seq(Nat), s # << >>, NEW n \in Nat
  PROVE  Nth(s, n) \in Nat
<1>1. Len(s) \in Nat /\ Len(s) # 0
  BY LenProperties, EmptySeq
<1>2. (IF n < Len(s) THEN n + 1 ELSE Len(s)) \in 1..Len(s)
  BY <1>1
<1> QED
  BY <1>2, ElementOfSeq DEF Nth

\* What a request of d is owed, n having asked it before and m something unheard.
Reply(d, n, m) ==
  IF Said({d}) # << >> THEN Nth(Said({d}), n)
  ELSE IF Said(OfMethod(d.method)) # << >> THEN Nth(Said(OfMethod(d.method)), m) ELSE None
Replies(q) ==
  \A j \in 1..Len(q) :
    q[j][2] = Reply(q[j][1], Before(q, j - 1, {q[j][1]}), Before(q, j - 1, Unheard(q[j][1].method)))
LEMMA AnswersTheQuestionIs ==
  AnswersTheQuestion <=> \A s \in Shims : Replies(asked[s])
BY DEF AnswersTheQuestion, Replies, Reply, Before, Unheard

\* Of one shim's requests, one more: its reply is the one its slot gives.
LEMMA OneReplyMore ==
  ASSUME NEW q \in Seq(Calls \X Nat), NEW c \in Calls, NEW given \in Nat, NEW p,
         p = Append(q, <<c, given>>), Replies(q),
         given = Reply(c, Before(q, Len(q), {c}), Before(q, Len(q), Unheard(c.method)))
  PROVE  Replies(p)
<1>1. PICK n : n = Len(q)
  OBVIOUS
<1>2. /\ n \in Nat /\ Len(p) = n + 1 /\ p[n + 1] = <<c, given>>
      /\ \A j \in 1..n : p[j] = q[j]
      /\ \A m \in 0..n : \A qs : Before(p, m, qs) = Before(q, m, qs)
  <2>1. PICK r : r = <<c, given>>
    OBVIOUS
  <2>2. r \in Calls \X Nat /\ p = Append(q, r)
    BY <2>1
  <2>3. OneMore(q, r, Append(q, r))
    BY <2>2, AskedMore
  <2>4. OneMore(q, r, p)
    BY <2>2, <2>3
  <2> QED
    BY <1>1, <2>1, <2>4 DEF OneMore
<1>3. ASSUME NEW j \in 1..n
      PROVE  p[j][2] = Reply(p[j][1], Before(p, j - 1, {p[j][1]}),
                             Before(p, j - 1, Unheard(p[j][1].method)))
  <2>1. j - 1 \in 0..n /\ p[j] = q[j]
    BY <1>2
  <2>2. q[j][2] = Reply(q[j][1], Before(q, j - 1, {q[j][1]}),
                        Before(q, j - 1, Unheard(q[j][1].method)))
    BY <1>1 DEF Replies
  <2> QED
    BY <1>2, <2>1, <2>2
<1>4. p[n + 1][2] = Reply(p[n + 1][1], Before(p, (n + 1) - 1, {p[n + 1][1]}),
                          Before(p, (n + 1) - 1, Unheard(p[n + 1][1].method)))
  <2>1. (n + 1) - 1 = n /\ n \in 0..n /\ p[n + 1][1] = c /\ p[n + 1][2] = given
    BY <1>2
  <2>2. \A qs : Before(p, n, qs) = Before(q, n, qs)
    BY <1>2, <2>1
  <2>3. given = Reply(c, Before(p, n, {c}), Before(p, n, Unheard(c.method)))
    BY <1>1, <2>2
  <2> QED
    BY <2>1, <2>3
<1>5. \A j \in 1..Len(p) : j \in 1..n \/ j = n + 1
  BY <1>2
<1> QED
  BY <1>3, <1>4, <1>5 DEF Replies

LEMMA RequestBooks ==
  ASSUME McpBooks, NEW s \in Shims, NEW c \in Calls, Request(s, c)
  PROVE  McpBooks'
<1> DEFINE exact == Said({c})
           loose == Said(OfMethod(c.method))
           slot == IF exact # << >> THEN <<"call", c>> ELSE <<"method", c.method>>
           bucket == IF exact # << >> THEN exact ELSE loose
           given == IF bucket = << >> THEN None ELSE Nth(bucket, taken[s][slot])
           q == asked[s]
           p == Append(asked[s], <<c, given>>)
<1>1. McpTypes /\ FrameBooks /\ Counted /\ AnswersTheQuestion
  BY DEF McpBooks
<1>2. OfMethod(c.method) \in SUBSET Calls /\ {c} \in SUBSET Calls /\ c.method \in Methods
  BY DEF OfMethod, Methods
<1>3. /\ AnswersTo({c}) = Said({c}) /\ exact \in Seq(Nat)
      /\ AnswersTo(OfMethod(c.method)) = Said(OfMethod(c.method)) /\ loose \in Seq(Nat)
  BY <1>1, <1>2, AnswersAreSaid
<1>4. /\ phase = "replay" /\ phase' = "replay" /\ frames' = frames /\ truth' = truth
      /\ nextId' = nextId /\ open' = open /\ cut' = cut
      /\ asked' = [asked EXCEPT ![s] = p]
      /\ taken' = [taken EXCEPT ![s][slot] = @ + 1]
  BY <1>3 DEF Request, Counts
<1>5. /\ slot \in Slots /\ taken \in [Shims -> [Slots -> Nat]] /\ q \in Seq(Calls \X Nat)
      /\ asked \in [Shims -> Seq(Calls \X Nat)]
  BY <1>1, <1>2 DEF Slots, McpTypes, ReplayTypes
<1> HIDE DEF exact, loose, slot
<1>6. given \in Nat
  <2>1. bucket \in Seq(Nat) /\ taken[s][slot] \in Nat
    BY <1>3, <1>5
  <2> HIDE DEF bucket
  <2> QED
    BY <2>1, NthIsOne DEF None
<1> HIDE DEF given, bucket
<1>7. <<c, given>> \in Calls \X Nat /\ <<c, given>>[1] = c
  BY <1>6
<1>8. asked'[s] = p /\ \A t \in Shims : t # s => asked'[t] = asked[t]
  BY <1>4, <1>5
<1>9. /\ p \in Seq(Calls \X Nat)
      /\ \A qs : /\ Before(q, Len(q), qs) \in Nat
                 /\ Before(p, Len(p), qs) = Before(q, Len(q), qs) + (IF c \in qs THEN 1 ELSE 0)
  <2>1. PICK r : r = <<c, given>>
    OBVIOUS
  <2>2. r \in Calls \X Nat /\ r[1] = c /\ p = Append(q, r) /\ q \in Seq(Calls \X Nat)
    BY <1>5, <1>7, <2>1
  <2> HIDE DEF p, q
  <2>3. OneMore(q, r, Append(q, r))
    BY <2>2, AskedMore
  <2>4. OneMore(q, r, p)
    BY <2>2, <2>3
  <2> QED
    BY <2>2, <2>4 DEF OneMore
<1> HIDE DEF p, q
<1>10. /\ \A qs : Said(qs)' = Said(qs)
       /\ \A m : Unheard(m)' = Unheard(m)
  BY <1>4, SaidStays
<1>11. FrameBooks'
  <2>1. \A i \in Id : open'[i] # NoCall => open'[i] = open[i]
    BY <1>4
  <2> QED
    BY <1>4, <2>1, FramesUnchanged
<1>12. /\ taken' \in [Shims -> [Slots -> Nat]]
       /\ \A t \in Shims : t # s => taken'[t] = taken[t]
       /\ \A x \in Slots : taken'[s][x] = taken[s][x] + (IF x = slot THEN 1 ELSE 0)
  <2>1. taken' = [taken EXCEPT ![s] = [taken[s] EXCEPT ![slot] = taken[s][slot] + 1]]
    BY <1>4
  <2>2. [taken[s] EXCEPT ![slot] = taken[s][slot] + 1] \in [Slots -> Nat]
    BY <1>5
  <2>3. \A x \in Slots : taken'[s][x] = IF x = slot THEN taken[s][x] + 1 ELSE taken[s][x]
    BY <1>5, <2>1
  <2>4. \A x \in Slots : taken[s][x] \in Nat
    BY <1>5
  <2> QED
    BY <1>5, <2>1, <2>2, <2>3, <2>4
<1>13. McpTypes'
  <2>1. asked' \in [Shims -> Seq(Calls \X Nat)]
    BY <1>4, <1>5, <1>9
  <2> QED
    BY <1>1, <1>4, <1>12, <2>1 DEF McpTypes, ReplayTypes
<1>14. \A t \in Shims : CountsOf(t, asked[t])
  BY <1>1, <1>4 DEF Counted
<1>15. CountsOf(s, q)
  BY <1>14 DEF q
<1>16. ASSUME NEW d \in Calls, Said({d}) # << >>
       PROVE  taken'[s][<<"call", d>>] = Before(p, Len(p), {d})
  <2>1. <<"call", d>> \in Slots /\ (<<"call", d>> = slot <=> d = c)
    BY <1>16 DEF Slots, slot, exact
  <2>2. taken[s][<<"call", d>>] = Before(q, Len(q), {d})
    BY <1>15, <1>16 DEF CountsOf
  <2>3. taken'[s][<<"call", d>>] = Before(q, Len(q), {d}) + (IF d = c THEN 1 ELSE 0)
    BY <1>12, <2>1, <2>2
  <2>4. c \in {d} <=> d = c
    OBVIOUS
  <2> QED
    BY <1>9, <2>3, <2>4
<1>17. ASSUME NEW m \in Methods
       PROVE  taken'[s][<<"method", m>>] = Before(p, Len(p), Unheard(m))
  <2>1. <<"method", m>> \in Slots /\ (<<"method", m>> = slot <=> c \in Unheard(m))
    BY DEF Slots, slot, exact, Unheard, OfMethod
  <2>2. taken[s][<<"method", m>>] = Before(q, Len(q), Unheard(m))
    BY <1>15 DEF CountsOf
  <2>3. taken'[s][<<"method", m>>] =
          Before(q, Len(q), Unheard(m)) + (IF c \in Unheard(m) THEN 1 ELSE 0)
    BY <1>12, <2>1, <2>2
  <2> QED
    BY <1>9, <2>3
<1>18. Counted'
  <2>1. ASSUME NEW t \in Shims PROVE CountsOf(t, asked[t])'
    <3>1. CASE t = s
      BY <1>8, <1>10, <1>16, <1>17, <3>1 DEF CountsOf
    <3>2. CASE t # s
      <4>1. asked'[t] = asked[t] /\ taken'[t] = taken[t]
        BY <1>8, <1>12, <3>2
      <4> QED
        BY <1>10, <1>14, <4>1 DEF CountsOf
    <3> QED
      BY <3>1, <3>2
  <2> QED
    BY <1>4, <2>1 DEF Counted
<1>19. AnswersTheQuestion'
  <2>1. \A t \in Shims : Replies(asked[t])
    BY <1>1, AnswersTheQuestionIs
  <2>2. given = Reply(c, Before(q, Len(q), {c}), Before(q, Len(q), Unheard(c.method)))
    BY <1>2, <1>15 DEF CountsOf, Reply, given, bucket, slot, exact, loose
  <2>3. Replies(p)
    <3>1. q \in Seq(Calls \X Nat) /\ p = Append(q, <<c, given>>) /\ Replies(q)
      BY <1>5, <2>1 DEF p, q
    <3> QED
      BY <1>6, <2>2, <3>1, OneReplyMore
  <2>4. \A t \in Shims : Replies(asked'[t])
    BY <1>8, <2>1, <2>3
  <2>5. \A t \in Shims : Replies(asked[t])'
    BY <1>10, <2>4 DEF Replies, Reply
  <2> QED
    BY <2>5 DEF AnswersTheQuestion, Replies, Reply, Before, Unheard
<1> QED
  BY <1>11, <1>13, <1>18, <1>19 DEF McpBooks

LEMMA McpNextBooks ==
  ASSUME McpBooks, ServerId \notin Id, [McpNext]_mcpVars
  PROVE  McpBooks'
<1>1. CASE McpNext
  BY <1>1, ClientAsksBooks, ClientNotifiesBooks, RequestBooks, ServerAnswersBooks, ServerBeginsBooks,
     OtherAskedBooks, OtherAnsweredBooks, ServerCompletesBooks, SessionEndsBooks, ServerAsksBooks,
     ClientAnswersBooks, ReplayBeginsBooks DEF McpNext
<1>2. CASE UNCHANGED mcpVars
  <2>1. /\ phase' = phase /\ frames' = frames /\ nextId' = nextId /\ open' = open /\ cut' = cut
        /\ truth' = truth /\ taken' = taken /\ asked' = asked
    BY <1>2 DEF mcpVars
  <2>2. FrameBooks'
    BY <2>1, FramesUnchanged
  <2>3. McpTypes'
    BY <2>1 DEF McpBooks, McpTypes, ReplayTypes
  <2>4. (\A qs : Said(qs)' = Said(qs)) /\ \A m : Unheard(m)' = Unheard(m)
    BY <2>1, SaidStays
  <2>5. Unasked' <=> Unasked
    BY <2>1 DEF Unasked
  <2>6. Counted'
    BY <2>1, <2>4, <2>5 DEF McpBooks, Counted, CountsOf
  <2>7. AnswersTheQuestion'
    BY <2>1, <2>4 DEF McpBooks, AnswersTheQuestion
  <2> QED
    BY <2>2, <2>3, <2>6, <2>7 DEF McpBooks
<1> QED
  BY <1>1, <1>2

\* Whatever the recording holds of sessions, cut answers and other servers, each session
\* of a replay is answered with what the server said to its questions, in the order it
\* said it and from the first answer on, as long as no id the server asks under is one of
\* its client's (indexFrames, runMock): with one that is, the run mcp_serverasks shows a
\* replay that answers another question.
THEOREM AnswersInOrder ==
  ASSUME ServerId \notin Id
  PROVE  McpSpec => []AnswersTheQuestion
<1>1. McpBooks /\ [McpNext]_mcpVars => McpBooks'
  BY McpNextBooks
<1>2. McpBooks => AnswersTheQuestion
  BY DEF McpBooks
<1> QED
  BY <1>1, <1>2, McpInitBooks, PTL DEF McpSpec

=============================================================================
