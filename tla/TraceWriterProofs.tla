-------------------------- MODULE TraceWriterProofs --------------------------
(***************************************************************************)
(* What TraceWriter guarantees for every set of events and any number of   *)
(* calls: the log is dense and in call order, holds what resolved and      *)
(* nothing that was rejected, never runs ahead of its blobs, is what the   *)
(* sealed manifest describes, and implements TraceLog.                     *)
(*                                                                         *)
(* And what Transports guarantees for every number of recordings, shell    *)
(* commands, graph nodes, days and faults: a transport is there as long as *)
(* its recording needs it, and no longer.                                  *)
(***************************************************************************)
EXTENDS TraceWriter, Transports, FiniteSetTheorems, SequenceTheorems, TLAPS

CallRecords == [event : Events, behind : SUBSET (1..MaxCalls)]
LineRecords == [call : 1..MaxCalls, seq : Nat, whole : BOOLEAN]

\* close() past the point where no more bytes can reach the file.
FileIsFinal == closing \in {"digest", "redactions", "manifest", "sealed"}

(* The inductive invariant, one part per group of variables it relates. *)

Shape ==
  /\ WriterTypeOK
  /\ seal = [events |-> seal.events, blobs |-> seal.blobs, digest |-> seal.digest]

\* While the process lives, only settled calls have lines and seq counts them.
LogOrder ==
  /\ DenseInCallOrder
  /\ \A k \in 1..Len(lines) : lines[k].call <= Len(calls)
  /\ alive => /\ seq = Len(lines)
              /\ \A k \in 1..Len(lines) : lines[k].call <= Len(settled)

Referenced ==
  /\ BlobsPrecedeLines
  /\ phase # "idle" => Busy /\ calls[Current].event.spill \in blobs \union {NoSpill}

Sealing ==
  /\ closing = "count" \/ FileIsFinal => ~ handle
  /\ FileIsFinal => phase # "issued" /\ seal.events = Len(lines)
  /\ closing \in {"redactions", "manifest", "sealed"} => seal.digest = lines
  /\ manifest = "sealed" => closing = "sealed"

\* What the checks of append() knew of the calls that were still in flight.
Brackets ==
  /\ opened => \E k \in 1..Len(lines) : TypeOf(k) = "run.start"
  /\ \A k \in 1..Len(lines) : TypeOf(k) = "run.end" /\ alive => closedEvent
  /\ \A i \in 1..Len(calls) : \A c \in 1..(i - 1) :
       c > Len(settled) => c \in calls[i].behind
  /\ \A i \in 1..Len(calls) : calls[i].event.type = "run.start" =>
       \A k \in 1..Len(lines) : lines[k].call < i => lines[k].call \in calls[i].behind
  /\ \A i \in 1..Len(calls) : calls[i].event.type = "run.end" =>
       /\ \E k \in 1..Len(lines) : TypeOf(k) = "run.start" /\ lines[k].call < i
       /\ \A k \in 1..Len(lines) :
            TypeOf(k) = "run.end" /\ lines[k].call < i => lines[k].call \in calls[i].behind

IInv == Shape /\ LogOrder /\ WrittenIsOnDisk /\ Referenced /\ Sealing /\ Brackets

-----------------------------------------------------------------------------
(* Facts the steps share. *)

LEMMA AppendFacts ==
  ASSUME NEW S, NEW seqn \in Seq(S), NEW e \in S
  PROVE  /\ Append(seqn, e) \in Seq(S)
         /\ Len(Append(seqn, e)) = Len(seqn) + 1
         /\ \A k \in 1..Len(seqn) : Append(seqn, e)[k] = seqn[k]
         /\ Append(seqn, e)[Len(seqn) + 1] = e
OBVIOUS

LEMMA ShapeFacts ==
  ASSUME Shape
  PROVE  /\ Len(lines) \in Nat /\ Len(calls) \in Nat /\ Len(settled) \in Nat
         /\ calls \in Seq(CallRecords) /\ lines \in Seq(LineRecords)
         /\ \A k \in 1..Len(lines) :
              lines[k].call \in Nat /\ lines[k].call >= 1 /\ lines[k].seq \in Nat
         /\ \A i \in 1..Len(calls) :
              calls[i].event \in Events /\ calls[i].behind \subseteq 1..MaxCalls
<1>1. calls \in Seq(CallRecords) /\ lines \in Seq(LineRecords) /\ MaxCalls \in Nat
  BY WriterAssumption DEF Shape, WriterTypeOK, CallRecords, LineRecords
<1>2. settled \in Seq({"written", "failed"})
  BY DEF Shape, WriterTypeOK
<1>3. \A k \in 1..Len(lines) : lines[k] \in LineRecords
  BY <1>1
<1>4. \A i \in 1..Len(calls) : calls[i] \in CallRecords
  BY <1>1
<1> QED BY <1>1, <1>2, <1>3, <1>4 DEF LineRecords, CallRecords

THEOREM InitIInv == WriterInit => IInv
<1> SUFFICES ASSUME WriterInit PROVE IInv
  OBVIOUS
<1>1. Shape
  <2>1. WriterTypeOK
    <3>1. /\ calls \in Seq([event : Events, behind : SUBSET (1..MaxCalls)])
          /\ settled \in Seq({"written", "failed"})
          /\ lines \in Seq([call : 1..MaxCalls, seq : Nat, whole : BOOLEAN])
      BY DEF WriterInit
    <3>2. Len(settled) <= Len(calls) /\ Len(calls) <= MaxCalls /\ seq \in Nat /\ awaited \in Nat
      BY WriterAssumption DEF WriterInit
    <3> QED BY <3>1, <3>2 DEF WriterInit, WriterTypeOK
  <2>2. seal = [events |-> seal.events, blobs |-> seal.blobs, digest |-> seal.digest]
    BY DEF WriterInit
  <2> QED BY <2>1, <2>2 DEF Shape
<1>2. LogOrder /\ WrittenIsOnDisk /\ Referenced
  BY DEF WriterInit, LogOrder, DenseInCallOrder, WrittenIsOnDisk, Referenced, BlobsPrecedeLines
<1>3. Sealing /\ Brackets
  BY DEF WriterInit, Sealing, FileIsFinal, Brackets
<1> QED BY <1>1, <1>2, <1>3 DEF IInv

LEMMA AppendKeeps ==
  ASSUME IInv, NEW event \in Events, AppendCall(event)
  PROVE  IInv'
<1> DEFINE n == Len(calls)
           record == [event |-> event, behind |-> Unsettled]
<1>1. /\ Len(lines) \in Nat /\ n \in Nat /\ Len(settled) \in Nat
      /\ calls \in Seq(CallRecords) /\ MaxCalls \in Nat /\ n < MaxCalls
      /\ Len(settled) <= n
  BY ShapeFacts, WriterAssumption DEF IInv, AppendCall, Shape, WriterTypeOK
<1>2. record \in CallRecords
  BY <1>1 DEF CallRecords, Unsettled
<1>3. /\ calls' \in Seq(CallRecords) /\ Len(calls') = n + 1
      /\ \A i \in 1..n : calls'[i] = calls[i]
      /\ calls'[n + 1] = record
  BY <1>1, <1>2, AppendFacts DEF AppendCall
<1>4. UNCHANGED <<settled, phase, seq, opened, closedEvent, lines, blobs,
                  handle, closing, awaited, seal, manifest, alive>> /\ alive
  BY DEF AppendCall, fileVars, closeVars
<1>5. \A k \in 1..Len(lines) : lines[k].call \in 1..n
  BY <1>1, ShapeFacts DEF IInv, LogOrder
<1>6. \A k \in 1..Len(lines) : CallOf(k)' = CallOf(k) /\ TypeOf(k)' = TypeOf(k)
  BY <1>3, <1>4, <1>5 DEF CallOf, TypeOf
<1>7. Shape'
  BY <1>1, <1>3, <1>4 DEF IInv, Shape, WriterTypeOK, CallRecords
<1>8. LogOrder'
  BY <1>1, <1>3, <1>4, <1>5 DEF IInv, LogOrder, DenseInCallOrder
<1>9. WrittenIsOnDisk' /\ Sealing'
  BY <1>4 DEF IInv, WrittenIsOnDisk, Sealing, FileIsFinal
<1>10. Referenced'
  <2>1. BlobsPrecedeLines'
    BY <1>4, <1>6 DEF IInv, Referenced, BlobsPrecedeLines
  <2>2. Current' = Current
    BY <1>4 DEF Current
  <2>3. phase # "idle" => Current \in 1..n
    BY <1>1 DEF IInv, Referenced, Busy, Current
  <2>4. (phase # "idle" => Busy /\ calls[Current].event.spill \in blobs \union {NoSpill})'
    BY <1>1, <1>3, <1>4, <2>2, <2>3 DEF IInv, Referenced, Busy
  <2> QED BY <2>1, <2>4 DEF Referenced
<1>11. Brackets'
  <2>1. ~ Refused(event.type)
    BY DEF AppendCall
  <2>2. (opened => \E k \in 1..Len(lines) : TypeOf(k) = "run.start")'
    BY <1>4, <1>6 DEF IInv, Brackets
  <2>3. (\A k \in 1..Len(lines) : TypeOf(k) = "run.end" /\ alive => closedEvent)'
    BY <1>4, <1>6 DEF IInv, Brackets
  <2>4. ASSUME NEW i \in 1..(n + 1), NEW c \in 1..(i - 1), c > Len(settled)
        PROVE  c \in calls'[i].behind
    <3>1. CASE i = n + 1
      BY <1>1, <1>3, <2>4, <3>1 DEF Unsettled
    <3>2. CASE i \in 1..n
      BY <1>3, <2>4, <3>2 DEF IInv, Brackets
    <3> QED BY <1>1, <3>1, <3>2
  <2>5. ASSUME NEW i \in 1..(n + 1), calls'[i].event.type = "run.start",
               NEW k \in 1..Len(lines), lines[k].call < i
        PROVE  lines[k].call \in calls'[i].behind
    <3>1. CASE i = n + 1
      <4>1. event.type = "run.start"
        BY <1>3, <2>5, <3>1
      <4>2. seq = 0 /\ seq = Len(lines)
        BY <1>4, <2>1, <4>1 DEF Refused, IInv, LogOrder
      <4> QED BY <4>2
    <3>2. CASE i \in 1..n
      BY <1>3, <2>5, <3>2 DEF IInv, Brackets
    <3> QED BY <1>1, <3>1, <3>2
  <2>6. ASSUME NEW i \in 1..(n + 1), calls'[i].event.type = "run.end"
        PROVE  /\ \E k \in 1..Len(lines) : TypeOf(k) = "run.start" /\ lines[k].call < i
               /\ \A k \in 1..Len(lines) :
                    TypeOf(k) = "run.end" /\ lines[k].call < i
                      => lines[k].call \in calls'[i].behind
    <3>1. CASE i = n + 1
      <4>1. event.type = "run.end"
        BY <1>3, <2>6, <3>1
      <4>2. opened /\ ~ closedEvent
        BY <2>1, <4>1 DEF Refused
      <4>3. PICK k \in 1..Len(lines) : TypeOf(k) = "run.start"
        BY <4>2 DEF IInv, Brackets
      <4>4. lines[k].call < i
        BY <1>1, <1>5, <3>1
      <4>5. \A j \in 1..Len(lines) : TypeOf(j) # "run.end"
        BY <1>4, <4>2 DEF IInv, Brackets
      <4> QED BY <4>3, <4>4, <4>5
    <3>2. CASE i \in 1..n
      BY <1>3, <2>6, <3>2 DEF IInv, Brackets
    <3> QED BY <1>1, <3>1, <3>2
  <2> QED BY <1>3, <1>4, <1>6, <2>2, <2>3, <2>4, <2>5, <2>6 DEF Brackets
<1> QED BY <1>7, <1>8, <1>9, <1>10, <1>11 DEF IInv

(* A step that adds no line, and neither call nor settles one: the phase of*)
(* the current write, the blobs and close() may move.                      *)
LEMMA QuietKeeps ==
  ASSUME IInv,
         UNCHANGED <<calls, settled, seq, opened, closedEvent, lines>>,
         blobs \subseteq blobs', alive' => alive, Shape', Sealing',
         phase' # "idle" => Busy /\ calls[Current].event.spill \in blobs' \union {NoSpill}
  PROVE  IInv'
<1>1. \A k \in 1..Len(lines) : CallOf(k)' = CallOf(k) /\ TypeOf(k)' = TypeOf(k)
  BY DEF CallOf, TypeOf
<1>2. LogOrder' /\ WrittenIsOnDisk'
  BY DEF IInv, LogOrder, DenseInCallOrder, WrittenIsOnDisk
<1>3. Referenced'
  <2>1. BlobsPrecedeLines'
    BY <1>1 DEF IInv, Referenced, BlobsPrecedeLines
  <2> QED BY <2>1 DEF Referenced, Busy, Current
<1>4. Brackets'
  BY <1>1 DEF IInv, Brackets
<1> QED BY <1>2, <1>3, <1>4 DEF IInv

LEMMA SpillKeeps == IInv /\ Spill => IInv'
<1> SUFFICES ASSUME IInv, Spill PROVE IInv'
  OBVIOUS
<1>1. UNCHANGED <<calls, settled, seq, opened, closedEvent, lines,
                  handle, closing, awaited, seal, manifest, alive>>
  BY DEF Spill, closeVars
<1>2. calls[Current].event.spill \in Contents
  <2>1. Current \in 1..Len(calls)
    BY ShapeFacts DEF IInv, Spill, Busy, Current
  <2>2. calls[Current].event \in Events
    BY <2>1, ShapeFacts DEF IInv
  <2> QED BY <2>2, WriterAssumption DEF Spill
<1>3. Shape'
  BY <1>1, <1>2 DEF Spill, IInv, Shape, WriterTypeOK
<1>4. Sealing'
  BY <1>1 DEF Spill, IInv, Sealing, FileIsFinal
<1> QED BY <1>1, <1>3, <1>4, QuietKeeps DEF Spill

LEMMA IssueWriteKeeps == IInv /\ IssueWrite => IInv'
<1> SUFFICES ASSUME IInv, IssueWrite PROVE IInv'
  OBVIOUS
<1>1. UNCHANGED <<calls, settled, seq, opened, closedEvent, lines, blobs,
                  handle, closing, awaited, seal, manifest, alive>>
  BY DEF IssueWrite, closeVars, fileVars
<1>2. Shape'
  BY <1>1 DEF IssueWrite, IInv, Shape, WriterTypeOK
<1>3. Sealing'
  BY <1>1 DEF IssueWrite, IInv, Sealing, FileIsFinal
<1>4. Busy /\ calls[Current].event.spill \in blobs' \union {NoSpill}
  BY <1>1 DEF IssueWrite, ReadyToWrite, IInv, Referenced
<1> QED BY <1>1, <1>2, <1>3, <1>4, QuietKeeps

LEMMA CloseKeeps ==
  ASSUME IInv, CloseBegins \/ CloseWork \/ CloseFails
  PROVE  IInv'
<1>1. UNCHANGED <<calls, settled, phase, seq, opened, closedEvent, lines, blobs>>
      /\ alive /\ alive'
  BY DEF CloseBegins, CloseWork, TailSettles, HandleCloses, BlobsCounted, LogDigested,
         ManifestTruncated, ManifestWritten, CloseFails, CloseStep, memoryVars, fileVars
<1>2. seq = Len(lines) /\ Len(calls) \in Nat
  BY <1>1, ShapeFacts DEF IInv, LogOrder
<1>3. Sealing'
  <2>1. CASE CloseBegins \/ CloseFails
    BY <1>1, <2>1 DEF CloseBegins, CloseFails, CloseStep, IInv, Sealing, FileIsFinal
  <2>2. CASE TailSettles \/ HandleCloses
    BY <1>1, <2>2 DEF TailSettles, HandleCloses, CloseStep, IInv, Sealing, FileIsFinal
  <2>3. CASE BlobsCounted
    <3>1. seal'.events = Len(lines) /\ closing = "count" /\ closing' = "digest" /\ phase # "issued"
      BY <1>2, <2>3 DEF BlobsCounted, CloseStep, IInv, Shape
    <3> QED BY <1>1, <2>3, <3>1 DEF BlobsCounted, IInv, Sealing, FileIsFinal
  <2>4. CASE LogDigested
    <3>1. seal'.events = seal.events /\ seal'.digest = lines
          /\ closing = "digest" /\ closing' = "redactions"
      BY <2>4 DEF LogDigested, CloseStep, IInv, Shape
    <3> QED BY <1>1, <2>4, <3>1 DEF LogDigested, IInv, Sealing, FileIsFinal
  <2>5. CASE ManifestTruncated \/ ManifestWritten
    BY <1>1, <2>5
    DEF ManifestTruncated, ManifestWritten, CloseStep, IInv, Sealing, FileIsFinal
  <2> QED BY <2>1, <2>2, <2>3, <2>4, <2>5 DEF CloseWork
<1>5. Shape'
  <2>1. /\ handle' \in BOOLEAN /\ awaited' \in Nat
        /\ manifest' \in {"base", "torn", "sealed"}
        /\ closing' \in {"no", "tail", "sync", "count", "digest", "redactions",
                        "manifest", "sealed", "failed"}
    BY <1>2
    DEF CloseBegins, CloseWork, TailSettles, HandleCloses, BlobsCounted, LogDigested,
        ManifestTruncated, ManifestWritten, CloseFails, CloseStep,
        IInv, Shape, WriterTypeOK
  <2>2. seal' = [events |-> seal'.events, blobs |-> seal'.blobs, digest |-> seal'.digest]
    BY DEF CloseBegins, CloseWork, TailSettles, HandleCloses, BlobsCounted, LogDigested,
           ManifestTruncated, ManifestWritten, CloseFails, IInv, Shape
  <2> QED BY <1>1, <2>1, <2>2 DEF IInv, Shape, WriterTypeOK
<1>4. phase' # "idle" => Busy /\ calls[Current].event.spill \in blobs' \union {NoSpill}
  BY <1>1 DEF IInv, Referenced
<1> QED BY <1>1, <1>3, <1>4, <1>5, QuietKeeps

LEMMA RejectKeeps ==
  ASSUME IInv, FailBeforeWrite \/ WriteFails
  PROVE  IInv'
<1> DEFINE n == Len(settled)
<1>1. /\ settled' = Append(settled, "failed") /\ phase' = "idle" /\ alive /\ Busy
      /\ UNCHANGED <<calls, seq, opened, closedEvent, lines, blobs,
                     handle, closing, awaited, seal, manifest, alive>>
  BY DEF FailBeforeWrite, WriteFails, Settle, fileVars, closeVars, IInv, Referenced
<1>2. /\ Len(lines) \in Nat /\ Len(calls) \in Nat /\ n \in Nat /\ n + 1 <= Len(calls)
      /\ settled \in Seq({"written", "failed"})
  BY <1>1, ShapeFacts DEF Busy, Current, IInv, Shape, WriterTypeOK
<1>3. /\ settled' \in Seq({"written", "failed"}) /\ Len(settled') = n + 1
      /\ \A i \in 1..n : settled'[i] = settled[i]
      /\ settled'[n + 1] = "failed"
  BY <1>1, <1>2, AppendFacts
<1>4. \A k \in 1..Len(lines) : lines[k].call \in 1..n
  <2>1. \A k \in 1..Len(lines) : lines[k].call <= n
    BY <1>1 DEF IInv, LogOrder
  <2>2. \A k \in 1..Len(lines) : lines[k].call \in Nat /\ lines[k].call >= 1
    BY ShapeFacts DEF IInv
  <2> HIDE DEF n
  <2> QED
    BY ONLY <1>2, <2>1, <2>2
<1>5. \A k \in 1..Len(lines) : CallOf(k)' = CallOf(k) /\ TypeOf(k)' = TypeOf(k)
  BY <1>1 DEF CallOf, TypeOf
<1>6. Shape'
  BY <1>1, <1>2, <1>3 DEF IInv, Shape, WriterTypeOK
<1>7. LogOrder'
  BY <1>1, <1>2, <1>3, <1>4 DEF IInv, LogOrder, DenseInCallOrder
<1>8. WrittenIsOnDisk'
  <2>1. ASSUME NEW i \in 1..(n + 1)
        PROVE  settled'[i] = "written" <=> \E k \in 1..Len(lines) : lines[k].call = i
    <3>1. CASE i = n + 1
      BY <1>2, <1>3, <1>4, <3>1
    <3>2. CASE i \in 1..n
      BY <1>3, <3>2 DEF IInv, WrittenIsOnDisk
    <3> QED BY <1>2, <3>1, <3>2
  <2> QED BY <1>1, <1>3, <2>1 DEF WrittenIsOnDisk
<1>9. Referenced' /\ Sealing'
  BY <1>1, <1>5 DEF IInv, Referenced, BlobsPrecedeLines, Sealing, FileIsFinal
<1>10. Brackets'
  <2>1. \A i \in 1..Len(calls) : \A c \in 1..(i - 1) :
          c > n + 1 => c \in calls[i].behind
    BY <1>2 DEF IInv, Brackets
  <2> QED BY <1>1, <1>3, <1>5, <2>1 DEF IInv, Brackets
<1> QED BY <1>6, <1>7, <1>8, <1>9, <1>10 DEF IInv

-----------------------------------------------------------------------------
(* The steps that add a line. *)

LEMMA LandFacts ==
  ASSUME IInv, alive, phase = "issued", NEW whole \in BOOLEAN, Land(whole)
  PROVE  /\ Current \in 1..Len(calls) /\ Current = Len(settled) + 1 /\ Current \in Nat
         /\ Len(lines) \in Nat /\ seq = Len(lines)
         /\ lines' \in Seq(LineRecords) /\ Len(lines') = Len(lines) + 1
         /\ \A k \in 1..Len(lines) : lines'[k] = lines[k]
         /\ lines'[Len(lines) + 1] = [call |-> Current, seq |-> seq, whole |-> whole]
         /\ blobs' = blobs /\ ~ FileIsFinal /\ manifest # "sealed"
         /\ \A k \in 1..Len(lines) : lines[k].call \in 1..Len(settled)
<1>1. /\ Len(lines) \in Nat /\ Len(calls) \in Nat /\ Len(settled) \in Nat
      /\ lines \in Seq(LineRecords) /\ Len(calls) <= MaxCalls /\ MaxCalls \in Nat
      /\ \A k \in 1..Len(lines) : lines[k].call \in Nat /\ lines[k].call >= 1
  BY ShapeFacts, WriterAssumption DEF IInv, Shape, WriterTypeOK
<1>2. Busy
  BY DEF IInv, Referenced
<1>3. Current \in 1..Len(calls) /\ Current = Len(settled) + 1
  BY <1>1, <1>2 DEF Busy, Current
<1>4. seq = Len(lines) /\ \A k \in 1..Len(lines) : lines[k].call <= Len(settled)
  BY DEF IInv, LogOrder
<1>5. [call |-> Current, seq |-> seq, whole |-> whole] \in LineRecords
  BY <1>1, <1>3, <1>4 DEF LineRecords
<1>6. ~ FileIsFinal /\ manifest # "sealed"
  BY DEF IInv, Sealing, FileIsFinal
<1>7. lines' = Append(lines, [call |-> Current, seq |-> seq, whole |-> whole]) /\ blobs' = blobs
  BY DEF Land
<1>8. /\ lines' \in Seq(LineRecords) /\ Len(lines') = Len(lines) + 1
      /\ \A k \in 1..Len(lines) : lines'[k] = lines[k]
      /\ lines'[Len(lines) + 1] = [call |-> Current, seq |-> seq, whole |-> whole]
  BY <1>1, <1>5, <1>7, AppendFacts
<1> QED BY <1>1, <1>3, <1>4, <1>6, <1>7, <1>8

LEMMA LandKeeps ==
  ASSUME IInv, alive, phase = "issued", NEW whole \in BOOLEAN, Land(whole), calls' = calls
  PROVE  /\ DenseInCallOrder' /\ BlobsPrecedeLines'
         /\ \A k \in 1..Len(lines) : TypeOf(k)' = TypeOf(k)
         /\ \A k : k = Len(lines) + 1 => TypeOf(k)' = calls[Current].event.type
         /\ \A i \in 1..Len(calls) : calls[i].event.type = "run.start" =>
              \A k \in 1..Len(lines') :
                lines'[k].call < i => lines'[k].call \in calls[i].behind
         /\ \A i \in 1..Len(calls) : calls[i].event.type = "run.end" =>
              /\ \E k \in 1..Len(lines') : TypeOf(k)' = "run.start" /\ lines'[k].call < i
              /\ \A k \in 1..Len(lines') :
                   TypeOf(k)' = "run.end" /\ lines'[k].call < i
                     => lines'[k].call \in calls[i].behind
<1> DEFINE n == Len(lines)
<1>1. /\ Current \in 1..Len(calls) /\ Current = Len(settled) + 1 /\ Current \in Nat
      /\ n \in Nat /\ seq = n /\ Len(lines') = n + 1
      /\ \A k \in 1..n : lines'[k] = lines[k]
      /\ lines'[n + 1] = [call |-> Current, seq |-> seq, whole |-> whole]
      /\ blobs' = blobs
      /\ \A k \in 1..n : lines[k].call \in 1..Len(settled)
  BY LandFacts
<1>2. lines'[n + 1].call = Current /\ lines'[n + 1].seq = n /\ Len(settled) \in Nat
      /\ Len(calls) \in Nat
  BY <1>1, ShapeFacts DEF IInv
<1>3. DenseInCallOrder'
  <2>1. ASSUME NEW k \in 1..(n + 1) PROVE lines'[k].seq = k - 1
    BY <1>1, <1>2 DEF IInv, LogOrder, DenseInCallOrder
  <2>2. ASSUME NEW j \in 1..(n + 1), NEW k \in 1..(n + 1), j < k
        PROVE  lines'[j].call < lines'[k].call
    <3>1. CASE k = n + 1
      <4>1. j \in 1..n
        BY <1>1, <2>2, <3>1
      <4>2. lines'[j].call \in 1..Len(settled)
        BY <1>1, <4>1
      <4> QED BY <1>1, <1>2, <3>1, <4>2
    <3>2. CASE k # n + 1
      <4>1. j \in 1..n /\ k \in 1..n
        BY <1>1, <2>2, <3>2
      <4> QED BY <1>1, <2>2, <4>1 DEF IInv, LogOrder, DenseInCallOrder
    <3> QED BY <3>1, <3>2
  <2> QED BY <1>1, <2>1, <2>2 DEF DenseInCallOrder
<1>4. \A k \in 1..n : CallOf(k)' = CallOf(k) /\ TypeOf(k)' = TypeOf(k)
  BY <1>1 DEF CallOf, TypeOf
<1>5. \A k : k = n + 1 =>
        CallOf(k)' = calls[Current] /\ TypeOf(k)' = calls[Current].event.type
  BY <1>2 DEF CallOf, TypeOf
<1>6. \A k \in 1..(n + 1) : k \in 1..n \/ k = n + 1
  BY <1>1
<1>7. BlobsPrecedeLines'
  <2>1. calls[Current].event.spill \in blobs \union {NoSpill}
    BY DEF IInv, Referenced
  <2>2. \A k \in 1..n : CallOf(k).event.spill \in blobs \union {NoSpill}
    BY DEF IInv, Referenced, BlobsPrecedeLines
  <2>3. \A k \in 1..(n + 1) : CallOf(k)'.event.spill \in blobs \union {NoSpill}
    BY <1>4, <1>5, <1>6, <2>1, <2>2
  <2> QED BY <1>1, <2>3 DEF BlobsPrecedeLines
<1>8. \A i \in 1..Len(calls) : Current < i => Current \in calls[i].behind
  <2> SUFFICES ASSUME NEW i \in 1..Len(calls), Current < i PROVE Current \in calls[i].behind
    OBVIOUS
  <2>1. Current \in 1..(i - 1) /\ Current > Len(settled)
    BY <1>1, <1>2
  <2> QED BY <2>1 DEF IInv, Brackets
<1>9. ASSUME NEW i \in 1..Len(calls), calls[i].event.type = "run.start",
             NEW k \in 1..(n + 1), lines'[k].call < i
      PROVE  lines'[k].call \in calls[i].behind
  <2>1. CASE k = n + 1
    BY <1>2, <1>8, <1>9, <2>1
  <2>2. CASE k \in 1..n
    BY <1>1, <1>9, <2>2 DEF IInv, Brackets
  <2> QED BY <1>6, <2>1, <2>2
<1>10. ASSUME NEW i \in 1..Len(calls), calls[i].event.type = "run.end"
       PROVE  /\ \E k \in 1..(n + 1) : TypeOf(k)' = "run.start" /\ lines'[k].call < i
              /\ \A k \in 1..(n + 1) :
                   TypeOf(k)' = "run.end" /\ lines'[k].call < i
                     => lines'[k].call \in calls[i].behind
  <2>1. PICK k \in 1..n : TypeOf(k) = "run.start" /\ lines[k].call < i
    BY <1>10 DEF IInv, Brackets
  <2>2. k \in 1..(n + 1) /\ TypeOf(k)' = "run.start" /\ lines'[k].call < i
    BY <1>1, <1>4, <2>1
  <2>3. ASSUME NEW j \in 1..(n + 1), TypeOf(j)' = "run.end", lines'[j].call < i
        PROVE  lines'[j].call \in calls[i].behind
    <3>1. CASE j = n + 1
      BY <1>2, <1>8, <2>3, <3>1
    <3>2. CASE j \in 1..n
      BY <1>1, <1>4, <1>10, <2>3, <3>2 DEF IInv, Brackets
    <3> QED BY <1>6, <3>1, <3>2
  <2> QED BY <2>2, <2>3
<1> QED BY <1>1, <1>3, <1>4, <1>5, <1>7, <1>9, <1>10

LEMMA WriteReturnsKeeps == IInv /\ WriteReturns => IInv'
<1> SUFFICES ASSUME IInv, WriteReturns PROVE IInv'
  OBVIOUS
<1> DEFINE n == Len(lines)
           m == Len(settled)
<1>1. PICK whole \in BOOLEAN : Land(whole)
  BY DEF WriteReturns
<1>2. /\ alive /\ alive' /\ phase = "issued" /\ phase' = "idle" /\ calls' = calls
      /\ seq' = seq + 1 /\ settled' = Append(settled, "written")
      /\ opened' = (opened \/ calls[Current].event.type = "run.start")
      /\ closedEvent' = (closedEvent \/ calls[Current].event.type = "run.end")
      /\ UNCHANGED <<handle, closing, awaited, seal, manifest>>
  BY DEF WriteReturns, Settle, closeVars
<1>3. /\ Current \in 1..Len(calls) /\ Current = m + 1 /\ n \in Nat /\ seq = n
      /\ lines' \in Seq(LineRecords) /\ Len(lines') = n + 1
      /\ \A k \in 1..n : lines'[k] = lines[k]
      /\ lines'[n + 1] = [call |-> Current, seq |-> seq, whole |-> whole]
      /\ blobs' = blobs /\ ~ FileIsFinal /\ manifest # "sealed"
      /\ \A k \in 1..n : lines[k].call \in 1..m
  BY <1>1, <1>2, LandFacts
<1>4. /\ DenseInCallOrder' /\ BlobsPrecedeLines'
      /\ \A k \in 1..n : TypeOf(k)' = TypeOf(k)
      /\ \A k : k = n + 1 => TypeOf(k)' = calls[Current].event.type
  BY <1>1, <1>2, LandKeeps
<1>5. m \in Nat /\ Len(calls) \in Nat /\ settled \in Seq({"written", "failed"})
      /\ Len(calls) <= MaxCalls
  BY ShapeFacts DEF IInv, Shape, WriterTypeOK
<1>6. /\ settled' \in Seq({"written", "failed"}) /\ Len(settled') = m + 1
      /\ \A i \in 1..m : settled'[i] = settled[i]
      /\ settled'[m + 1] = "written"
  BY <1>2, <1>5, AppendFacts
<1>7. lines'[n + 1].call = m + 1 /\ (n + 1) \in 1..(n + 1)
      /\ \A k \in 1..(n + 1) : k \in 1..n \/ k = n + 1
  BY <1>3
<1>8. Shape'
  <2>1. /\ opened' \in BOOLEAN /\ closedEvent' \in BOOLEAN
    BY <1>2 DEF IInv, Shape, WriterTypeOK
  <2>2. Len(settled') <= Len(calls') /\ Len(calls') <= MaxCalls /\ seq' \in Nat
    BY <1>2, <1>3, <1>5, <1>6
  <2> QED BY <1>2, <1>3, <1>6, <2>1, <2>2 DEF IInv, Shape, WriterTypeOK, LineRecords
<1>9. LogOrder'
  <2>1. \A k \in 1..(n + 1) : lines'[k].call \in 1..(m + 1)
    BY <1>3, <1>5, <1>7
  <2>2. \A k \in 1..(n + 1) : lines'[k].call <= Len(calls) /\ lines'[k].call <= m + 1
    BY <1>3, <1>5, <2>1
  <2>3. seq' = Len(lines')
    BY <1>2, <1>3
  <2> QED BY <1>2, <1>3, <1>4, <1>6, <2>2, <2>3 DEF LogOrder
<1>10. WrittenIsOnDisk'
  <2>1. ASSUME NEW i \in 1..(m + 1)
        PROVE  settled'[i] = "written" <=> \E k \in 1..(n + 1) : lines'[k].call = i
    <3>1. CASE i = m + 1
      BY <1>6, <1>7, <3>1
    <3>2. CASE i \in 1..m
      <4>1. settled[i] = "written" <=> \E k \in 1..n : lines[k].call = i
        BY <3>2 DEF IInv, WrittenIsOnDisk
      <4>2. (\E k \in 1..n : lines[k].call = i)
              <=> \E k \in 1..(n + 1) : lines'[k].call = i
        <5>1. \A k \in 1..n : k \in 1..(n + 1) /\ lines'[k].call = lines[k].call
          BY <1>3
        <5>2. lines'[n + 1].call # i
          BY <1>5, <1>7, <3>2
        <5> QED BY <1>7, <5>1, <5>2
      <4> QED BY <1>6, <3>2, <4>1, <4>2
    <3> QED BY <1>5, <3>1, <3>2
  <2> QED BY <1>3, <1>6, <2>1 DEF WrittenIsOnDisk
<1>11. Referenced' /\ Sealing'
  BY <1>2, <1>3, <1>4 DEF IInv, Referenced, Sealing, FileIsFinal
<1>12. Brackets'
  <2>1. (opened => \E k \in 1..Len(lines) : TypeOf(k) = "run.start")'
    <3>1. CASE calls[Current].event.type = "run.start"
      BY <1>3, <1>4, <1>7, <3>1
    <3>2. CASE opened
      <4>1. PICK k \in 1..n : TypeOf(k) = "run.start"
        BY <3>2 DEF IInv, Brackets
      <4>2. k \in 1..(n + 1) /\ TypeOf(k)' = "run.start"
        BY <1>3, <1>4, <4>1
      <4> QED BY <1>3, <4>2
    <3> QED BY <1>2, <3>1, <3>2
  <2>2. \A k \in 1..(n + 1) : TypeOf(k)' = "run.end" => closedEvent'
    <3>1. \A k \in 1..n : TypeOf(k) = "run.end" => closedEvent
      BY <1>2 DEF IInv, Brackets
    <3> QED BY <1>2, <1>4, <1>7, <3>1
  <2>3. \A i \in 1..Len(calls) : \A c \in 1..(i - 1) :
          c > m + 1 => c \in calls[i].behind
    BY <1>5 DEF IInv, Brackets
  <2>4. /\ \A i \in 1..Len(calls) : calls[i].event.type = "run.start" =>
              \A k \in 1..Len(lines') :
                lines'[k].call < i => lines'[k].call \in calls[i].behind
        /\ \A i \in 1..Len(calls) : calls[i].event.type = "run.end" =>
              /\ \E k \in 1..Len(lines') : TypeOf(k)' = "run.start" /\ lines'[k].call < i
              /\ \A k \in 1..Len(lines') :
                   TypeOf(k)' = "run.end" /\ lines'[k].call < i
                     => lines'[k].call \in calls[i].behind
    BY <1>1, <1>2, LandKeeps
  <2> HIDE DEF n, m
  <2> QED BY <1>2, <1>3, <1>6, <2>1, <2>2, <2>3, <2>4 DEF Brackets
<1> QED BY <1>8, <1>9, <1>10, <1>11, <1>12 DEF IInv

LEMMA CrashKeeps == IInv /\ Crash => IInv'
<1> SUFFICES ASSUME IInv, Crash PROVE IInv'
  OBVIOUS
<1> DEFINE n == Len(lines)
<1>1. /\ alive /\ alive' = FALSE
      /\ UNCHANGED <<calls, settled, phase, seq, opened, closedEvent,
                     handle, closing, awaited, seal, manifest>>
  BY DEF Crash, memoryVars, closeVars
<1>2. CASE UNCHANGED fileVars
  <2>1. UNCHANGED <<lines, blobs>>
    BY <1>2 DEF fileVars
  <2>2. Shape' /\ Sealing'
    BY <1>1, <2>1 DEF IInv, Shape, WriterTypeOK, Sealing, FileIsFinal
  <2>3. phase' # "idle" => Busy /\ calls[Current].event.spill \in blobs' \union {NoSpill}
    BY <1>1, <2>1 DEF IInv, Referenced
  <2> QED BY <1>1, <2>1, <2>2, <2>3, QuietKeeps
<1>3. CASE phase = "issued" /\ \E whole \in BOOLEAN : Land(whole)
  <2>1. PICK whole \in BOOLEAN : Land(whole)
    BY <1>3
  <2>2. /\ Current \in 1..Len(calls) /\ Current = Len(settled) + 1 /\ n \in Nat
        /\ lines' \in Seq(LineRecords) /\ Len(lines') = n + 1
        /\ \A k \in 1..n : lines'[k] = lines[k]
        /\ lines'[n + 1] = [call |-> Current, seq |-> seq, whole |-> whole]
        /\ blobs' = blobs /\ ~ FileIsFinal /\ manifest # "sealed"
        /\ \A k \in 1..n : lines[k].call \in 1..Len(settled)
    BY <1>1, <1>3, <2>1, LandFacts
  <2>3. /\ DenseInCallOrder' /\ BlobsPrecedeLines'
        /\ \A k \in 1..n : TypeOf(k)' = TypeOf(k)
    BY <1>1, <1>3, <2>1, LandKeeps
  <2>4. Len(settled) \in Nat /\ Len(calls) \in Nat
    BY ShapeFacts DEF IInv
  <2>5. lines'[n + 1].call = Current /\ \A k \in 1..(n + 1) : k \in 1..n \/ k = n + 1
    BY <2>2
  <2>6. Shape'
    BY <1>1, <2>2 DEF IInv, Shape, WriterTypeOK, LineRecords
  <2>7. LogOrder'
    <3>1. \A k \in 1..(n + 1) : lines'[k].call <= Len(calls)
      BY <2>2, <2>4, <2>5
    <3> QED BY <1>1, <2>2, <2>3, <3>1 DEF LogOrder
  <2>8. WrittenIsOnDisk'
    <3>1. ASSUME NEW i \in 1..Len(settled)
          PROVE  settled[i] = "written" <=> \E k \in 1..(n + 1) : lines'[k].call = i
      <4>1. settled[i] = "written" <=> \E k \in 1..n : lines[k].call = i
        BY DEF IInv, WrittenIsOnDisk
      <4>2. \A k \in 1..n : k \in 1..(n + 1) /\ lines'[k].call = lines[k].call
        BY <2>2
      <4>3. lines'[n + 1].call # i
        BY <2>2, <2>4, <2>5
      <4> QED BY <2>5, <4>1, <4>2, <4>3
    <3> QED BY <1>1, <2>2, <3>1 DEF WrittenIsOnDisk
  <2>9. Referenced' /\ Sealing'
    <3>1. Busy /\ calls[Current].event.spill \in blobs' \union {NoSpill}
      BY <1>3, <2>2 DEF IInv, Referenced
    <3>2. Referenced'
      BY <1>1, <2>3, <3>1 DEF Referenced, Busy, Current
    <3>3. Sealing'
      BY <1>1, <2>2 DEF IInv, Sealing, FileIsFinal
    <3> QED BY <3>2, <3>3
  <2>10. Brackets'
    <3>1. (opened => \E k \in 1..Len(lines) : TypeOf(k) = "run.start")'
      <4> SUFFICES ASSUME opened PROVE \E k \in 1..(n + 1) : TypeOf(k)' = "run.start"
        BY <1>1, <2>2
      <4>1. PICK k \in 1..n : TypeOf(k) = "run.start"
        BY DEF IInv, Brackets
      <4> QED BY <2>2, <2>3, <4>1
    <3>2. /\ \A i \in 1..Len(calls) : calls[i].event.type = "run.start" =>
                \A k \in 1..Len(lines') :
                  lines'[k].call < i => lines'[k].call \in calls[i].behind
          /\ \A i \in 1..Len(calls) : calls[i].event.type = "run.end" =>
                /\ \E k \in 1..Len(lines') : TypeOf(k)' = "run.start" /\ lines'[k].call < i
                /\ \A k \in 1..Len(lines') :
                     TypeOf(k)' = "run.end" /\ lines'[k].call < i
                       => lines'[k].call \in calls[i].behind
      BY <1>1, <1>3, <2>1, LandKeeps
    <3>3. \A i \in 1..Len(calls) : \A c \in 1..(i - 1) :
            c > Len(settled) => c \in calls[i].behind
      BY DEF IInv, Brackets
    <3> HIDE DEF n
    <3> QED BY <1>1, <3>1, <3>2, <3>3 DEF Brackets
  <2> QED BY <2>6, <2>7, <2>8, <2>9, <2>10 DEF IInv
<1> QED BY <1>2, <1>3 DEF Crash

LEMMA NextKeeps == IInv /\ [WriterNext]_writerVars => IInv'
<1> SUFFICES ASSUME IInv, [WriterNext]_writerVars PROVE IInv'
  OBVIOUS
<1>1. CASE \E event \in Events : AppendCall(event)
  BY <1>1, AppendKeeps
<1>2. CASE Work
  BY <1>2, SpillKeeps, IssueWriteKeeps, WriteReturnsKeeps DEF Work
<1>3. CASE FailBeforeWrite \/ WriteFails
  BY <1>3, RejectKeeps
<1>4. CASE CloseBegins \/ CloseWork \/ CloseFails
  BY <1>4, CloseKeeps
<1>5. CASE Crash
  BY <1>5, CrashKeeps
<1>6. CASE UNCHANGED writerVars
  <2>1. UNCHANGED <<calls, settled, phase, seq, opened, closedEvent, lines, blobs,
                    handle, closing, awaited, seal, manifest, alive>>
    BY <1>6 DEF writerVars, memoryVars, fileVars, closeVars
  <2>2. Shape' /\ Sealing'
    BY <2>1 DEF IInv, Shape, WriterTypeOK, Sealing, FileIsFinal
  <2>3. phase' # "idle" => Busy /\ calls[Current].event.spill \in blobs' \union {NoSpill}
    BY <2>1 DEF IInv, Referenced
  <2> QED BY <2>1, <2>2, <2>3, QuietKeeps
<1> QED BY <1>1, <1>2, <1>3, <1>4, <1>5, <1>6 DEF WriterNext

-----------------------------------------------------------------------------
(* What the writer guarantees. *)

THEOREM Invariant == WriterSpec => []IInv
BY InitIInv, NextKeeps, PTL DEF WriterSpec

(* The writer's state keeps its type (writer.ts, class TraceWriter). *)
THEOREM TypeCorrect == WriterSpec => []WriterTypeOK
<1>1. IInv => WriterTypeOK
  BY DEF IInv, Shape
<1> QED BY <1>1, Invariant, PTL

(* seq is dense and follows call order, whatever fails (#write assigns seq *)
(* inside the queue).                                                      *)
THEOREM DenseOrder == WriterSpec => []DenseInCallOrder
<1>1. IInv => DenseInCallOrder
  BY DEF IInv, LogOrder
<1> QED BY <1>1, Invariant, PTL

\* What is in the file of each append: of a settled one a line, as its write left
\* it, if it resolved, and else nothing; of any other, only after a kill, a line at
\* the end of the file.
OneLineEach ==
  /\ \A i \in 1..Len(settled) :
       /\ settled[i] = "written" <=> \E k \in 1..Len(lines) : lines[k].call = i
       /\ \A j, k \in 1..Len(lines) : lines[j].call = i /\ lines[k].call = i => j = k
  /\ \A k \in 1..Len(lines) : lines[k].call > Len(settled) =>
       ~ alive /\ k = Len(lines) /\ lines[k].call = Current

\* A kill lets at most the write that was issued reach the file.
AtMostCurrent == \A k \in 1..Len(lines) : lines[k].call <= Current

LEMMA AtMostCurrentKept ==
  ASSUME IInv, AtMostCurrent, [WriterNext]_writerVars
  PROVE  AtMostCurrent'
<1>1. IInv'
  BY NextKeeps
<1>2. CASE alive'
  <2>1. \A k \in 1..Len(lines') : lines'[k].call <= Len(settled')
    BY <1>1, <1>2 DEF IInv, LogOrder
  <2>2. /\ Len(settled') \in Nat
        /\ \A k \in 1..Len(lines') : lines'[k].call \in Nat
    <3>1. settled' \in Seq({"written", "failed"}) /\ lines' \in Seq(LineRecords)
      BY <1>1 DEF IInv, Shape, WriterTypeOK, LineRecords
    <3>2. MaxCalls \in Nat
      BY WriterAssumption
    <3>3. \A k \in 1..Len(lines') : lines'[k] \in LineRecords
      BY <3>1
    <3> QED BY <3>1, <3>2, <3>3 DEF LineRecords
  <2> QED BY <2>1, <2>2 DEF AtMostCurrent, Current
<1>3. CASE UNCHANGED <<lines, settled>>
  BY <1>3 DEF AtMostCurrent, Current
<1>4. CASE Crash
  <2>1. settled' = settled
    BY <1>4 DEF Crash, memoryVars
  <2>2. CASE lines' = lines
    BY <2>1, <2>2 DEF AtMostCurrent, Current
  <2>3. CASE \E whole \in BOOLEAN : Land(whole)
    <3>1. PICK whole \in BOOLEAN :
            lines' = Append(lines, [call |-> Current, seq |-> seq, whole |-> whole])
      BY <2>3 DEF Land
    <3>2. /\ Len(lines) \in Nat /\ Len(lines') = Len(lines) + 1
          /\ \A k \in 1..Len(lines) : lines'[k] = lines[k]
          /\ lines'[Len(lines) + 1].call = Current /\ Current \in Nat
      BY <3>1, ShapeFacts DEF IInv, Current
    <3>3. Current' = Current
      BY <2>1 DEF Current
    <3> HIDE DEF Current
    <3> QED BY <3>2, <3>3 DEF AtMostCurrent
  <2> QED BY <1>4, <2>2, <2>3 DEF Crash, fileVars
<1>5. CASE ~ alive /\ WriterNext
  BY <1>5 DEF WriterNext, AppendCall, Work, Spill, IssueWrite, WriteReturns, FailBeforeWrite,
       WriteFails, CloseBegins, CloseWork, CloseFails, TailSettles, HandleCloses, BlobsCounted,
       LogDigested, ManifestTruncated, ManifestWritten, CloseStep, Crash
<1>6. CASE alive /\ ~ alive' /\ WriterNext /\ ~ Crash
  BY <1>6 DEF WriterNext, AppendCall, Work, Spill, IssueWrite, WriteReturns, FailBeforeWrite,
       WriteFails, CloseBegins, CloseWork, CloseFails, TailSettles, HandleCloses, BlobsCounted,
       LogDigested, ManifestTruncated, ManifestWritten, CloseStep
<1>7. CASE UNCHANGED writerVars
  BY <1>3, <1>7 DEF writerVars, memoryVars, fileVars
<1> QED BY <1>2, <1>4, <1>5, <1>6, <1>7

(* The file holds, of each append that resolved, one line: the whole of it,*)
(* or the part that a short write took, which append() does not tell apart;*)
(* and nothing of one that rejected.  A kill adds at most one line, at the *)
(* end, of the append whose write was under way (append() returns #write's *)
(* promise).                                                               *)
THEOREM ResolvedIsWritten == WriterSpec => []OneLineEach
<1>1. WriterInit => AtMostCurrent
  BY DEF WriterInit, AtMostCurrent
<1>2. ASSUME IInv, AtMostCurrent PROVE OneLineEach
  <2>1. /\ Len(lines) \in Nat /\ Len(settled) \in Nat
        /\ \A k \in 1..Len(lines) : lines[k].call \in Nat
    BY <1>2, ShapeFacts DEF IInv
  <2>2. \A j, k \in 1..Len(lines) : j < k => lines[j].call < lines[k].call
    BY <1>2 DEF IInv, LogOrder, DenseInCallOrder
  <2>3. ASSUME NEW k \in 1..Len(lines), lines[k].call > Len(settled)
        PROVE  ~ alive /\ k = Len(lines) /\ lines[k].call = Current
    <3>1. ~ alive
      BY <1>2, <2>1, <2>3 DEF IInv, LogOrder
    <3>2. \A j \in 1..Len(lines) : lines[j].call <= Len(settled) + 1
      BY <1>2 DEF AtMostCurrent, Current
    <3>3. ~ k < Len(lines)
      BY <2>1, <2>2, <2>3, <3>2
    <3> QED BY <2>1, <2>3, <3>1, <3>2, <3>3 DEF Current
  <2>4. \A j, k \in 1..Len(lines) : lines[j].call = lines[k].call => j = k
    BY <2>1, <2>2
  <2> QED BY <1>2, <2>3, <2>4 DEF IInv, WrittenIsOnDisk, OneLineEach
<1> QED BY <1>1, <1>2, Invariant, AtMostCurrentKept, PTL DEF WriterSpec

(* A line's blob is on disk before the line (#write spills, then appends).  *)
THEOREM BlobsFirst == WriterSpec => []BlobsPrecedeLines
<1>1. IInv => BlobsPrecedeLines
  BY DEF IInv, Referenced
<1> QED BY <1>1, Invariant, PTL

(* The sealed digest and event count are those of the file, for good: no   *)
(* append that raced close() can still write (close() closes the handle    *)
(* before it digests).                                                     *)
THEOREM SealIsTrue == WriterSpec => []SealDescribesLog
<1>1. IInv => SealDescribesLog
  BY DEF IInv, Sealing, SealDescribesLog, FileIsFinal
<1> QED BY <1>1, Invariant, PTL

(* A bracket that lands where the spec has no place for it was appended    *)
(* while the one before it was still in flight: the checks of append() are *)
(* enough for a caller that awaits.                                        *)
THEOREM AwaitedBrackets == WriterSpec => []BracketsIfAwaited
<1>1. ASSUME IInv, NEW k \in 1..Len(lines), TypeOf(k) = "run.start", k > 1
      PROVE  lines[k - 1].call \in CallOf(k).behind
  <2>1. /\ lines[k].call \in 1..Len(calls) /\ k - 1 \in 1..Len(lines)
        /\ lines[k - 1].call < lines[k].call
    BY <1>1, ShapeFacts DEF IInv, LogOrder, DenseInCallOrder
  <2>2. calls[lines[k].call].event.type = "run.start"
    BY <1>1 DEF TypeOf, CallOf
  <2> QED BY <1>1, <2>1, <2>2 DEF IInv, Brackets, CallOf
<1>2. ASSUME IInv, NEW k \in 1..Len(lines), TypeOf(k) = "run.end"
      PROVE  /\ \E j \in 1..(k - 1) : TypeOf(j) = "run.start"
             /\ \A j \in 1..(k - 1) :
                  TypeOf(j) = "run.end" => lines[j].call \in CallOf(k).behind
  <2>1. lines[k].call \in 1..Len(calls) /\ Len(lines) \in Nat
    BY <1>2, ShapeFacts DEF IInv, LogOrder
  <2>2. calls[lines[k].call].event.type = "run.end"
    BY <1>2 DEF TypeOf, CallOf
  <2>3. PICK j \in 1..Len(lines) : TypeOf(j) = "run.start" /\ lines[j].call < lines[k].call
    BY <1>2, <2>1, <2>2 DEF IInv, Brackets
  <2>4. j \in 1..(k - 1)
    <3>1. ~ k < j
      <4>1. k < j => lines[k].call < lines[j].call
        BY <1>2 DEF IInv, LogOrder, DenseInCallOrder
      <4>2. lines[j].call \in Nat /\ lines[k].call \in Nat
        BY <1>2, ShapeFacts DEF IInv
      <4> QED BY <2>3, <4>1, <4>2
    <3>2. j # k
      BY <1>2, <2>3
    <3> QED BY <2>1, <3>1, <3>2
  <2>5. ASSUME NEW i \in 1..(k - 1), TypeOf(i) = "run.end"
        PROVE  lines[i].call \in CallOf(k).behind
    <3>1. i \in 1..Len(lines) /\ i < k
      BY <2>1
    <3>2. lines[i].call < lines[k].call
      BY <1>2, <3>1 DEF IInv, LogOrder, DenseInCallOrder
    <3> QED BY <1>2, <2>1, <2>2, <2>5, <3>1, <3>2 DEF IInv, Brackets, CallOf
  <2> QED BY <2>3, <2>4, <2>5
<1>3. IInv => BracketsIfAwaited
  BY <1>1, <1>2 DEF BracketsIfAwaited
<1> QED BY <1>3, Invariant, PTL

-----------------------------------------------------------------------------
(* The writer implements the log. *)

LEMMA LandExtends ==
  ASSUME IInv, alive, phase = "issued", NEW whole \in BOOLEAN, Land(whole),
         manifest' = manifest
  PROVE  Log!LogNext
<1> DEFINE n == Len(lines)
           log == [k \in 1..n |-> lines[k].call]
           next == [k \in 1..Len(lines') |-> lines'[k].call]
<1>1. /\ Current \in 1..Len(calls) /\ Current = Len(settled) + 1 /\ n \in Nat
      /\ Len(lines') = n + 1
      /\ \A k \in 1..n : lines'[k] = lines[k]
      /\ lines'[n + 1].call = Current
      /\ manifest # "sealed"
      /\ \A k \in 1..n : lines[k].call \in 1..Len(settled)
  <2>1. lines'[n + 1] = [call |-> Current, seq |-> seq, whole |-> whole]
    BY LandFacts
  <2>2. lines'[n + 1].call = Current
    BY <2>1
  <2> QED BY <2>2, LandFacts
<1>2. Len(calls) \in Nat /\ Len(calls) <= MaxCalls /\ MaxCalls \in Nat /\ Len(settled) \in Nat
  BY ShapeFacts, WriterAssumption DEF IInv, Shape, WriterTypeOK
<1>3. Current \in 1..MaxCalls
  BY <1>1, <1>2
<1>4. log \in Seq(Nat) /\ Len(log) = n /\ Current \in Nat
      /\ \A k \in 1..n : log[k] = lines[k].call /\ log[k] < Current
  BY <1>1, <1>2
<1>5. next = Append(log, Current)
  <2> DEFINE extended == Append(log, Current)
  <2>1. /\ extended \in Seq(Nat) /\ Len(extended) = n + 1
        /\ \A k \in 1..n : extended[k] = log[k]
        /\ extended[n + 1] = Current
    BY <1>4, AppendFacts
  <2>2. next \in Seq(Nat) /\ Len(next) = n + 1
        /\ \A k \in 1..n : next[k] = log[k]
        /\ next[n + 1] = Current
    BY <1>1, <1>2, <1>4
  <2>3. \A k \in 1..(n + 1) : extended[k] = IF k \in 1..n THEN log[k] ELSE Current
    BY <1>1, <2>1
  <2>4. \A k \in 1..(n + 1) : next[k] = IF k \in 1..n THEN log[k] ELSE Current
    BY <1>1, <2>2
  <2> HIDE DEF extended, next, log
  <2>5. \A k \in 1..(n + 1) : next[k] = extended[k]
    BY <2>3, <2>4
  <2> QED BY <2>1, <2>2, <2>5 DEF extended
<1>6. \A k \in 1..Len(log) : log[k] < Current
  BY <1>4
<1>7. (manifest' = "sealed") = (manifest = "sealed")
  OBVIOUS
<1> QED BY <1>1, <1>3, <1>5, <1>6, <1>7 DEF Log!LogNext, Log!Extend

(* events.jsonl is a TraceLog: it only grows, in call order, and not any   *)
(* more once the manifest is sealed (#write, close()).                     *)
THEOREM LogRefined == WriterSpec => ImplementsTraceLog
<1>1. WriterInit => Log!LogInit
  BY DEF WriterInit, Log!LogInit
<1>2. IInv /\ [WriterNext]_writerVars => [Log!LogNext]_(Log!logVars)
  <2> SUFFICES ASSUME IInv, WriterNext \/ UNCHANGED writerVars
               PROVE  Log!LogNext \/ UNCHANGED Log!logVars
    OBVIOUS
  <2>1. CASE UNCHANGED <<lines, manifest>>
    BY <2>1 DEF Log!logVars
  <2>2. CASE WriteReturns
    <3>1. PICK whole \in BOOLEAN : Land(whole)
      BY <2>2 DEF WriteReturns
    <3> QED BY <2>2, <3>1, LandExtends DEF WriteReturns, closeVars
  <2>3. CASE Crash
    <3>1. alive /\ manifest' = manifest
      BY <2>3 DEF Crash, closeVars
    <3>2. CASE UNCHANGED fileVars
      BY <2>1, <3>1, <3>2 DEF fileVars
    <3>3. CASE phase = "issued" /\ \E whole \in BOOLEAN : Land(whole)
      BY <3>1, <3>3, LandExtends
    <3> QED BY <2>3, <3>2, <3>3 DEF Crash
  <2>4. CASE ManifestTruncated \/ ManifestWritten
    <3>1. lines' = lines
      BY <2>4 DEF ManifestTruncated, ManifestWritten, fileVars
    <3>2. CASE ManifestWritten
      <4>1. manifest' = "sealed"
        BY <3>2 DEF ManifestWritten
      <4> QED BY <3>1, <4>1 DEF Log!LogNext, Log!Seal
    <3>3. CASE ManifestTruncated
      <4>1. manifest' = "torn" /\ closing = "redactions"
        BY <3>3 DEF ManifestTruncated, CloseStep
      <4>2. manifest # "sealed"
        BY <4>1 DEF IInv, Sealing
      <4> QED BY <3>1, <4>1, <4>2 DEF Log!logVars
    <3> QED BY <2>4, <3>2, <3>3
  <2>5. CASE \/ \E event \in Events : AppendCall(event)
             \/ Spill \/ IssueWrite \/ FailBeforeWrite \/ WriteFails
             \/ CloseBegins \/ TailSettles \/ HandleCloses \/ BlobsCounted \/ LogDigested
             \/ CloseFails \/ UNCHANGED writerVars
    <3>1. UNCHANGED <<lines, manifest>>
      BY <2>5
      DEF AppendCall, Spill, IssueWrite, FailBeforeWrite, WriteFails, CloseBegins,
          TailSettles, HandleCloses, BlobsCounted, LogDigested, CloseFails,
          writerVars, memoryVars, fileVars, closeVars
    <3> QED BY <2>1, <3>1
  <2> QED BY <2>2, <2>3, <2>4, <2>5 DEF WriterNext, Work, CloseWork
<1> QED BY <1>1, <1>2, Invariant, PTL DEF WriterSpec, ImplementsTraceLog, Log!LogSpec

-----------------------------------------------------------------------------
(* The transports: the inductive invariant, for each command. *)

\* What may be in a transport file, and what a transport is.
Records == Commands \union ({"start", "end"} \X Nodes) \union ({"dropped"} \X Nat)
Pieces == [rec : Records, part : {"all", "head", "tail", "object", "newline"}]
Directory == [there : BOOLEAN, owner : BOOLEAN, file : Seq(Pieces), idle : BOOLEAN]
Places ==
  {"idle", "mint", "own", "agent", "drain", "unlink", "rmdir", "append", "ended", "killed"}
Position == [at : Places, kind : Kinds]

Framework ==
  [phase : {"idle", "up", "exited", "left"}, open : SUBSET Nodes, begun : SUBSET Nodes,
   dropped : Nat, report : {"none", "failed"}]

TransportsTyped ==
  /\ wants \in [Runs -> SUBSET Kinds]
  /\ pc \in [Runs -> Position]
  /\ listed \in [Runs -> SUBSET Kinds] /\ failed \in [Runs -> BOOLEAN]
  /\ dir \in [Transport -> Directory]
  /\ py \in Framework /\ IsFiniteSet(py.open)

\* A command lists a transport once it has made it, and goes back to what it listed.
MadeBy(r) ==
  /\ pc[r].at = "idle" => listed[r] = {}
  /\ pc[r].at \in {"mint", "own"} => \A k \in listed[r] : Order(k) < Order(pc[r].kind)
  /\ pc[r].at = "own" =>
       /\ dir[<<r, pc[r].kind>>].there
       /\ ~ dir[<<r, pc[r].kind>>].owner /\ ~ dir[<<r, pc[r].kind>>].idle
  /\ pc[r].at \in {"drain", "unlink", "rmdir", "append"} => pc[r].kind \in listed[r]

\* A command still reads from a transport, or has still to read it.
Needs(r, k) ==
  /\ Alive(r) /\ ~ failed[r]
  /\ \/ pc[r].at \in {"mint", "own", "agent"}
     \/ Order(k) > Order(pc[r].kind)
     \/ k = pc[r].kind /\ pc[r].at \in {"drain", "unlink"}

\* What it needs is there, its own, and not silent for a day.
HeldFor(r) ==
  \A k \in listed[r] :
    Needs(r, k) => dir[<<r, k>>].there /\ dir[<<r, k>>].owner /\ ~ dir[<<r, k>>].idle

\* A transport a command is done with, and one that it has still to remove.
Settled(r, k) ==
  \/ ~ dir[<<r, k>>].there
  \/ <<r, k>> \in told
  \/ failed[r] /\ dir[<<r, k>>].file # << >>
Due(r, k) ==
  \/ pc[r].at \in {"mint", "own", "agent"} /\ k \in listed[r]
  \/ pc[r].at = "own" /\ k = pc[r].kind
  \/ pc[r].at \in {"drain", "unlink", "rmdir"} /\ k \in listed[r] /\ Order(k) >= Order(pc[r].kind)
  \/ pc[r].at = "append" /\ k \in listed[r] /\ Order(k) > Order(pc[r].kind)
  \/ pc[r].at = "killed"
RemovedBy(r) == \A k \in Kinds : Settled(r, k) \/ Due(r, k)

BooksOf(r) == MadeBy(r) /\ HeldFor(r) /\ RemovedBy(r)
TransportBooks == TransportsTyped /\ \A r \in Runs : BooksOf(r)

-----------------------------------------------------------------------------
(* The transports: what a step leaves as it is. *)

\* The four ways in which a step that is not its command's may touch a transport: not
\* at all, a write to it, a sweep that finds it stale, a day that finds it silent.
Near(s, k) ==
  \/ dir'[<<s, k>>] = dir[<<s, k>>]
  \/ /\ dir[<<s, k>>].there /\ dir'[<<s, k>>].there /\ dir'[<<s, k>>].owner = dir[<<s, k>>].owner
     /\ dir'[<<s, k>>].file # << >> /\ ~ dir'[<<s, k>>].idle
  \/ Stale(<<s, k>>) /\ ~ dir'[<<s, k>>].there
  \/ /\ dir'[<<s, k>>].there = dir[<<s, k>>].there /\ dir'[<<s, k>>].owner = dir[<<s, k>>].owner
     /\ dir'[<<s, k>>].file = dir[<<s, k>>].file
     /\ ~ (Alive(s) /\ k \in listed[s] /\ dir[<<s, k>>].owner) /\ pc[s].at # "own"

Undisturbed(s) ==
  /\ pc'[s] = pc[s] /\ listed'[s] = listed[s] /\ failed'[s] = failed[s] /\ told \subseteq told'
  /\ \A k \in Kinds : Near(s, k)

LEMMA OrderIs ==
  /\ \A k \in Kinds : Order(k) \in Nat
  /\ \A j, k \in Kinds : Order(j) = Order(k) => j = k
BY DEF Order, Kinds

\* The same for what is stale: it was some command's own and had been silent.
LEMMA StaleIs ==
  ASSUME NEW s, NEW k, Stale(<<s, k>>)
  PROVE  dir[<<s, k>>].there /\ dir[<<s, k>>].owner /\ dir[<<s, k>>].idle
BY DEF Stale

LEMMA SettledStays ==
  ASSUME NEW s, NEW k, Near(s, k), told \subseteq told', failed[s] => failed'[s], Settled(s, k)
  PROVE  Settled(s, k)'
<1>1. CASE ~ dir[<<s, k>>].there
  BY <1>1 DEF Near, Settled
<1>2. CASE <<s, k>> \in told
  BY <1>2 DEF Settled
<1>3. CASE failed[s] /\ dir[<<s, k>>].file # << >>
  BY <1>3 DEF Near, Settled
<1> QED
  BY <1>1, <1>2, <1>3 DEF Settled

LEMMA UndisturbedKeeps ==
  ASSUME TransportsTyped, NEW s \in Runs, BooksOf(s), Undisturbed(s)
  PROVE  BooksOf(s)'
<1>1. /\ pc'[s] = pc[s] /\ listed'[s] = listed[s] /\ failed'[s] = failed[s] /\ told \subseteq told'
      /\ \A k \in Kinds : Near(s, k)
  BY DEF Undisturbed
<1>2. pc[s].kind \in Kinds /\ listed[s] \subseteq Kinds
  BY DEF TransportsTyped, Position
<1>3. MadeBy(s)'
  <2>1. ASSUME pc[s].at = "own"
        PROVE  /\ dir'[<<s, pc[s].kind>>].there
               /\ ~ dir'[<<s, pc[s].kind>>].owner /\ ~ dir'[<<s, pc[s].kind>>].idle
    <3> DEFINE k == pc[s].kind
    <3>1. dir[<<s, k>>].there /\ ~ dir[<<s, k>>].owner /\ ~ dir[<<s, k>>].idle
      BY <2>1 DEF BooksOf, MadeBy
    <3>2. Near(s, k) /\ ~ Stale(<<s, k>>)
      BY <1>1, <1>2, <3>1, StaleIs
    <3> HIDE DEF k
    <3>3. /\ dir'[<<s, k>>].there
          /\ ~ dir'[<<s, k>>].owner /\ ~ dir'[<<s, k>>].idle
      BY <2>1, <3>1, <3>2 DEF Near
    <3> QED
      BY <3>3 DEF k
  <2> QED
    BY <1>1, <2>1 DEF BooksOf, MadeBy
<1>4. HeldFor(s)'
  <2> SUFFICES ASSUME NEW k \in listed[s], Needs(s, k)'
               PROVE  dir'[<<s, k>>].there /\ dir'[<<s, k>>].owner /\ ~ dir'[<<s, k>>].idle
    BY <1>1 DEF HeldFor
  <2>1. Needs(s, k) /\ Alive(s)
    BY <1>1 DEF Needs, Alive, Over
  <2>2. dir[<<s, k>>].there /\ dir[<<s, k>>].owner /\ ~ dir[<<s, k>>].idle
    BY <2>1 DEF BooksOf, HeldFor
  <2>3. Near(s, k) /\ ~ Stale(<<s, k>>)
    BY <1>1, <1>2, <2>2, StaleIs
  <2> QED
    BY <2>1, <2>2, <2>3 DEF Near
<1>5. RemovedBy(s)'
  <2> SUFFICES ASSUME NEW k \in Kinds
               PROVE  Settled(s, k)' \/ Due(s, k)'
    BY DEF RemovedBy
  <2>1. CASE Settled(s, k)
    BY <1>1, <2>1, SettledStays
  <2>2. CASE Due(s, k)
    BY <1>1, <2>2 DEF Due
  <2> QED
    BY <2>1, <2>2 DEF BooksOf, RemovedBy
<1> QED
  BY <1>3, <1>4, <1>5 DEF BooksOf

\* Where a command goes after a transport.
LEMMA OnwardIs ==
  ASSUME NEW ks \in SUBSET Kinds, NEW k \in Kinds, NEW step, NEW otherwise
  PROVE  \/ /\ Onward(ks, k, step, otherwise) = otherwise
            /\ \A i \in ks : Order(i) <= Order(k)
         \/ \E j \in ks : /\ Onward(ks, k, step, otherwise) = At(step, j)
                          /\ Order(j) > Order(k)
                          /\ \A i \in ks : Order(i) > Order(k) => Order(i) >= Order(j)
<1> DEFINE later == {j \in ks : Order(j) > Order(k)}
<1>1. CASE later = {}
  BY <1>1, OrderIs DEF Onward
<1>2. CASE later # {}
  <2> DEFINE j == CHOOSE i \in later : TRUE
  <2>1. j \in later
    BY <1>2
  <2>2. Onward(ks, k, step, otherwise) = At(step, j)
    BY <1>2 DEF Onward
  <2> HIDE DEF j
  <2>3. \A i \in later : i = j
    <3>1. Order(k) \in {1, 2} /\ Order(j) \in {1, 2} /\ \A i \in ks : Order(i) \in {1, 2}
      BY DEF Order
    <3> QED
      BY <2>1, <3>1, OrderIs
  <2> QED
    BY <2>1, <2>2, <2>3, OrderIs
<1> QED
  BY <1>1, <1>2

LEMMA FirstOfIs ==
  ASSUME NEW ks \in SUBSET Kinds, NEW step, NEW otherwise
  PROVE  \/ FirstOf(ks, step, otherwise) = otherwise /\ ks = {}
         \/ \E j \in ks : /\ FirstOf(ks, step, otherwise) = At(step, j)
                          /\ \A i \in ks : Order(i) >= Order(j)
<1>1. CASE ks = {}
  BY <1>1 DEF FirstOf
<1>2. CASE "shell" \in ks
  <2>1. FirstOf(ks, step, otherwise) = At(step, "shell")
    BY <1>2 DEF FirstOf
  <2>2. \A i \in ks : Order(i) >= Order("shell")
    BY DEF Order
  <2> QED
    BY <1>2, <2>1, <2>2
<1>3. CASE ks # {} /\ "shell" \notin ks
  <2>1. ks = {"spans"}
    BY <1>3 DEF Kinds
  <2>2. FirstOf(ks, step, otherwise) = At(step, "spans")
    BY <1>3 DEF FirstOf
  <2>3. Order("spans") >= Order("spans")
    BY DEF Order
  <2> QED
    BY <2>1, <2>2, <2>3
<1> QED
  BY <1>1, <1>2, <1>3

LEMMA AtIs ==
  ASSUME NEW step, NEW k
  PROVE  At(step, k).at = step /\ At(step, k).kind = k
BY DEF At

LEMMA PositionEdit ==
  ASSUME TransportsTyped, NEW r \in Runs, NEW p \in Position, pc' = [pc EXCEPT ![r] = p]
  PROVE  pc' \in [Runs -> Position] /\ pc'[r] = p /\ \A s \in Runs : s # r => pc'[s] = pc[s]
BY DEF TransportsTyped

LEMMA DirectoryEdit ==
  ASSUME TransportsTyped, NEW r \in Runs, NEW k \in Kinds, NEW d \in Directory,
         dir' = [dir EXCEPT ![<<r, k>>] = d]
  PROVE  /\ dir' \in [Transport -> Directory] /\ dir'[<<r, k>>] = d
         /\ \A s \in Runs, j \in Kinds : s # r \/ j # k => dir'[<<s, j>>] = dir[<<s, j>>]
<1>1. dir \in [Transport -> Directory] /\ <<r, k>> \in Transport
  BY DEF TransportsTyped, Transport
<1>2. \A s \in Runs, j \in Kinds : <<s, j>> \in Transport /\ (s # r \/ j # k => <<s, j>> # <<r, k>>)
  BY DEF Transport
<1> HIDE DEF Transport
<1> QED
  BY <1>1, <1>2

LEMMA TransportFields ==
  ASSUME TransportsTyped, NEW r \in Runs, NEW k \in Kinds
  PROVE  /\ dir[<<r, k>>] \in Directory
         /\ dir[<<r, k>>].there \in BOOLEAN /\ dir[<<r, k>>].owner \in BOOLEAN
         /\ dir[<<r, k>>].idle \in BOOLEAN /\ dir[<<r, k>>].file \in Seq(Pieces)
<1>1. <<r, k>> \in Transport
  BY DEF Transport
<1>2. dir[<<r, k>>] \in Directory
  BY <1>1 DEF TransportsTyped
<1> QED
  BY <1>2 DEF Directory

\* A step of one command that keeps its own books keeps everybody's.
LEMMA CommandKeeps ==
  ASSUME TransportBooks, TransportsTyped', NEW r \in Runs, BooksOf(r)',
         \A s \in Runs : s # r => Undisturbed(s)
  PROVE  TransportBooks'
<1>1. \A s \in Runs : s # r => BooksOf(s)'
  <2> SUFFICES ASSUME NEW s \in Runs, s # r PROVE BooksOf(s)'
    OBVIOUS
  <2> QED
    BY UndisturbedKeeps DEF TransportBooks
<1> QED
  BY <1>1 DEF TransportBooks

-----------------------------------------------------------------------------
(* The transports: the steps of a command. *)

LEMMA GoneIs ==
  Gone \in Directory /\ ~ Gone.there /\ ~ Gone.owner /\ ~ Gone.idle /\ Gone.file = << >>
<1>1. << >> \in Seq(Pieces)
  BY EmptySeq
<1> DEFINE none == << >>
<1>2. Gone = [there |-> FALSE, owner |-> FALSE, file |-> none, idle |-> FALSE]
  BY DEF Gone
<1> HIDE DEF none
<1>3. Gone \in Directory /\ ~ Gone.there /\ ~ Gone.owner /\ ~ Gone.idle /\ Gone.file = none
  BY <1>1, <1>2 DEF Directory, none
<1> QED
  BY <1>3 DEF none

LEMMA UndisturbedIf ==
  ASSUME NEW s, pc'[s] = pc[s], listed'[s] = listed[s], failed'[s] = failed[s],
         told \subseteq told', \A k \in Kinds : dir'[<<s, k>>] = dir[<<s, k>>]
  PROVE  Undisturbed(s)
BY DEF Undisturbed, Near

\* Where each command is, and that it is one of the places there are.
LEMMA CommandFields ==
  ASSUME TransportsTyped, NEW r \in Runs
  PROVE  /\ pc[r] \in Position /\ pc[r].at \in Places /\ pc[r].kind \in Kinds
         /\ listed[r] \subseteq Kinds /\ wants[r] \subseteq Kinds /\ failed[r] \in BOOLEAN
BY DEF TransportsTyped, Position

LEMMA PlaceEdit ==
  ASSUME TransportsTyped, NEW r \in Runs, NEW step \in Places,
         pc' = [pc EXCEPT ![r].at = step]
  PROVE  /\ pc' = [pc EXCEPT ![r] = [at |-> step, kind |-> pc[r].kind]]
         /\ [at |-> step, kind |-> pc[r].kind] \in Position
<1> DEFINE old == pc[r]
           new == [old EXCEPT !.at = step]
<1>1. old \in [at : Places, kind : Kinds]
  BY DEF TransportsTyped, Position
<1>2. pc' = [pc EXCEPT ![r] = new]
  OBVIOUS
<1> HIDE DEF old
<1>3. new = [at |-> step, kind |-> old.kind]
  BY ONLY <1>1
<1>4. [at |-> step, kind |-> old.kind] \in Position
  BY <1>1 DEF Position
<1> QED
  BY <1>2, <1>3, <1>4 DEF old

\* A step that only moves a command on.
MovesOn(r, p) ==
  /\ pc' = [pc EXCEPT ![r] = p]
  /\ UNCHANGED <<wants, listed, dir, failed, told, py>>

LEMMA MovesOnIs ==
  ASSUME TransportsTyped, NEW r \in Runs, NEW p \in Position, MovesOn(r, p)
  PROVE  /\ TransportsTyped' /\ pc'[r] = p
         /\ listed' = listed /\ dir' = dir /\ failed' = failed /\ told' = told
         /\ \A s \in Runs : s # r => Undisturbed(s)
<1>1. /\ wants' = wants /\ listed' = listed /\ dir' = dir /\ failed' = failed /\ told' = told
      /\ py' = py
  BY DEF MovesOn
<1>2. pc' \in [Runs -> Position] /\ pc'[r] = p /\ \A s \in Runs : s # r => pc'[s] = pc[s]
  BY PositionEdit DEF MovesOn
<1>3. TransportsTyped'
  BY <1>1, <1>2 DEF TransportsTyped, Position, Directory, Pieces, Records, Framework
<1>4. \A s \in Runs : s # r => Undisturbed(s)
  BY <1>1, <1>2, UndisturbedIf
<1> QED
  BY <1>1, <1>2, <1>3, <1>4

LEMMA ExitsKeeps ==
  ASSUME TransportBooks, NEW r \in Runs, Exits(r)
  PROVE  TransportBooks'
<1> DEFINE p == FirstOf(listed[r], "drain", At("ended", "shell"))
<1>0. TransportsTyped /\ BooksOf(r)
  BY DEF TransportBooks
<1>1. pc[r].at = "agent" /\ MovesOn(r, p)
  BY DEF Exits, MovesOn, agentVars
<1>2. \/ p = At("ended", "shell") /\ listed[r] = {}
      \/ \E j \in listed[r] : p = At("drain", j) /\ \A i \in listed[r] : Order(i) >= Order(j)
  BY <1>0, CommandFields, FirstOfIs
<1> HIDE DEF p
<1>3. p \in Position
  <2>1. At("ended", "shell") \in Position /\ \A j \in Kinds : At("drain", j) \in Position
    BY DEF At, Position, Places, Kinds
  <2> QED
    BY <1>0, <1>2, <2>1, CommandFields
<1>4. /\ TransportsTyped' /\ pc'[r] = p
      /\ listed' = listed /\ dir' = dir /\ failed' = failed /\ told' = told
      /\ \A s \in Runs : s # r => Undisturbed(s)
  BY <1>0, <1>1, <1>3, MovesOnIs
<1>5. \/ p.at = "ended" /\ listed[r] = {}
      \/ p.at = "drain" /\ p.kind \in listed[r] /\ \A i \in listed[r] : Order(i) >= Order(p.kind)
  BY <1>2, AtIs
<1>6. MadeBy(r)'
  BY <1>4, <1>5 DEF MadeBy
<1>7. HeldFor(r)'
  <2> SUFFICES ASSUME NEW k \in listed[r], Needs(r, k)'
               PROVE  dir[<<r, k>>].there /\ dir[<<r, k>>].owner /\ ~ dir[<<r, k>>].idle
    BY <1>4 DEF HeldFor
  <2>1. Needs(r, k)
    BY <1>1, <1>4 DEF Needs, Alive, Over
  <2> QED
    BY <1>0, <2>1 DEF BooksOf, HeldFor
<1>8. RemovedBy(r)'
  <2> SUFFICES ASSUME NEW k \in Kinds PROVE Settled(r, k)' \/ Due(r, k)'
    BY DEF RemovedBy
  <2>1. CASE Settled(r, k)
    BY <2>1, <1>4 DEF Settled
  <2>2. CASE Due(r, k)
    <3>1. k \in listed[r]
      BY <2>2, <1>1 DEF Due
    <3> QED
      BY <3>1, <1>4, <1>5 DEF Due
  <2> QED
    BY <1>0, <2>1, <2>2 DEF BooksOf, RemovedBy
<1> QED
  BY <1>4, <1>6, <1>7, <1>8, CommandKeeps DEF BooksOf

LEMMA DrainKeeps ==
  ASSUME TransportBooks, NEW r \in Runs, Drain(r)
  PROVE  TransportBooks'
<1> DEFINE p == [at |-> "unlink", kind |-> pc[r].kind]
<1>0. TransportsTyped /\ BooksOf(r) /\ pc[r] \in Position /\ pc[r].kind \in Kinds
  BY CommandFields DEF TransportBooks
<1>1. /\ pc[r].at = "drain" /\ pc' = [pc EXCEPT ![r].at = "unlink"]
      /\ UNCHANGED <<wants, listed, dir, failed, told, py>>
  BY DEF Drain, agentVars
<1>2. pc' = [pc EXCEPT ![r] = p] /\ p \in Position
  <2>1. "unlink" \in Places
    BY DEF Places
  <2> QED
    BY <1>0, <1>1, <2>1, PlaceEdit
<1>3. p \in Position /\ p.at = "unlink" /\ p.kind = pc[r].kind
  BY <1>2
<1> HIDE DEF p
<1>4. /\ TransportsTyped' /\ pc'[r] = p
      /\ listed' = listed /\ dir' = dir /\ failed' = failed /\ told' = told
      /\ \A s \in Runs : s # r => Undisturbed(s)
  BY <1>0, <1>1, <1>2, <1>3, MovesOnIs DEF MovesOn
<1>6. MadeBy(r)'
  BY <1>0, <1>1, <1>3, <1>4 DEF MadeBy, BooksOf
<1>7. HeldFor(r)'
  <2> SUFFICES ASSUME NEW k \in listed[r], Needs(r, k)'
               PROVE  dir[<<r, k>>].there /\ dir[<<r, k>>].owner /\ ~ dir[<<r, k>>].idle
    BY <1>4 DEF HeldFor
  <2>1. Needs(r, k)
    BY <1>1, <1>3, <1>4 DEF Needs, Alive, Over
  <2> QED
    BY <1>0, <2>1 DEF BooksOf, HeldFor
<1>8. RemovedBy(r)'
  <2> SUFFICES ASSUME NEW k \in Kinds PROVE Settled(r, k)' \/ Due(r, k)'
    BY DEF RemovedBy
  <2>1. CASE Settled(r, k)
    BY <2>1, <1>4 DEF Settled
  <2>2. CASE Due(r, k)
    BY <2>2, <1>1, <1>3, <1>4 DEF Due
  <2> QED
    BY <1>0, <2>1, <2>2 DEF BooksOf, RemovedBy
<1> QED
  BY <1>4, <1>6, <1>7, <1>8, CommandKeeps DEF BooksOf

LEMMA AppendEventsKeeps ==
  ASSUME TransportBooks, NEW r \in Runs, AppendEvents(r)
  PROVE  TransportBooks'
<1> DEFINE k == pc[r].kind
           p == Onward(listed[r], k, "drain", At("ended", k))
<1>0. TransportsTyped /\ BooksOf(r) /\ k \in Kinds /\ listed[r] \subseteq Kinds
  BY CommandFields DEF TransportBooks
<1>1. pc[r].at = "append" /\ MovesOn(r, p)
  BY DEF AppendEvents, MovesOn, agentVars
<1>2. \/ p = At("ended", k) /\ \A i \in listed[r] : Order(i) <= Order(k)
      \/ \E j \in listed[r] : /\ p = At("drain", j) /\ Order(j) > Order(k)
                              /\ \A i \in listed[r] : Order(i) > Order(k) => Order(i) >= Order(j)
  <2> HIDE DEF k
  <2> QED
    BY <1>0, OnwardIs
<1> HIDE DEF p
<1>3. p \in Position
  <2>1. \A j \in Kinds : At("drain", j) \in Position /\ At("ended", j) \in Position
    BY DEF At, Position, Places
  <2> QED
    BY <1>0, <1>2, <2>1
<1>4. /\ TransportsTyped' /\ pc'[r] = p
      /\ listed' = listed /\ dir' = dir /\ failed' = failed /\ told' = told
      /\ \A s \in Runs : s # r => Undisturbed(s)
  BY <1>0, <1>1, <1>3, MovesOnIs
<1>5. \/ p.at = "ended" /\ \A i \in listed[r] : Order(i) <= Order(k)
      \/ /\ p.at = "drain" /\ p.kind \in listed[r] /\ Order(p.kind) > Order(k)
         /\ \A i \in listed[r] : Order(i) > Order(k) => Order(i) >= Order(p.kind)
  BY <1>2, AtIs
<1>9. \A i \in listed[r] : Order(i) \in Nat /\ Order(k) \in Nat
  BY <1>0, OrderIs
<1>6. MadeBy(r)'
  BY <1>4, <1>5 DEF MadeBy
<1>7. HeldFor(r)'
  <2> SUFFICES ASSUME NEW i \in listed[r], Needs(r, i)'
               PROVE  dir[<<r, i>>].there /\ dir[<<r, i>>].owner /\ ~ dir[<<r, i>>].idle
    BY <1>4 DEF HeldFor
  <2>1. Order(i) > Order(k)
    <3>1. /\ p.at # "ended" /\ (Order(i) > Order(p.kind) \/ i = p.kind \/ p.at \in {"mint", "own", "agent"})
      BY <1>4 DEF Needs, Alive, Over
    <3>2. /\ p.at = "drain" /\ p.kind \in listed[r] /\ Order(p.kind) > Order(k)
      BY <3>1, <1>5
    <3> HIDE DEF k
    <3> QED
      BY <3>1, <3>2, <1>9
  <2>2. Needs(r, i)
    BY <2>1, <1>1, <1>4 DEF Needs, Alive, Over
  <2> QED
    BY <1>0, <2>2 DEF BooksOf, HeldFor
<1>8. RemovedBy(r)'
  <2> SUFFICES ASSUME NEW i \in Kinds PROVE Settled(r, i)' \/ Due(r, i)'
    BY DEF RemovedBy
  <2>1. CASE Settled(r, i)
    BY <2>1, <1>4 DEF Settled
  <2>2. CASE Due(r, i)
    <3>1. i \in listed[r] /\ Order(i) > Order(k)
      BY <2>2, <1>1 DEF Due
    <3>2. p.at = "drain" /\ Order(i) >= Order(p.kind)
      <4> HIDE DEF k
      <4> QED
        BY <3>1, <1>5, <1>9
    <3> QED
      BY <3>1, <3>2, <1>4 DEF Due
  <2> QED
    BY <1>0, <2>1, <2>2 DEF BooksOf, RemovedBy
<1> QED
  BY <1>4, <1>6, <1>7, <1>8, CommandKeeps DEF BooksOf

LEMMA KillKeeps ==
  ASSUME TransportBooks, NEW r \in Runs, Kill(r)
  PROVE  TransportBooks'
<1> DEFINE p == [at |-> "killed", kind |-> pc[r].kind]
<1>0. TransportsTyped /\ BooksOf(r) /\ pc[r] \in Position /\ pc[r].kind \in Kinds
  BY CommandFields DEF TransportBooks
<1>1. /\ pc' = [pc EXCEPT ![r].at = "killed"]
      /\ UNCHANGED <<wants, listed, dir, failed, told, py>>
  BY DEF Kill, agentVars
<1>2. pc' = [pc EXCEPT ![r] = p] /\ p \in Position
  <2>1. "killed" \in Places
    BY DEF Places
  <2> QED
    BY <1>0, <1>1, <2>1, PlaceEdit
<1>3. p \in Position /\ p.at = "killed"
  BY <1>2
<1> HIDE DEF p
<1>4. /\ TransportsTyped' /\ pc'[r] = p
      /\ \A s \in Runs : s # r => Undisturbed(s)
  BY <1>0, <1>1, <1>2, <1>3, MovesOnIs DEF MovesOn
<1>5. BooksOf(r)'
  BY <1>3, <1>4 DEF BooksOf, MadeBy, HeldFor, RemovedBy, Needs, Due, Alive, Over
<1> QED
  BY <1>4, <1>5, CommandKeeps

LEMMA ThrowsKeeps ==
  ASSUME TransportBooks, NEW r \in Runs, Throws(r)
  PROVE  TransportBooks'
<1> DEFINE p == FirstOf(listed[r], "unlink", At("ended", "shell"))
<1>0. TransportsTyped /\ BooksOf(r) /\ listed[r] \subseteq Kinds
  BY CommandFields DEF TransportBooks
<1>1. /\ pc[r].at \in {"agent", "append"} /\ pc' = [pc EXCEPT ![r] = p]
      /\ failed' = [failed EXCEPT ![r] = TRUE]
      /\ UNCHANGED <<wants, listed, dir, told, py>>
  BY DEF Throws, CleansUp, agentVars
<1>2. \/ p = At("ended", "shell") /\ listed[r] = {}
      \/ \E j \in listed[r] : p = At("unlink", j) /\ \A i \in listed[r] : Order(i) >= Order(j)
  BY <1>0, FirstOfIs
<1> HIDE DEF p
<1>3. p \in Position
  <2>1. At("ended", "shell") \in Position /\ \A j \in Kinds : At("unlink", j) \in Position
    BY DEF At, Position, Places, Kinds
  <2> QED
    BY <1>0, <1>2, <2>1
<1>4. pc' \in [Runs -> Position] /\ pc'[r] = p /\ \A s \in Runs : s # r => pc'[s] = pc[s]
  BY <1>0, <1>1, <1>3, PositionEdit
<1>5. /\ failed' \in [Runs -> BOOLEAN] /\ failed'[r] = TRUE
      /\ \A s \in Runs : s # r => failed'[s] = failed[s]
  BY <1>0, <1>1 DEF TransportsTyped
<1>6. wants' = wants /\ listed' = listed /\ dir' = dir /\ told' = told /\ py' = py
  BY <1>1
<1>7. TransportsTyped'
  BY <1>0, <1>4, <1>5, <1>6 DEF TransportsTyped, Position, Directory, Pieces, Records, Framework
<1>8. \A s \in Runs : s # r => Undisturbed(s)
  BY <1>4, <1>5, <1>6, UndisturbedIf
<1>9. \/ p.at = "ended" /\ listed[r] = {}
      \/ p.at = "unlink" /\ p.kind \in listed[r] /\ \A i \in listed[r] : Order(i) >= Order(p.kind)
  BY <1>2, AtIs
<1>10. MadeBy(r)'
  BY <1>4, <1>6, <1>9 DEF MadeBy
<1>11. HeldFor(r)'
  BY <1>5 DEF HeldFor, Needs
<1>12. RemovedBy(r)'
  <2> SUFFICES ASSUME NEW k \in Kinds PROVE Settled(r, k)' \/ Due(r, k)'
    BY DEF RemovedBy
  <2>1. CASE Settled(r, k)
    BY <2>1, <1>5, <1>6 DEF Settled
  <2>2. CASE Due(r, k)
    <3>1. k \in listed[r]
      BY <2>2, <1>1 DEF Due
    <3> QED
      BY <3>1, <1>4, <1>6, <1>9 DEF Due
  <2> QED
    BY <1>0, <2>1, <2>2 DEF BooksOf, RemovedBy
<1> QED
  BY <1>7, <1>8, <1>10, <1>11, <1>12, CommandKeeps DEF BooksOf

LEMMA SweepKeeps ==
  ASSUME TransportBooks, NEW r \in Runs, Sweep(r)
  PROVE  TransportBooks'
<1> DEFINE p == FirstOf(wants[r], "mint", At("agent", "shell"))
<1>0. TransportsTyped /\ BooksOf(r) /\ wants[r] \subseteq Kinds
  BY CommandFields DEF TransportBooks
<1>1. /\ pc[r].at = "idle" /\ pc' = [pc EXCEPT ![r] = p]
      /\ wants' = wants /\ listed' = listed /\ failed' = failed /\ told' = told /\ py' = py
      /\ dir' = [t \in Transport |-> IF Stale(t) THEN Gone ELSE dir[t]]
  BY DEF Sweep, agentVars
<1>2. \/ p = At("agent", "shell")
      \/ \E j \in wants[r] : p = At("mint", j)
  BY <1>0, FirstOfIs
<1> HIDE DEF p
<1>3. p \in Position /\ p.at \in {"agent", "mint"}
  <2>1. At("agent", "shell") \in Position /\ \A j \in Kinds : At("mint", j) \in Position
    BY DEF At, Position, Places, Kinds
  <2> QED
    BY <1>0, <1>2, <2>1, AtIs
<1>4. pc' \in [Runs -> Position] /\ pc'[r] = p /\ \A s \in Runs : s # r => pc'[s] = pc[s]
  BY <1>0, <1>1, <1>3, PositionEdit
<1>5. dir' \in [Transport -> Directory]
  BY <1>0, <1>1, GoneIs DEF TransportsTyped
<1>6. TransportsTyped'
  BY <1>0, <1>1, <1>4, <1>5 DEF TransportsTyped, Position, Directory, Pieces, Records, Framework
<1>7. ASSUME NEW s \in Runs, NEW k \in Kinds PROVE Near(s, k)
  <2>1. <<s, k>> \in Transport
    BY DEF Transport
  <2>2. dir'[<<s, k>>] = IF Stale(<<s, k>>) THEN Gone ELSE dir[<<s, k>>]
    BY <1>1, <2>1
  <2> QED
    BY <2>2, GoneIs DEF Near
<1>8. \A s \in Runs : s # r => Undisturbed(s)
  BY <1>1, <1>4, <1>7 DEF Undisturbed
<1>9. listed'[r] = {}
  BY <1>0, <1>1 DEF BooksOf, MadeBy
<1>10. MadeBy(r)' /\ HeldFor(r)'
  BY <1>3, <1>4, <1>9 DEF MadeBy, HeldFor
<1>11. RemovedBy(r)'
  <2> SUFFICES ASSUME NEW k \in Kinds PROVE Settled(r, k)' \/ Due(r, k)'
    BY DEF RemovedBy
  <2>1. Settled(r, k)
    BY <1>0, <1>1 DEF BooksOf, RemovedBy, Due
  <2> QED
    BY <2>1, <1>1, <1>7, SettledStays
<1> QED
  BY <1>6, <1>8, <1>10, <1>11, CommandKeeps DEF BooksOf

LEMMA MintKeeps ==
  ASSUME TransportBooks, NEW r \in Runs, Mint(r)
  PROVE  TransportBooks'
<1> DEFINE k == pc[r].kind
           p == [at |-> "own", kind |-> pc[r].kind]
           d == [Gone EXCEPT !.there = TRUE]
<1>0. TransportsTyped /\ BooksOf(r) /\ k \in Kinds /\ listed[r] \subseteq Kinds
  BY CommandFields DEF TransportBooks
<1>1. /\ pc[r].at = "mint" /\ pc' = [pc EXCEPT ![r].at = "own"]
      /\ dir' = [dir EXCEPT ![<<r, k>>] = d]
      /\ wants' = wants /\ listed' = listed /\ failed' = failed /\ told' = told /\ py' = py
  BY DEF Mint, agentVars
<1>2. d \in Directory /\ d.there /\ ~ d.owner /\ ~ d.idle
  <2> DEFINE g == Gone
  <2>1. g \in [there : BOOLEAN, owner : BOOLEAN, file : Seq(Pieces), idle : BOOLEAN] /\ ~ g.owner /\ ~ g.idle
    BY GoneIs DEF Directory
  <2> HIDE DEF g
  <2>2. /\ [g EXCEPT !.there = TRUE] \in [there : BOOLEAN, owner : BOOLEAN, file : Seq(Pieces), idle : BOOLEAN]
        /\ [g EXCEPT !.there = TRUE].there
        /\ ~ [g EXCEPT !.there = TRUE].owner /\ ~ [g EXCEPT !.there = TRUE].idle
    BY ONLY <2>1
  <2> QED
    BY <2>2 DEF g, Directory
<1> HIDE DEF d
<1>3. pc' = [pc EXCEPT ![r] = p] /\ p \in Position
  <2>1. "own" \in Places
    BY DEF Places
  <2> QED
    BY <1>0, <1>1, <2>1, PlaceEdit
<1>12. p.at = "own" /\ p.kind = k
  OBVIOUS
<1> HIDE DEF p, k
<1>4. pc' \in [Runs -> Position] /\ pc'[r] = p /\ \A s \in Runs : s # r => pc'[s] = pc[s]
  BY <1>0, <1>3, PositionEdit
<1>5. /\ dir' \in [Transport -> Directory] /\ dir'[<<r, k>>] = d
      /\ \A s \in Runs, j \in Kinds : s # r \/ j # k => dir'[<<s, j>>] = dir[<<s, j>>]
  BY <1>0, <1>1, <1>2, DirectoryEdit
<1>6. TransportsTyped'
  BY <1>0, <1>1, <1>4, <1>5 DEF TransportsTyped, Position, Directory, Pieces, Records, Framework
<1>7. \A s \in Runs : s # r => Undisturbed(s)
  BY <1>1, <1>4, <1>5, UndisturbedIf
<1>8. \A i \in listed[r] : Order(i) < Order(k) /\ i # k /\ i \in Kinds
  <2>1. \A i \in listed[r] : Order(i) < Order(k)
    BY <1>0, <1>1 DEF BooksOf, MadeBy, k
  <2> QED
    BY <1>0, <2>1, OrderIs
<1>9. MadeBy(r)'
  BY <1>1, <1>2, <1>4, <1>5, <1>8, <1>12 DEF MadeBy
<1>10. HeldFor(r)'
  <2> SUFFICES ASSUME NEW i \in listed[r], Needs(r, i)'
               PROVE  dir'[<<r, i>>].there /\ dir'[<<r, i>>].owner /\ ~ dir'[<<r, i>>].idle
    BY <1>1 DEF HeldFor
  <2>1. Needs(r, i)
    BY <1>1, <1>4, <1>12 DEF Needs, Alive, Over
  <2>2. dir'[<<r, i>>] = dir[<<r, i>>]
    BY <1>5, <1>8
  <2> QED
    BY <1>0, <2>1, <2>2 DEF BooksOf, HeldFor
<1>11. RemovedBy(r)'
  <2> SUFFICES ASSUME NEW i \in Kinds PROVE Settled(r, i)' \/ Due(r, i)'
    BY DEF RemovedBy
  <2>1. CASE i = k
    BY <2>1, <1>4, <1>12 DEF Due
  <2>2. CASE i # k /\ Settled(r, i)
    BY <2>2, <1>1, <1>5 DEF Settled
  <2>3. CASE i # k /\ Due(r, i)
    BY <2>3, <1>1, <1>4, <1>12 DEF Due
  <2> QED
    BY <1>0, <2>1, <2>2, <2>3 DEF BooksOf, RemovedBy
<1> QED
  BY <1>6, <1>7, <1>9, <1>10, <1>11, CommandKeeps DEF BooksOf

\* Where a command goes when a transport is made, or could not be installed.
LEMMA NextMint ==
  ASSUME TransportsTyped, NEW r \in Runs, NEW k \in Kinds, NEW p,
         p = Onward(wants[r], k, "mint", At("agent", "shell"))
  PROVE  /\ p \in Position /\ p.at \in {"agent", "mint"}
         /\ p.at = "mint" => Order(p.kind) > Order(k)
<1>1. wants[r] \subseteq Kinds
  BY CommandFields
<1>2. \/ p = At("agent", "shell")
      \/ \E j \in wants[r] : p = At("mint", j) /\ Order(j) > Order(k)
  BY <1>1, OnwardIs
<1>3. At("agent", "shell") \in Position /\ \A j \in Kinds : At("mint", j) \in Position
  BY DEF At, Position, Places, Kinds
<1> QED
  BY <1>1, <1>2, <1>3, AtIs

LEMMA OwnKeeps ==
  ASSUME TransportBooks, NEW r \in Runs, Own(r)
  PROVE  TransportBooks'
<1> DEFINE k == pc[r].kind
           p == Onward(wants[r], k, "mint", At("agent", "shell"))
           d == [dir[<<r, k>>] EXCEPT !.owner = TRUE]
<1>0. TransportsTyped /\ BooksOf(r) /\ k \in Kinds /\ listed[r] \subseteq Kinds
  BY CommandFields DEF TransportBooks
<1>1. /\ pc[r].at = "own" /\ pc' = [pc EXCEPT ![r] = p]
      /\ listed' = [listed EXCEPT ![r] = @ \union {k}]
      /\ wants' = wants /\ failed' = failed /\ told' = told /\ py' = py
  BY DEF Own, Lists, agentVars
<1>2. dir' = [dir EXCEPT ![<<r, k>>] = d]
  BY DEF Own
<1>3. d \in Directory /\ d.owner /\ d.there /\ ~ d.idle
  <2> DEFINE g == dir[<<r, k>>]
  <2>1. g \in [there : BOOLEAN, owner : BOOLEAN, file : Seq(Pieces), idle : BOOLEAN] /\ g.there /\ ~ g.idle
    BY <1>0, <1>1, TransportFields DEF Directory, BooksOf, MadeBy
  <2> HIDE DEF g
  <2>2. /\ [g EXCEPT !.owner = TRUE] \in [there : BOOLEAN, owner : BOOLEAN, file : Seq(Pieces), idle : BOOLEAN]
        /\ [g EXCEPT !.owner = TRUE].owner
        /\ [g EXCEPT !.owner = TRUE].there /\ ~ [g EXCEPT !.owner = TRUE].idle
    BY ONLY <2>1
  <2> QED
    BY <2>2 DEF g, Directory
<1>4. /\ p \in Position /\ p.at \in {"agent", "mint"}
      /\ p.at = "mint" => Order(p.kind) > Order(k)
  BY <1>0, NextMint
<1>13. \A i \in listed[r] : Order(i) < Order(k) /\ i \in Kinds
  BY <1>0, <1>1 DEF BooksOf, MadeBy
<1>14. \A i \in Kinds : Due(r, i) => i \in listed[r] \/ i = k
  BY <1>1 DEF Due
<1> HIDE DEF p, k, d
<1>5. pc' \in [Runs -> Position] /\ pc'[r] = p /\ \A s \in Runs : s # r => pc'[s] = pc[s]
  BY <1>0, <1>1, <1>4, PositionEdit
<1>6. /\ dir' \in [Transport -> Directory] /\ dir'[<<r, k>>] = d
      /\ \A s \in Runs, j \in Kinds : s # r \/ j # k => dir'[<<s, j>>] = dir[<<s, j>>]
  BY <1>0, <1>2, <1>3, DirectoryEdit
<1>7. /\ listed' \in [Runs -> SUBSET Kinds] /\ listed'[r] = listed[r] \union {k}
      /\ \A s \in Runs : s # r => listed'[s] = listed[s]
  BY <1>0, <1>1 DEF TransportsTyped
<1>8. TransportsTyped'
  BY <1>0, <1>1, <1>5, <1>6, <1>7
     DEF TransportsTyped, Position, Directory, Pieces, Records, Framework
<1>9. \A s \in Runs : s # r => Undisturbed(s)
  BY <1>1, <1>5, <1>6, <1>7, UndisturbedIf
<1>10. MadeBy(r)'
  <2>1. p.at = "mint" => \A i \in listed[r] \union {k} : Order(i) < Order(p.kind)
    <3>1. \A i \in Kinds : Order(i) \in Nat
      BY OrderIs
    <3>2. p.kind \in Kinds
      BY <1>4 DEF Position
    <3> QED
      BY ONLY <3>1, <3>2, <1>0, <1>4, <1>13
  <2> QED
    BY <2>1, <1>4, <1>5, <1>7 DEF MadeBy
<1>11. HeldFor(r)'
  <2> SUFFICES ASSUME NEW i \in listed[r] \union {k}, Needs(r, i)'
               PROVE  dir'[<<r, i>>].there /\ dir'[<<r, i>>].owner /\ ~ dir'[<<r, i>>].idle
    BY <1>7 DEF HeldFor
  <2>1. CASE i = k
    BY <2>1, <1>3, <1>6
  <2>2. CASE i # k
    <3>1. Needs(r, i) /\ i \in listed[r]
      BY <2>2, <1>1, <1>4, <1>5 DEF Needs, Alive, Over
    <3>2. dir'[<<r, i>>] = dir[<<r, i>>]
      BY <2>2, <3>1, <1>6, <1>13
    <3> QED
      BY <1>0, <3>1, <3>2 DEF BooksOf, HeldFor
  <2> QED
    BY <2>1, <2>2
<1>12. RemovedBy(r)'
  <2> SUFFICES ASSUME NEW i \in Kinds PROVE Settled(r, i)' \/ Due(r, i)'
    BY DEF RemovedBy
  <2>1. CASE i = k \/ i \in listed[r]
    BY <2>1, <1>4, <1>5, <1>7 DEF Due
  <2>2. CASE i # k /\ Settled(r, i)
    BY <2>2, <1>1, <1>6 DEF Settled
  <2> QED
    BY <1>0, <1>14, <2>1, <2>2 DEF BooksOf, RemovedBy
<1> QED
  BY <1>8, <1>9, <1>10, <1>11, <1>12, CommandKeeps DEF BooksOf

LEMMA NotInstalledKeeps ==
  ASSUME TransportBooks, NEW r \in Runs, NotInstalled(r)
  PROVE  TransportBooks'
<1> DEFINE k == "shell"
           p == Onward(wants[r], k, "mint", At("agent", "shell"))
<1>0. TransportsTyped /\ BooksOf(r) /\ k \in Kinds /\ listed[r] \subseteq Kinds
  BY CommandFields DEF TransportBooks, Kinds
<1>1. /\ pc[r].at = "own" /\ pc[r].kind = k /\ pc' = [pc EXCEPT ![r] = p]
      /\ told' = told \union {<<r, k>>}
      /\ wants' = wants /\ listed' = listed /\ dir' = dir /\ failed' = failed /\ py' = py
  BY AtIs DEF NotInstalled, agentVars
<1>4. /\ p \in Position /\ p.at \in {"agent", "mint"}
      /\ p.at = "mint" => Order(p.kind) > Order(k)
  BY <1>0, NextMint
<1> HIDE DEF p, k
<1>13. \A i \in listed[r] : Order(i) < Order(k) /\ i \in Kinds
  BY <1>0, <1>1 DEF BooksOf, MadeBy
<1>5. pc' \in [Runs -> Position] /\ pc'[r] = p /\ \A s \in Runs : s # r => pc'[s] = pc[s]
  BY <1>0, <1>1, <1>4, PositionEdit
<1>8. TransportsTyped'
  BY <1>0, <1>1, <1>5 DEF TransportsTyped, Position, Directory, Pieces, Records, Framework
<1>9. \A s \in Runs : s # r => Undisturbed(s)
  BY <1>1, <1>5, UndisturbedIf
<1>10. MadeBy(r)'
  <2>1. p.at = "mint" => \A i \in listed[r] : Order(i) < Order(p.kind)
    <3>1. \A i \in Kinds : Order(i) \in Nat
      BY OrderIs
    <3>2. p.kind \in Kinds
      BY <1>4 DEF Position
    <3> QED
      BY ONLY <3>1, <3>2, <1>0, <1>4, <1>13
  <2> QED
    BY <2>1, <1>1, <1>4, <1>5 DEF MadeBy
<1>11. HeldFor(r)'
  <2> SUFFICES ASSUME NEW i \in listed[r], Needs(r, i)'
               PROVE  dir[<<r, i>>].there /\ dir[<<r, i>>].owner /\ ~ dir[<<r, i>>].idle
    BY <1>1 DEF HeldFor
  <2>1. Needs(r, i)
    BY <1>1, <1>4, <1>5 DEF Needs, Alive, Over
  <2> QED
    BY <1>0, <2>1 DEF BooksOf, HeldFor
<1>12. RemovedBy(r)'
  <2> SUFFICES ASSUME NEW i \in Kinds PROVE Settled(r, i)' \/ Due(r, i)'
    BY DEF RemovedBy
  <2>1. CASE i = k
    BY <2>1, <1>1 DEF Settled
  <2>2. CASE Settled(r, i)
    BY <2>2, <1>1 DEF Settled
  <2>3. CASE Due(r, i) /\ i # k
    BY <2>3, <1>1, <1>4, <1>5 DEF Due
  <2> QED
    BY <1>0, <2>1, <2>2, <2>3 DEF BooksOf, RemovedBy
<1> QED
  BY <1>8, <1>9, <1>10, <1>11, <1>12, CommandKeeps DEF BooksOf

LEMMA UnlinkKeeps ==
  ASSUME TransportBooks, NEW r \in Runs, Unlink(r)
  PROVE  TransportBooks'
<1> DEFINE k == pc[r].kind
           p == [at |-> "rmdir", kind |-> pc[r].kind]
           d == dir'[<<r, k>>]
<1>0. TransportsTyped /\ BooksOf(r) /\ k \in Kinds /\ listed[r] \subseteq Kinds
  BY CommandFields DEF TransportBooks
<1>1. /\ pc[r].at = "unlink" /\ pc' = [pc EXCEPT ![r].at = "rmdir"]
      /\ dir' = [dir EXCEPT ![<<r, k>>].owner = FALSE, ![<<r, k>>].file = << >>]
      /\ wants' = wants /\ listed' = listed /\ failed' = failed /\ told' = told /\ py' = py
  BY DEF Unlink, agentVars
<1>2. /\ dir' \in [Transport -> Directory] /\ d.there = dir[<<r, k>>].there
      /\ \A s \in Runs, j \in Kinds : s # r \/ j # k => dir'[<<s, j>>] = dir[<<s, j>>]
  <2> DEFINE none == << >>
             a == <<r, k>>
  <2>1. none \in Seq(Pieces)
    BY EmptySeq
  <2>2. a \in Transport /\ \A s \in Runs, j \in Kinds : <<s, j>> \in Transport /\ (s # r \/ j # k => <<s, j>> # a)
    BY <1>0 DEF Transport
  <2>3. dir' = [dir EXCEPT ![a].owner = FALSE, ![a].file = none]
    BY <1>1
  <2>4. dir \in [Transport -> Directory]
    BY <1>0 DEF TransportsTyped
  <2> HIDE DEF none, a, k
  <2>5. dir' \in [Transport -> Directory]
    BY ONLY <2>1, <2>2, <2>3, <2>4 DEF Directory
  <2>6. dir'[a].there = dir[a].there
    BY ONLY <2>2, <2>3, <2>4 DEF Directory
  <2>7. \A t \in Transport : t # a => dir'[t] = dir[t]
    BY ONLY <2>2, <2>3, <2>4
  <2> QED
    BY <2>2, <2>5, <2>6, <2>7 DEF a
<1>3. pc' = [pc EXCEPT ![r] = p] /\ p \in Position
  <2>1. "rmdir" \in Places
    BY DEF Places
  <2> QED
    BY <1>0, <1>1, <2>1, PlaceEdit
<1>12. p.at = "rmdir" /\ p.kind = k
  OBVIOUS
<1>13. k \in listed[r]
  BY <1>0, <1>1 DEF BooksOf, MadeBy
<1>14. \A i \in Kinds : Due(r, i) => i \in listed[r] /\ Order(i) >= Order(k)
  BY <1>1 DEF Due
<1>15. ASSUME NEW i \in listed[r], Alive(r), ~ failed[r], Order(i) > Order(k) PROVE Needs(r, i)
  BY <1>15 DEF Needs
<1> HIDE DEF p, k, d
<1>4. pc' \in [Runs -> Position] /\ pc'[r] = p /\ \A s \in Runs : s # r => pc'[s] = pc[s]
  BY <1>0, <1>3, PositionEdit
<1>6. TransportsTyped'
  BY <1>0, <1>1, <1>4, <1>2 DEF TransportsTyped, Position, Directory, Pieces, Records, Framework
<1>7. \A s \in Runs : s # r => Undisturbed(s)
  BY <1>1, <1>4, <1>2, UndisturbedIf
<1>9. MadeBy(r)'
  BY <1>1, <1>4, <1>12, <1>13 DEF MadeBy
<1>10. HeldFor(r)'
  <2> SUFFICES ASSUME NEW i \in listed[r], Needs(r, i)'
               PROVE  dir'[<<r, i>>].there /\ dir'[<<r, i>>].owner /\ ~ dir'[<<r, i>>].idle
    BY <1>1 DEF HeldFor
  <2>1. Order(i) > Order(k) /\ ~ failed[r]
    BY <1>1, <1>4, <1>12 DEF Needs
  <2>2. Alive(r)
    BY <1>1 DEF Alive, Over
  <2>3. i # k /\ i \in Kinds
    BY <2>1, <1>0, OrderIs
  <2>4. Needs(r, i)
    BY <2>1, <2>2, <1>15
  <2> QED
    BY <1>0, <1>2, <2>3, <2>4 DEF BooksOf, HeldFor
<1>11. RemovedBy(r)'
  <2> SUFFICES ASSUME NEW i \in Kinds PROVE Settled(r, i)' \/ Due(r, i)'
    BY DEF RemovedBy
  <2>0. Order(k) >= Order(k)
    BY <1>0, OrderIs
  <2>1. CASE i = k
    BY <2>0, <2>1, <1>1, <1>4, <1>12, <1>13 DEF Due
  <2>2. CASE i # k /\ Settled(r, i)
    BY <2>2, <1>1, <1>2 DEF Settled
  <2>3. CASE Due(r, i)
    BY <2>3, <1>1, <1>4, <1>12, <1>14 DEF Due
  <2> QED
    BY <1>0, <2>1, <2>2, <2>3 DEF BooksOf, RemovedBy
<1> QED
  BY <1>6, <1>7, <1>9, <1>10, <1>11, CommandKeeps DEF BooksOf

LEMMA RmdirKeeps ==
  ASSUME TransportBooks, NEW r \in Runs, Rmdir(r)
  PROVE  TransportBooks'
<1>k. PICK k \in Kinds : pc[r].kind = k
  BY CommandFields DEF TransportBooks
<1> DEFINE refused == dir[<<r, k>>].file # << >>
           p == IF failed[r] THEN Onward(listed[r], k, "unlink", At("ended", k)) ELSE At("append", k)
<1>0. TransportsTyped /\ BooksOf(r) /\ k \in Kinds /\ listed[r] \subseteq Kinds
  BY CommandFields DEF TransportBooks
<1>1. /\ pc[r].at = "rmdir" /\ pc' = [pc EXCEPT ![r] = p]
      /\ told' = IF refused /\ ~ failed[r] THEN told \union {<<r, k>>} ELSE told
      /\ dir' = IF refused THEN dir ELSE [dir EXCEPT ![<<r, k>>] = Gone]
      /\ wants' = wants /\ listed' = listed /\ failed' = failed /\ py' = py
  BY <1>k DEF Rmdir, agentVars
<1>2. k \in listed[r]
  BY <1>k, <1>0, <1>1 DEF BooksOf, MadeBy
<1>3. \A i \in Kinds : Due(r, i) => i \in listed[r] /\ Order(i) >= Order(k)
  BY <1>k, <1>1 DEF Due
<1>4. ASSUME NEW i \in listed[r], ~ failed[r], Order(i) > Order(k) PROVE Needs(r, i)
  BY <1>k, <1>1, <1>4 DEF Needs, Alive, Over
<1>5. ~ failed[r] => p.at = "append" /\ p.kind = k
  BY AtIs
<1>6. failed[r] =>
        \/ p.at = "ended" /\ \A i \in listed[r] : Order(i) <= Order(k)
        \/ /\ p.at = "unlink" /\ p.kind \in listed[r] /\ Order(p.kind) > Order(k)
           /\ \A i \in listed[r] : Order(i) > Order(k) => Order(i) >= Order(p.kind)
  <2> DEFINE q == Onward(listed[r], k, "unlink", At("ended", k))
  <2>1. \/ q = At("ended", k) /\ \A i \in listed[r] : Order(i) <= Order(k)
        \/ \E j \in listed[r] : /\ q = At("unlink", j) /\ Order(j) > Order(k)
                                /\ \A i \in listed[r] : Order(i) > Order(k) => Order(i) >= Order(j)
    BY <1>0, OnwardIs
  <2>2. failed[r] => p = q
    OBVIOUS
  <2> HIDE DEF p, q
  <2> QED
    BY <2>1, <2>2, AtIs
<1>7. p \in Position
  <2>1. \A j \in Kinds : At("append", j) \in Position /\ At("ended", j) \in Position /\ At("unlink", j) \in Position
    BY DEF At, Position, Places
  <2>2. failed[r] => p \in {At("ended", k)} \union {At("unlink", j) : j \in listed[r]}
    <3>1. Onward(listed[r], k, "unlink", At("ended", k))
            \in {At("ended", k)} \union {At("unlink", j) : j \in listed[r]}
      BY <1>0, OnwardIs
    <3> QED
      BY <3>1
  <2>3. ~ failed[r] => p = At("append", k)
    OBVIOUS
  <2> HIDE DEF p
  <2> QED
    BY <1>0, <2>1, <2>2, <2>3
<1>8. /\ dir' \in [Transport -> Directory]
      /\ refused => dir' = dir
      /\ ~ refused => ~ dir'[<<r, k>>].there
      /\ \A s \in Runs, j \in Kinds : s # r \/ j # k => dir'[<<s, j>>] = dir[<<s, j>>]
  <2>1. CASE refused
    BY <2>1, <1>0, <1>1 DEF TransportsTyped
  <2>2. CASE ~ refused
    <3>1. dir' = [dir EXCEPT ![<<r, k>>] = Gone]
      BY <2>2, <1>1
    <3> HIDE DEF refused
    <3>2. /\ dir' \in [Transport -> Directory] /\ dir'[<<r, k>>] = Gone
          /\ \A s \in Runs, j \in Kinds : s # r \/ j # k => dir'[<<s, j>>] = dir[<<s, j>>]
      BY <3>1, <1>0, GoneIs, DirectoryEdit
    <3> QED
      BY <2>2, <3>2, GoneIs
  <2> QED
    BY <2>1, <2>2
<1>9. Settled(r, k)'
  <2>1. refused \/ ~ refused
    OBVIOUS
  <2>2. refused <=> dir[<<r, k>>].file # << >>
    OBVIOUS
  <2> HIDE DEF refused, p
  <2>3. CASE ~ refused
    BY <2>3, <1>8 DEF Settled
  <2>4. CASE refused /\ ~ failed[r]
    <3>1. <<r, k>> \in told'
      BY <2>4, <1>1
    <3> QED
      BY <3>1 DEF Settled
  <2>5. CASE refused /\ failed[r]
    <3>1. failed'[r] /\ dir'[<<r, k>>].file # << >>
      BY <2>5, <2>2, <1>1, <1>8
    <3> QED
      BY <3>1 DEF Settled
  <2> QED
    BY <2>1, <2>3, <2>4, <2>5
<1>10. told \subseteq told'
  BY <1>1
<1> HIDE DEF p, refused
<1>11. pc' \in [Runs -> Position] /\ pc'[r] = p /\ \A s \in Runs : s # r => pc'[s] = pc[s]
  BY <1>0, <1>1, <1>7, PositionEdit
<1>12. TransportsTyped'
  BY <1>0, <1>1, <1>8, <1>11 DEF TransportsTyped, Position, Directory, Pieces, Records, Framework
<1>13. \A s \in Runs : s # r => Undisturbed(s)
  BY <1>1, <1>8, <1>10, <1>11, UndisturbedIf
<1>14. MadeBy(r)'
  BY <1>1, <1>2, <1>5, <1>6, <1>11 DEF MadeBy
<1>15. \A i \in Kinds : Order(i) \in Nat
  BY OrderIs
<1>16. HeldFor(r)'
  <2> SUFFICES ASSUME NEW i \in listed[r], Needs(r, i)'
               PROVE  dir'[<<r, i>>].there /\ dir'[<<r, i>>].owner /\ ~ dir'[<<r, i>>].idle
    BY <1>1 DEF HeldFor
  <2>1. ~ failed[r] /\ Order(i) > Order(k)
    BY <1>1, <1>5, <1>11 DEF Needs
  <2>2. i # k /\ i \in Kinds
    BY <2>1, <1>0, <1>15
  <2>3. Needs(r, i)
    BY <2>1, <1>4
  <2> QED
    BY <1>0, <1>8, <2>2, <2>3 DEF BooksOf, HeldFor
<1>17. RemovedBy(r)'
  <2> SUFFICES ASSUME NEW i \in Kinds PROVE Settled(r, i)' \/ Due(r, i)'
    BY DEF RemovedBy
  <2>0. CASE i = k
    BY <2>0, <1>9
  <2> SUFFICES ASSUME i # k PROVE Settled(r, i)' \/ Due(r, i)'
    BY <2>0
  <2>1. CASE Settled(r, i)
    BY <2>1, <1>1, <1>8, <1>10 DEF Settled
  <2>2. CASE Due(r, i)
    <3>1. i \in listed[r] /\ Order(i) >= Order(k)
      BY <2>2, <1>3
    <3>2. Order(i) > Order(k) /\ ~ (Order(i) <= Order(k))
      BY <3>1, <1>0, <1>15, OrderIs
    <3>3. CASE failed[r]
      <4>1. p.at = "unlink" /\ Order(i) >= Order(p.kind)
        BY <3>1, <3>2, <3>3, <1>6
      <4> QED
        BY <4>1, <3>1, <1>1, <1>11 DEF Due
    <3>4. CASE ~ failed[r]
      BY <3>1, <3>2, <3>4, <1>1, <1>5, <1>11 DEF Due
    <3> QED
      BY <3>3, <3>4
  <2> QED
    BY <1>0, <2>1, <2>2 DEF BooksOf, RemovedBy
<1> QED
  BY <1>12, <1>13, <1>14, <1>16, <1>17, CommandKeeps DEF BooksOf

-----------------------------------------------------------------------------
(* The transports: a day, and the steps of an agent. *)

LEMMA EverybodyKeeps ==
  ASSUME TransportBooks, TransportsTyped', \A s \in Runs : Undisturbed(s)
  PROVE  TransportBooks'
<1> SUFFICES ASSUME NEW s \in Runs PROVE BooksOf(s)'
  BY DEF TransportBooks
<1> QED
  BY UndisturbedKeeps DEF TransportBooks

LEMMA DayKeeps ==
  ASSUME TransportBooks, Day
  PROVE  TransportBooks'
<1> DEFINE quiet(t) == dir[t].there /\ ~(Alive(t[1]) /\ t[2] \in listed[t[1]] /\ dir[t].owner)
<1>0. TransportsTyped
  BY DEF TransportBooks
<1>1. /\ dir' = [t \in Transport |-> IF quiet(t) THEN [dir[t] EXCEPT !.idle = TRUE] ELSE dir[t]]
      /\ wants' = wants /\ pc' = pc /\ listed' = listed /\ failed' = failed /\ told' = told
      /\ py' = py
      /\ \A s \in Runs : pc[s].at # "own"
  BY DEF Day, agentVars
<1>2. ASSUME NEW t \in Transport
      PROVE  /\ [dir[t] EXCEPT !.idle = TRUE] \in Directory
             /\ [dir[t] EXCEPT !.idle = TRUE].there = dir[t].there
             /\ [dir[t] EXCEPT !.idle = TRUE].owner = dir[t].owner
             /\ [dir[t] EXCEPT !.idle = TRUE].file = dir[t].file
  <2> DEFINE g == dir[t]
  <2>1. g \in [there : BOOLEAN, owner : BOOLEAN, file : Seq(Pieces), idle : BOOLEAN]
    BY <1>0 DEF TransportsTyped, Directory
  <2> HIDE DEF g
  <2>2. /\ [g EXCEPT !.idle = TRUE] \in [there : BOOLEAN, owner : BOOLEAN, file : Seq(Pieces), idle : BOOLEAN]
        /\ [g EXCEPT !.idle = TRUE].there = g.there
        /\ [g EXCEPT !.idle = TRUE].owner = g.owner
        /\ [g EXCEPT !.idle = TRUE].file = g.file
    BY ONLY <2>1
  <2> QED
    BY <2>2 DEF g, Directory
<1>3. dir' \in [Transport -> Directory]
  <2> HIDE DEF quiet
  <2> QED
    BY <1>0, <1>1, <1>2 DEF TransportsTyped
<1>4. TransportsTyped'
  BY <1>0, <1>1, <1>3 DEF TransportsTyped, Position, Directory, Pieces, Records, Framework
<1>5. ASSUME NEW s \in Runs, NEW k \in Kinds PROVE Near(s, k)
  <2> DEFINE t == <<s, k>>
  <2>1. t \in Transport /\ t[1] = s /\ t[2] = k
    BY DEF Transport
  <2>2. CASE quiet(t)
    <3>1. dir'[t] = [dir[t] EXCEPT !.idle = TRUE]
      BY <2>1, <2>2, <1>1
    <3>2. ~(Alive(s) /\ k \in listed[s] /\ dir[t].owner)
      BY <2>1, <2>2
    <3>3. dir'[t].there = dir[t].there /\ dir'[t].owner = dir[t].owner /\ dir'[t].file = dir[t].file
      <4> HIDE DEF t
      <4> QED
        BY <2>1, <3>1, <1>2
    <3> QED
      BY <3>2, <3>3, <1>1 DEF Near
  <2>3. CASE ~ quiet(t)
    <3>1. dir'[t] = dir[t]
      BY <2>1, <2>3, <1>1
    <3> QED
      BY <3>1 DEF Near
  <2> QED
    BY <2>2, <2>3
<1>6. \A s \in Runs : Undisturbed(s)
  BY <1>1, <1>5 DEF Undisturbed
<1> QED
  BY <1>4, <1>6, EverybodyKeeps

\* What a process of the agent may do to a file: nothing, or one append where it is.
Touches ==
  \/ dir' = dir
  \/ \E k \in Kinds, piece \in Pieces : dir[<<Home, k>>].there /\ Adds(<<Home, k>>, piece)

LEMMA AgentStepKeeps ==
  ASSUME TransportsAssumption, TransportBooks, Touches,
         UNCHANGED <<wants, pc, listed, failed, told>>,
         py' \in Framework, IsFiniteSet(py'.open)
  PROVE  TransportBooks'
<1>0. TransportsTyped /\ Home \in Runs
  BY DEF TransportBooks, TransportsAssumption
<1>1. CASE dir' = dir
  <2>1. TransportsTyped'
    BY <1>0, <1>1 DEF TransportsTyped, Position, Directory, Pieces, Records, Framework
  <2>2. \A s \in Runs : Undisturbed(s)
    BY <1>1, UndisturbedIf
  <2> QED
    BY <2>1, <2>2, EverybodyKeeps
<1>2. ASSUME NEW k \in Kinds, NEW piece \in Pieces, dir[<<Home, k>>].there, Adds(<<Home, k>>, piece)
      PROVE  TransportBooks'
  <2> DEFINE a == <<Home, k>>
             g == dir[a]
             f == Append(g.file, piece)
  <2>1. g \in [there : BOOLEAN, owner : BOOLEAN, file : Seq(Pieces), idle : BOOLEAN]
    BY <1>0, TransportFields DEF Directory
  <2>2. f \in Seq(Pieces) /\ f # << >>
    <3> HIDE DEF g
    <3>1. g.file \in Seq(Pieces)
      BY <2>1
    <3>2. f \in Seq(Pieces) /\ Len(f) = Len(g.file) + 1 /\ Len(g.file) \in Nat
      BY <3>1, LenProperties
    <3>3. Len(<< >>) = 0
      BY EmptySeq
    <3> HIDE DEF f
    <3> QED
      BY <3>2, <3>3
  <2>3. a \in Transport /\ \A s \in Runs, j \in Kinds : <<s, j>> \in Transport /\ (s # Home \/ j # k => <<s, j>> # a)
    BY <1>0 DEF Transport
  <2>4. dir' = [dir EXCEPT ![a].file = f, ![a].idle = FALSE]
    BY <1>2 DEF Adds
  <2>5. dir \in [Transport -> Directory]
    BY <1>0 DEF TransportsTyped
  <2> HIDE DEF a, f
  <2>6. dir' \in [Transport -> Directory]
    BY ONLY <2>2, <2>3, <2>4, <2>5 DEF Directory
  <2>7. /\ dir'[a].there = dir[a].there /\ dir'[a].owner = dir[a].owner
        /\ dir'[a].file = f /\ dir'[a].idle = FALSE
    BY ONLY <2>3, <2>4, <2>5 DEF Directory
  <2>8. \A t \in Transport : t # a => dir'[t] = dir[t]
    BY ONLY <2>3, <2>4, <2>5
  <2>9. ASSUME NEW s \in Runs, NEW j \in Kinds PROVE Near(s, j)
    <3>1. CASE s = Home /\ j = k
      <4>1. dir[<<s, j>>].there /\ <<s, j>> = a
        BY <3>1, <1>2 DEF a
      <4> QED
        BY <4>1, <2>2, <2>7 DEF Near
    <3>2. CASE s # Home \/ j # k
      BY <3>2, <2>3, <2>8 DEF Near
    <3> QED
      BY <3>1, <3>2
  <2>10. TransportsTyped'
    BY <1>0, <2>6 DEF TransportsTyped, Position, Directory, Pieces, Records, Framework
  <2>11. \A s \in Runs : Undisturbed(s)
    BY <2>9 DEF Undisturbed
  <2> QED
    BY <2>10, <2>11, EverybodyKeeps
<1> QED
  BY <1>1, <1>2 DEF Touches

\* What the agent leaves alone.
LEMMA AgentAlone ==
  ASSUME UNCHANGED <<wants, pc, listed, failed, told>> /\ py' = py, TransportsAssumption,
         TransportBooks, Touches
  PROVE  TransportBooks'
<1>1. py' \in Framework /\ IsFiniteSet(py'.open)
  BY DEF TransportBooks, TransportsTyped
<1> QED
  BY <1>1, AgentStepKeeps

LEMMA PieceIs ==
  ASSUME NEW rec \in Records, NEW part \in {"all", "head", "tail", "object", "newline"}
  PROVE  Piece(rec, part) \in Pieces
BY DEF Piece, Pieces

LEMMA TouchesIf ==
  ASSUME NEW k \in Kinds, NEW piece \in Pieces, dir[<<Home, k>>].there, Adds(<<Home, k>>, piece)
  PROVE  Touches
BY DEF Touches

LEMMA RecordsAre ==
  /\ \A c \in Commands : c \in Records
  /\ \A n \in Nodes : <<"start", n>> \in Records /\ <<"end", n>> \in Records
  /\ \A n \in Nat : <<"dropped", n>> \in Records
BY DEF Records

LEMMA ShellStepsKeep ==
  ASSUME TransportsAssumption, TransportBooks, NEW c \in Commands,
         \/ StartCommand(c) \/ RecordFrame(c) \/ RecordTail(c)
         \/ \E part \in {"head", "object"} : RecordHead(c, part)
  PROVE  TransportBooks'
<1>0. c \in Records /\ "shell" \in Kinds
  BY RecordsAre DEF Kinds
<1>1. CASE StartCommand(c)
  <2>1. Touches
    BY <1>1 DEF StartCommand, Touches
  <2> QED
    BY <1>1, <2>1, AgentAlone DEF StartCommand
<1>2. CASE RecordFrame(c)
  <2>1. Piece(c, "all") \in Pieces
    BY <1>0, PieceIs
  <2>2. \/ dir' = dir
        \/ dir[<<Home, "shell">>].there /\ Adds(<<Home, "shell">>, Piece(c, "all"))
    BY <1>2 DEF RecordFrame, ShellFile
  <2>3. Touches
    BY <1>0, <2>1, <2>2 DEF Touches
  <2> QED
    BY <1>2, <2>3, AgentAlone DEF RecordFrame
<1>3. CASE RecordTail(c)
  <2>1. Piece(c, "tail") \in Pieces /\ Piece(c, "newline") \in Pieces
    BY <1>0, PieceIs
  <2>2. \/ dir' = dir
        \/ /\ dir[<<Home, "shell">>].there
           /\ \/ Adds(<<Home, "shell">>, Piece(c, "tail"))
              \/ Adds(<<Home, "shell">>, Piece(c, "newline"))
    BY <1>3 DEF RecordTail, ShellFile
  <2>3. Touches
    BY <1>0, <2>1, <2>2 DEF Touches
  <2> QED
    BY <1>3, <2>3, AgentAlone DEF RecordTail
<1>4. ASSUME NEW part \in {"head", "object"}, RecordHead(c, part) PROVE TransportBooks'
  <2>1. Piece(c, part) \in Pieces
    BY <1>0, PieceIs
  <2>2. dir[<<Home, "shell">>].there /\ Adds(<<Home, "shell">>, Piece(c, part))
    BY <1>4 DEF RecordHead, ShellFile
  <2>3. Touches
    BY <1>0, <2>1, <2>2, TouchesIf
  <2> QED
    BY <1>4, <2>3, AgentAlone DEF RecordHead
<1> QED
  BY <1>1, <1>2, <1>3, <1>4

LEMMA FrameworkFields ==
  ASSUME TransportBooks
  PROVE  /\ py \in Framework /\ IsFiniteSet(py.open)
         /\ py.phase \in {"idle", "up", "exited", "left"} /\ py.open \in SUBSET Nodes
         /\ py.begun \in SUBSET Nodes /\ py.dropped \in Nat /\ py.report \in {"none", "failed"}
BY DEF TransportBooks, TransportsTyped, Framework

\* handler.py's append, whatever it counts meanwhile.
LEMMA WritesKeeps ==
  ASSUME TransportsAssumption, TransportBooks, NEW rec \in Records, NEW counts \in Framework,
         IsFiniteSet(counts.open), Writes(rec, counts),
         UNCHANGED <<wants, pc, listed, failed, told>>
  PROVE  TransportBooks'
<1>0. Piece(rec, "all") \in Pieces /\ "spans" \in Kinds
  BY PieceIs DEF Kinds
<1>1. \/ dir' = dir
      \/ dir[<<Home, "spans">>].there /\ Adds(<<Home, "spans">>, Piece(rec, "all"))
  BY DEF Writes, SpansFile
<1>2. Touches
  BY <1>0, <1>1 DEF Touches
<1>3. py' = counts \/ py' = [counts EXCEPT !.dropped = @ + 1]
  BY DEF Writes
<1>4. [counts EXCEPT !.dropped = @ + 1] \in Framework /\ [counts EXCEPT !.dropped = @ + 1].open = counts.open
  BY DEF Framework
<1> QED
  BY <1>2, <1>3, <1>4, AgentStepKeeps

LEMMA NodeStartsKeeps ==
  ASSUME TransportsAssumption, TransportBooks, NEW n \in Nodes, NodeStarts(n)
  PROVE  TransportBooks'
<1> DEFINE full == [py EXCEPT !.begun = @ \union {n}, !.dropped = @ + 1]
           open == [py EXCEPT !.begun = @ \union {n}, !.open = @ \union {n}]
<1>0. py \in Framework /\ IsFiniteSet(py.open)
  BY FrameworkFields
<1>1. UNCHANGED <<wants, pc, listed, failed, told>>
  BY DEF NodeStarts
<1>2. \/ py' = full /\ dir' = dir
      \/ Writes(<<"start", n>>, open)
  BY DEF NodeStarts
<1>3. full \in Framework /\ full.open = py.open
  <2> DEFINE more == py.begun \union {n}
             lost == py.dropped + 1
  <2>1. more \in SUBSET Nodes /\ lost \in Nat
    BY FrameworkFields
  <2>2. full = [py EXCEPT !.begun = more, !.dropped = lost]
    OBVIOUS
  <2> HIDE DEF more, lost
  <2> QED
    BY <1>0, <2>1, <2>2 DEF Framework
<1>4. open \in Framework /\ open.open = py.open \union {n}
  BY <1>0 DEF Framework
<1>5. IsFiniteSet(py.open \union {n})
  BY <1>0, FS_AddElement
<1>6. <<"start", n>> \in Records
  BY RecordsAre
<1> HIDE DEF full, open
<1>7. CASE py' = full /\ dir' = dir
  <2>1. Touches
    BY <1>7 DEF Touches
  <2> QED
    BY <1>0, <1>1, <1>3, <1>7, <2>1, AgentStepKeeps
<1>8. CASE Writes(<<"start", n>>, open)
  BY <1>1, <1>4, <1>5, <1>6, <1>8, WritesKeeps
<1> QED
  BY <1>2, <1>7, <1>8

LEMMA NodeEndsKeeps ==
  ASSUME TransportsAssumption, TransportBooks, NEW n \in Nodes, NodeEnds(n)
  PROVE  TransportBooks'
<1> DEFINE shut == [py EXCEPT !.open = @ \ {n}]
<1>0. py \in Framework /\ IsFiniteSet(py.open)
  BY FrameworkFields
<1>1. UNCHANGED <<wants, pc, listed, failed, told>> /\ Writes(<<"end", n>>, shut)
  BY DEF NodeEnds
<1>2. shut \in Framework /\ shut.open = py.open \ {n}
  BY <1>0 DEF Framework
<1>3. IsFiniteSet(py.open \ {n})
  BY <1>0, FS_RemoveElement
<1>4. <<"end", n>> \in Records
  BY RecordsAre
<1> HIDE DEF shut
<1> QED
  BY <1>1, <1>2, <1>3, <1>4, WritesKeeps

LEMMA PythonStartsKeeps ==
  ASSUME TransportsAssumption, TransportBooks, PythonStarts
  PROVE  TransportBooks'
<1> DEFINE up == [py EXCEPT !.phase = "up"]
<1>0. py \in Framework /\ IsFiniteSet(py.open)
  BY FrameworkFields
<1>1. UNCHANGED <<wants, pc, listed, failed, told>> /\ py' = up /\ dir' = dir
  BY DEF PythonStarts
<1>2. up \in Framework /\ up.open = py.open
  BY <1>0 DEF Framework
<1> HIDE DEF up
<1>3. Touches
  BY <1>1 DEF Touches
<1> QED
  BY <1>0, <1>1, <1>2, <1>3, AgentStepKeeps

LEMMA PythonExitsKeeps ==
  ASSUME TransportsAssumption, TransportBooks, PythonExits
  PROVE  TransportBooks'
<1> DEFINE out == InTime("spans", "exited", "left")
           word == [py EXCEPT !.phase = out]
           mute == [py EXCEPT !.phase = out, !.report = "failed"]
<1>0. py \in Framework /\ IsFiniteSet(py.open) /\ py.dropped \in Nat
  BY FrameworkFields
<1>1. out \in {"exited", "left"}
  BY DEF InTime
<1>2. UNCHANGED <<wants, pc, listed, failed, told>>
  BY DEF PythonExits
<1>3. /\ py' = word \/ py' = mute
      /\ \/ dir' = dir
         \/ dir[<<Home, "spans">>].there /\ Adds(<<Home, "spans">>, Piece(<<"dropped", Losses>>, "all"))
  BY DEF PythonExits, SpansFile
<1> HIDE DEF out
<1>4. word \in Framework /\ word.open = py.open /\ mute \in Framework /\ mute.open = py.open
  BY <1>0, <1>1 DEF Framework
<1>5. Losses \in Nat
  BY <1>0, FS_CardinalityType DEF Losses
<1>6. Piece(<<"dropped", Losses>>, "all") \in Pieces /\ "spans" \in Kinds
  BY <1>5, RecordsAre, PieceIs DEF Kinds
<1>7. Touches
  BY <1>3, <1>6 DEF Touches
<1> HIDE DEF word, mute
<1> QED
  BY <1>0, <1>2, <1>3, <1>4, <1>7, AgentStepKeeps

-----------------------------------------------------------------------------
(* The transports: every behaviour keeps the books. *)

LEMMA TransportBooksInit ==
  ASSUME TransportsAssumption, TransportsInit
  PROVE  TransportBooks
<1>1. /\ wants \in Plans /\ pc = [r \in Runs |-> At("idle", "shell")]
      /\ listed = [r \in Runs |-> {}] /\ dir = [t \in Transport |-> Gone]
      /\ failed = [r \in Runs |-> FALSE]
      /\ py = [phase |-> "idle", open |-> {}, begun |-> {}, dropped |-> 0, report |-> "none"]
  BY DEF TransportsInit
<1>2. At("idle", "shell") \in Position
  BY DEF At, Position, Places, Kinds
<1>3. py \in Framework /\ IsFiniteSet(py.open)
  BY <1>1, FS_EmptySet DEF Framework
<1>4. TransportsTyped
  BY <1>1, <1>2, <1>3, GoneIs DEF TransportsTyped, TransportsAssumption
<1>5. ASSUME NEW r \in Runs PROVE BooksOf(r)
  <2>1. pc[r].at = "idle" /\ listed[r] = {}
    BY <1>1, AtIs
  <2>2. \A k \in Kinds : ~ dir[<<r, k>>].there
    BY <1>1, GoneIs DEF Transport
  <2> QED
    BY <2>1, <2>2 DEF BooksOf, MadeBy, HeldFor, RemovedBy, Settled
<1> QED
  BY <1>4, <1>5 DEF TransportBooks

LEMMA TransportBooksStep ==
  ASSUME TransportsAssumption, TransportBooks, [TransportsNext]_transportVars
  PROVE  TransportBooks'
<1>1. CASE Day
  BY <1>1, DayKeeps
<1>2. ASSUME NEW r \in Runs,
             \/ Sweep(r) \/ Mint(r) \/ Own(r) \/ NotInstalled(r)
             \/ Exits(r) \/ Drain(r) \/ Unlink(r) \/ Rmdir(r) \/ AppendEvents(r)
             \/ Throws(r) \/ Kill(r)
      PROVE  TransportBooks'
  BY <1>2, SweepKeeps, MintKeeps, OwnKeeps, NotInstalledKeeps, ExitsKeeps, DrainKeeps,
     UnlinkKeeps, RmdirKeeps, AppendEventsKeeps, ThrowsKeeps, KillKeeps
<1>3. CASE AgentSteps
  BY <1>3, ShellStepsKeep, NodeStartsKeeps, NodeEndsKeeps, PythonStartsKeeps, PythonExitsKeeps
     DEF AgentSteps
<1>4. CASE UNCHANGED transportVars
  <2>1. UNCHANGED <<wants, pc, listed, failed, told>> /\ dir' = dir /\ py' = py
    BY <1>4 DEF transportVars
  <2> QED
    BY <2>1, AgentAlone DEF Touches
<1> QED
  BY <1>1, <1>2, <1>3, <1>4 DEF TransportsNext, CommandSteps

LEMMA TransportBooksHold == TransportsSpec => []TransportBooks
<1>1. TransportsInit => TransportBooks
  BY TransportsAssumption, TransportBooksInit
<1>2. TransportBooks /\ [TransportsNext]_transportVars => TransportBooks'
  BY TransportsAssumption, TransportBooksStep
<1> QED
  BY <1>1, <1>2, PTL DEF TransportsSpec

\* While a recording lives and still reads from a transport, nobody else takes it, not
\* after days of silence, and not from another pid namespace; and a recording that came to
\* its end leaves none behind that the operator was not told of, unless it ended on an
\* error while its agent wrote on (touchTransports, sweepStaleTransports, recordCommand,
\* discardShellFrames, discardAgentSpanTransport).
THEOREM TransportsStayAndGo == TransportsSpec => []TransportsComeAndGo
<1>1. TransportBooks => LiveTransportsStay
  BY DEF TransportBooks, BooksOf, HeldFor, Needs, LiveTransportsStay
<1>2. TransportBooks => NoneLeft
  <2> SUFFICES ASSUME TransportBooks, NEW t \in Transport, pc[t[1]].at = "ended"
               PROVE  ~dir[t].there \/ t \in told \/ (failed[t[1]] /\ dir[t].file # << >>)
    BY DEF NoneLeft
  <2>1. PICK r \in Runs, k \in Kinds : t = <<r, k>>
    BY DEF Transport
  <2>2. ~ Due(r, k)
    BY <2>1 DEF Due
  <2>3. Settled(r, k)
    BY <2>2 DEF TransportBooks, BooksOf, RemovedBy
  <2> QED
    BY <2>1, <2>3 DEF Settled
<1> QED
  BY <1>1, <1>2, TransportBooksHold, PTL DEF TransportsComeAndGo
=============================================================================
