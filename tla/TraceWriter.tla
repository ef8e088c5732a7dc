----------------------------- MODULE TraceWriter -----------------------------
(***************************************************************************)
(* The append-only writer of one run: class TraceWriter of                 *)
(* packages/core/src/writer.ts, with BlobStore.put and count of blobs.ts,  *)
(* from the moment create() returned.                                      *)
(*                                                                         *)
(* append() checks its arguments when it is called and then chains the     *)
(* real work, #write, on a promise (#tail), so that calls made without     *)
(* awaiting one another are written one at a time in call order.  close()  *)
(* waits for the tail it finds, closes the file, digests it and rewrites   *)
(* the manifest.  Every await is a point where other callers run and where *)
(* the process can be killed.                                              *)
(***************************************************************************)
EXTENDS Naturals, Sequences, FiniteSets

CONSTANTS
  Contents,   \* payloads too large to stay inline, each spilled to a blob
  NoSpill,    \* the payload of an event that stays inline
  Events,     \* what append() is called with: a type and a payload
  MaxCalls    \* bound: the accepted calls of append()

EventTypes == {"run.start", "run.end", "other"}

ASSUME WriterAssumption ==
  /\ NoSpill \notin Contents
  /\ Events \subseteq [type : EventTypes, spill : Contents \union {NoSpill}]
  /\ MaxCalls \in Nat

VARIABLES
  calls,        \* accepted calls of append(): type, spill, and who was unsettled
  settled,      \* "written" or "failed", for a prefix of calls: the #tail chain
  phase,        \* how far #write of the next unsettled call has come
  seq,          \* #seq
  opened,       \* #opened
  closedEvent,  \* #closedEvent
  lines,        \* events.jsonl: each line's call and seq, and whether it is
                \*   whole or a fragment whose newline is missing
  blobs,        \* blobs/ under their final names
  handle,       \* the file handle is open
  closing,      \* how far close() has come
  awaited,      \* the calls whose tail close() waits for
  seal,         \* the manifest close() is building
  manifest,     \* manifest.json
  alive         \* the process has not been killed

memoryVars == <<calls, settled, phase, seq, opened, closedEvent>>
fileVars == <<lines, blobs>>
closeVars == <<handle, closing, awaited, seal, manifest>>
writerVars == <<memoryVars, fileVars, closeVars, alive>>

Unsettled == (Len(settled) + 1)..Len(calls)
Current == Len(settled) + 1
\* Fault: a rejection is not caught, the tail stays rejected.
BusyUntilRejection ==
  Current <= Len(calls) /\ \A i \in 1..Len(settled) : settled[i] = "written"
Busy == Current <= Len(calls)

-----------------------------------------------------------------------------
(* append(): the checks of the call itself. *)

\* Fault: #closedEvent is not looked at.
RefusedUnlessSecondEnd(type) ==
  \/ closing = "sealed"
  \/ type = "run.start" /\ seq # 0
  \/ type = "run.end" /\ ~ opened
\* A refused call throws and changes nothing.
Refused(type) ==
  \/ closing = "sealed"
  \/ type = "run.start" /\ seq # 0
  \/ type = "run.end" /\ ~ opened
  \/ type = "run.end" /\ closedEvent

AppendCall(event) ==
  /\ alive
  /\ Len(calls) < MaxCalls
  /\ ~ Refused(event.type)
  /\ calls' = Append(calls, [event |-> event, behind |-> Unsettled])
  /\ UNCHANGED <<settled, phase, seq, opened, closedEvent, fileVars, closeVars, alive>>

-----------------------------------------------------------------------------
(* #write(), for the first call of the chain that has not settled. *)

Settle(outcome) ==
  /\ settled' = Append(settled, outcome)
  /\ phase' = "idle"

\* Fault: the inline limit is not looked at.
SpillAlways ==
  /\ alive /\ Busy /\ phase = "idle"
  /\ blobs' = blobs \union {calls[Current].event.spill}
  /\ phase' = "spilled"
  /\ UNCHANGED <<calls, settled, seq, opened, closedEvent, lines, closeVars, alive>>
\* blobs.put: written under a temporary name and renamed into place, before
\* the line that refers to it.
Spill ==
  /\ alive /\ Busy /\ phase = "idle"
  /\ calls[Current].event.spill # NoSpill
  /\ blobs' = blobs \union {calls[Current].event.spill}
  /\ phase' = "spilled"
  /\ UNCHANGED <<calls, settled, seq, opened, closedEvent, lines, closeVars, alive>>

\* Fault: the line does not wait for its blob.
ReadyWithoutBlob ==
  Busy /\ phase \in {"idle", "spilled"}
ReadyToWrite ==
  /\ Busy
  /\ phase = "spilled" \/ (phase = "idle" /\ calls[Current].event.spill = NoSpill)

IssueWrite ==
  /\ alive /\ ReadyToWrite /\ handle
  /\ phase' = "issued"
  /\ UNCHANGED <<calls, settled, seq, opened, closedEvent, fileVars, closeVars, alive>>

\* The redactor, the schema or the blob store rejects, or the file is closed.
FailBeforeWrite ==
  /\ alive /\ Busy /\ phase # "issued"
  /\ Settle("failed")
  /\ UNCHANGED <<calls, seq, opened, closedEvent, fileVars, closeVars, alive>>

Land(whole) ==
  /\ lines' = Append(lines, [call |-> Current, seq |-> seq, whole |-> whole])
  /\ UNCHANGED blobs

\* handle.write is one write(2), which may take a part of the bytes and succeed
\* (the disk is nearly full); the count it returns is not looked at.
WriteReturns ==
  /\ alive /\ phase = "issued"
  /\ \E whole \in BOOLEAN : Land(whole)
  /\ opened' = (opened \/ calls[Current].event.type = "run.start")
  /\ closedEvent' = (closedEvent \/ calls[Current].event.type = "run.end")
  /\ seq' = seq + 1
  /\ Settle("written")
  /\ UNCHANGED <<calls, closeVars, alive>>

\* Fault: the rejection comes after a part was written.
WriteFailsAfterPart ==
  /\ alive /\ phase = "issued"
  /\ Land(FALSE)
  /\ Settle("failed")
  /\ UNCHANGED <<calls, seq, opened, closedEvent, closeVars, alive>>
\* Fault: seq is taken though the write was rejected.
WriteFailsUsingSeq ==
  /\ alive /\ phase = "issued"
  /\ seq' = seq + 1
  /\ Settle("failed")
  /\ UNCHANGED <<calls, opened, closedEvent, fileVars, closeVars, alive>>
WriteFails ==
  /\ alive /\ phase = "issued"
  /\ Settle("failed")
  /\ UNCHANGED <<calls, seq, opened, closedEvent, fileVars, closeVars, alive>>

-----------------------------------------------------------------------------
(* close(), one action per await. *)

CloseStep(from, to) ==
  /\ alive
  /\ closing = from
  /\ closing' = to

CloseBegins ==
  /\ CloseStep("no", "tail") \/ CloseStep("failed", "tail")
  /\ awaited' = Len(calls)
  /\ UNCHANGED <<memoryVars, fileVars, handle, seal, manifest, alive>>

TailSettles ==
  /\ CloseStep("tail", "sync")
  /\ awaited <= Len(settled)
  /\ UNCHANGED <<memoryVars, fileVars, handle, awaited, seal, manifest, alive>>

\* Fault: the file is synced and not closed.
HandleStaysOpen ==
  /\ CloseStep("sync", "count")
  /\ handle
  /\ UNCHANGED <<memoryVars, fileVars, handle, awaited, seal, manifest, alive>>
\* From here a write that was not issued yet fails; one that was is waited for.
HandleCloses ==
  /\ CloseStep("sync", "count")
  /\ handle
  /\ handle' = FALSE
  /\ UNCHANGED <<memoryVars, fileVars, awaited, seal, manifest, alive>>

\* Fault: close does not wait for an issued write.
BlobsCountedWhileWriting ==
  /\ CloseStep("count", "digest")
  /\ seal' = [seal EXCEPT !.events = seq, !.blobs = Cardinality(blobs)]
  /\ UNCHANGED <<memoryVars, fileVars, handle, awaited, manifest, alive>>
BlobsCounted ==
  /\ CloseStep("count", "digest")
  /\ phase # "issued"
  /\ seal' = [seal EXCEPT !.events = seq, !.blobs = Cardinality(blobs)]
  /\ UNCHANGED <<memoryVars, fileVars, handle, awaited, manifest, alive>>

LogDigested ==
  /\ CloseStep("digest", "redactions")
  /\ seal' = [seal EXCEPT !.digest = lines]
  /\ UNCHANGED <<memoryVars, fileVars, handle, awaited, manifest, alive>>

\* redactions.json is written; then writeFile empties manifest.json ...
ManifestTruncated ==
  /\ CloseStep("redactions", "manifest")
  /\ manifest' = "torn"
  /\ UNCHANGED <<memoryVars, fileVars, handle, awaited, seal, alive>>

\* ... and fills it, and #sealed is set.
ManifestWritten ==
  /\ CloseStep("manifest", "sealed")
  /\ manifest' = "sealed"
  /\ UNCHANGED <<memoryVars, fileVars, handle, awaited, seal, alive>>

CloseFails ==
  /\ \E step \in {"sync", "count", "digest", "redactions", "manifest"} :
       CloseStep(step, "failed")
  /\ UNCHANGED <<memoryVars, fileVars, handle, awaited, seal, manifest, alive>>

-----------------------------------------------------------------------------
(* The process is killed: what an issued write left behind is anyone's guess. *)

Crash ==
  /\ alive
  /\ alive' = FALSE
  /\ \/ UNCHANGED fileVars
     \/ phase = "issued" /\ \E whole \in BOOLEAN : Land(whole)
  /\ UNCHANGED <<memoryVars, closeVars>>

WriterInit ==
  /\ calls = << >> /\ settled = << >> /\ phase = "idle"
  /\ seq = 0 /\ opened = FALSE /\ closedEvent = FALSE
  /\ lines = << >> /\ blobs = {}
  /\ handle = TRUE /\ closing = "no" /\ awaited = 0
  /\ seal = [events |-> 0, blobs |-> 0, digest |-> << >>]
  /\ manifest = "base"
  /\ alive = TRUE

Work == Spill \/ IssueWrite \/ WriteReturns
CloseWork ==
  \/ TailSettles \/ HandleCloses \/ BlobsCounted \/ LogDigested
  \/ ManifestTruncated \/ ManifestWritten

WriterNext ==
  \/ \E event \in Events : AppendCall(event)
  \/ Work \/ FailBeforeWrite \/ WriteFails
  \/ CloseBegins \/ CloseWork \/ CloseFails
  \/ Crash

WriterSpec == WriterInit /\ [][WriterNext]_writerVars

\* Every promise of the runtime settles: the I/O completes or rejects.
FairWriterSpec ==
  /\ WriterSpec
  /\ WF_writerVars(Work \/ FailBeforeWrite \/ WriteFails)
  /\ WF_writerVars(CloseWork \/ CloseFails)

-----------------------------------------------------------------------------
(* Properties. *)

WriterTypeOK ==
  /\ calls \in Seq([event : Events, behind : SUBSET (1..MaxCalls)])
  /\ settled \in Seq({"written", "failed"})
  /\ Len(settled) <= Len(calls) /\ Len(calls) <= MaxCalls
  /\ phase \in {"idle", "spilled", "issued"}
  /\ seq \in Nat /\ opened \in BOOLEAN /\ closedEvent \in BOOLEAN
  /\ lines \in Seq([call : 1..MaxCalls, seq : Nat, whole : BOOLEAN])
  /\ blobs \subseteq Contents
  /\ handle \in BOOLEAN
  /\ closing \in {"no", "tail", "sync", "count", "digest", "redactions",
                  "manifest", "sealed", "failed"}
  /\ awaited \in Nat
  /\ manifest \in {"base", "torn", "sealed"}
  /\ alive \in BOOLEAN

CallOf(k) == calls[lines[k].call]   \* the call behind a line
TypeOf(k) == CallOf(k).event.type

(***************************************************************************)
(* seq is dense from 0 and follows the order of the calls, however many    *)
(* were in flight, failed or were cut short ("Dense total order", spec     *)
(* 2.1; #write assigns seq inside the queue).                              *)
(***************************************************************************)
DenseInCallOrder ==
  /\ \A k \in 1..Len(lines) : lines[k].seq = k - 1
  /\ \A j, k \in 1..Len(lines) : j < k => lines[j].call < lines[k].call

(***************************************************************************)
(* An append that resolved has its line in the file, or the part of it that*)
(* a short write took, and one that rejected has left nothing there,       *)
(* whenever the process dies.                                              *)
(***************************************************************************)
WrittenIsOnDisk ==
  \A i \in 1..Len(settled) :
    settled[i] = "written" <=> \E k \in 1..Len(lines) : lines[k].call = i

(***************************************************************************)
(* No line ever refers to a blob that is not complete on disk, so a reader *)
(* of a killed run can resolve every payload it sees (#write spills before *)
(* it appends, BlobStore.put renames).                                     *)
(***************************************************************************)
BlobsPrecedeLines ==
  \A k \in 1..Len(lines) : CallOf(k).event.spill \in blobs \union {NoSpill}

(***************************************************************************)
(* A sealed manifest describes the file that is there: its digest and its  *)
(* event count are those of events.jsonl for good, even when an append     *)
(* raced close() (spec 6: verifyIntegrity never reports an untouched run   *)
(* as a mismatch).                                                         *)
(***************************************************************************)
SealDescribesLog ==
  manifest = "sealed" => seal.digest = lines /\ seal.events = Len(lines)

(***************************************************************************)
(* The refused brackets are enough for a caller that awaits: a second      *)
(* run.start or run.end, or a run.start that is not the first line, got in *)
(* only by a call made while an earlier one was still in flight; and a     *)
(* run.end never lands before a run.start.                                 *)
(***************************************************************************)
BracketsIfAwaited ==
  \A k \in 1..Len(lines) :
    /\ TypeOf(k) = "run.start" /\ k > 1
         => lines[k - 1].call \in CallOf(k).behind
    /\ TypeOf(k) = "run.end"
         => /\ \E j \in 1..(k - 1) : TypeOf(j) = "run.start"
            /\ \A j \in 1..(k - 1) :
                 TypeOf(j) = "run.end" => lines[j].call \in CallOf(k).behind

(***************************************************************************)
(* A rejected append does not wedge the ones behind it: every accepted     *)
(* call settles, and close() comes to an end (#tail = written.catch(...)). *)
(***************************************************************************)
NothingWedges ==
  /\ \A i \in 1..MaxCalls :
       (i <= Len(calls)) ~> (i <= Len(settled) \/ ~ alive)
  /\ (closing = "tail") ~> (closing \in {"sealed", "failed"} \/ ~ alive)

(***************************************************************************)
(* The file is a TraceLog, through every failure, crash and late append.   *)
(***************************************************************************)
Log == INSTANCE TraceLog WITH
  Calls <- 1..MaxCalls,
  log <- [k \in 1..Len(lines) |-> lines[k].call],
  sealed <- (manifest = "sealed")
ImplementsTraceLog == Log!LogSpec

-----------------------------------------------------------------------------
(* What the documentation says and the code does not do. *)

(***************************************************************************)
(* "writes a manifest immediately, so a run that crashes is still          *)
(* readable" (writer.test.ts): whenever the process dies, or close() gives *)
(* up, manifest.json parses.                                               *)
(***************************************************************************)
RunOpens == ~ alive \/ closing = "failed" => manifest # "torn"
=============================================================================
