----------------------------- MODULE RunExchange -----------------------------
(***************************************************************************)
(* A run on its way to another machine: orca push packs it, a gateway      *)
(* keeps it, orca pull unpacks, verifies and compares it.                  *)
(* packages/cli/src/commands/sync.ts and packages/cli/src/archive.ts.      *)
(*                                                                         *)
(* push takes no lock.  It lists and reads the run directory file by file  *)
(* while a recorder may still be writing it or a scrub rewriting it.  What *)
(* pull does to the directories it replaces is RunPull's; here the copy    *)
(* that passed goes into place in one step.                                *)
(*                                                                         *)
(* A file is the path to it, as a sequence of segments.                    *)
(***************************************************************************)
EXTENDS Naturals, Sequences, FiniteSets

CONSTANTS
  Order,     \* every file a run directory may hold, in the order of their names
  Referred,  \* the blobs each version of the events refers to
  Counter,   \* bound: what the 16 bits of a zip trailer's entry count can tell apart
  Absent     \* no archive, no copy, no digest

VARIABLES
  mine,      \* the run on the pushing machine: what each of its files holds
  writer,    \* who is writing it: the recorder, scrub, or a scrub that was killed
  edits,     \* the writes it has still to make
  push,      \* the push
  held,      \* the gateway's copy
  pull,      \* the pull
  theirs     \* the run on the pulling machine

exchangeVars == <<mine, writer, edits, push, held, pull, theirs>>

-----------------------------------------------------------------------------
(* A run directory. *)

Manifest == <<"manifest.json">>
EventsFile == <<"events.jsonl">>
Ledger == <<"redactions.json">>
Files == {Order[i] : i \in 1..Len(Order)}
BlobFiles == {f \in Files : Head(f) = "blobs"}

\* The last events of a version that is not whole are missing; whoever
\* serialised them decides about their bytes, and so about their digest.
Events(version) == [version |-> version, whole |-> TRUE, by |-> "orca"]
AllEvents == [version : {"begun", "raw", "scrubbed"}, whole : BOOLEAN, by : {"orca", "gateway"}]
Story(e) == [version |-> e.version, whole |-> e.whole]
SealedAs(root) == [root |-> root]

\* blobs and fs are directories, what else is shipped is a file; the events grow while
\* they are recorded, and nothing that is kept can be taken for its absence.
ASSUME ExchangeAssumption ==
  /\ Counter \in Nat \ {0, 1}
  /\ Order \in Seq(Files) /\ \A i, j \in 1..Len(Order) : Order[i] = Order[j] => i = j
  /\ {Manifest, EventsFile, Ledger} \subseteq Files
  /\ \A f \in Files :
       /\ Head(f) \in {Head(Manifest), Head(EventsFile), Head(Ledger)} => f = <<Head(f)>>
       /\ Head(f) \in {"blobs", "fs"} => f # <<Head(f)>>
  /\ Referred \in [{"begun", "raw", "scrubbed"} -> SUBSET BlobFiles]
  /\ Referred["begun"] \subseteq Referred["raw"]
  /\ Absent # "content" /\ Absent \notin AllEvents
  /\ Absent \notin {SealedAs(root) : root \in AllEvents \union {Absent}}

\* Material scrub removes: the blobs only the raw events refer to.
HoldsRaw(f, content) ==
  \/ f \in Referred["raw"] \ Referred["scrubbed"]
  \/ f = EventsFile /\ content.version # "scrubbed"

RecordedAs(version, sealed) ==
  [f \in (Files \ (BlobFiles \union {Ledger})) \union Referred[version] |->
     IF f = EventsFile THEN Events(version)
     ELSE IF f = Manifest THEN SealedAs(IF sealed THEN Events(version) ELSE Absent)
     ELSE "content"]

\* Some of the files, in the order of their names.
Sorted(files) ==
  LET places == {i \in 1..Len(Order) : Order[i] \in files}
      rank(i) == Cardinality({j \in places : j <= i})
  IN [n \in 1..Cardinality(places) |-> Order[CHOOSE i \in places : rank(i) = n]]

Restricted(files, content) == [f \in files |-> content[f]]
With(files, f, content) == [g \in DOMAIN files \union {f} |-> IF g = f THEN content ELSE files[g]]
Without(files, f) == Restricted(DOMAIN files \ {f}, files)

-----------------------------------------------------------------------------
(* Who writes the run. *)

Edit(f, content) == [file |-> f, to |-> content]
Adds(version, old) == Sorted(Referred[version] \ Referred[old])
Each(files, content) == [i \in 1..Len(files) |-> Edit(files[i], content)]

\* The recorder: a blob before the line that refers to it, and the seal last.
RecordingEdits ==
  Each(Adds("raw", "begun"), "content")
    \o <<Edit(EventsFile, Events("raw")), Edit(Manifest, SealedAs(Events("raw")))>>

\* Fault: scrub takes the old blobs away before it commits the new files.
StaleFirst(sealed) ==
  Each(Adds("raw", "scrubbed"), Absent) \o Each(Adds("scrubbed", "raw"), "content")
    \o <<Edit(EventsFile, Events("scrubbed")),
         Edit(Manifest, SealedAs(IF sealed THEN Events("scrubbed") ELSE Absent)),
         Edit(Ledger, "content")>>
\* scrub's commit: each file lands by a rename, and the old blobs go last.
ScrubEdits(sealed) ==
  Each(Adds("scrubbed", "raw"), "content")
    \o <<Edit(EventsFile, Events("scrubbed")),
         Edit(Manifest, SealedAs(IF sealed THEN Events("scrubbed") ELSE Absent)),
         Edit(Ledger, "content")>>
    \o Each(Adds("raw", "scrubbed"), Absent)

RunChanges ==
  /\ edits # << >>
  /\ LET e == Head(edits) IN mine' = IF e.to = Absent THEN Without(mine, e.file) ELSE With(mine, e.file, e.to)
  /\ edits' = Tail(edits)
  /\ UNCHANGED <<writer, push, held, pull, theirs>>

WriterDies ==
  /\ edits # << >>
  /\ edits' = << >> /\ writer' = "killed"
  /\ UNCHANGED <<mine, push, held, pull, theirs>>

-----------------------------------------------------------------------------
(* The zip archive. *)

\* 0xffff is the reader's zip64 sentinel.
Sentinel == Counter - 1
MaxEntries == Counter - 2

Entry(f, content) == [file |-> f, content |-> content, directory |-> FALSE, intact |-> TRUE]
Entries(files) ==
  LET names == Sorted(DOMAIN files)
  IN  [i \in 1..Len(names) |-> Entry(names[i], files[names[i]])]

Zip(entries) == [entries |-> entries, count |-> Len(entries) % Counter, trailer |-> TRUE]
\* Fault: what the trailer cannot count is written all the same.
WrapCount(entries) == Zip(entries)
\* writeArchive refuses what the format cannot express.
WriteArchive(entries) == IF Len(entries) > MaxEntries THEN Absent ELSE Zip(entries)

\* readArchive: as many entries as the trailer counts, each under its checksum.
ReadArchive(zip) ==
  IF ~ zip.trailer \/ zip.count = Sentinel \/ \E i \in 1..zip.count : ~ zip.entries[i].intact
    THEN Absent
    ELSE SubSeq(zip.entries, 1, zip.count)

\* stageRunEntries: an entry that names a directory makes one.
Unpacked(entries) ==
  LET files == {i \in 1..Len(entries) : ~ entries[i].directory} IN
  [f \in {entries[i].file : i \in files} |->
     entries[CHOOSE i \in files : entries[i].file = f].content]

-----------------------------------------------------------------------------
(* orca push. *)

\* Fault: a list of what stays at home.
AllButTls(withFs) == {Head(f) : f \in Files} \ ({"tls"} \union IF withFs THEN {} ELSE {"fs"})
\* PUSHED_TOP_LEVEL, and the workspace snapshots with --fs.
PushedTopLevel(withFs) ==
  {"manifest.json", "events.jsonl", "redactions.json", "blobs"} \union IF withFs THEN {"fs"} ELSE {}
Shipped(withFs) == PushedTopLevel(withFs)

Pushes(changed) == push' = changed /\ UNCHANGED <<mine, writer, edits, held, pull, theirs>>

\* The top level of the run is listed once.
PushBegins ==
  /\ push.step = "start"
  /\ \E withFs \in BOOLEAN :
       Pushes([push EXCEPT !.step = "walk", !.fs = withFs,
                 !.todo = {Head(f) : f \in DOMAIN mine} \intersect Shipped(withFs),
                 !.found = mine, !.scrubbed = writer = "scrub" /\ edits = << >>])

\* A directory is listed when the walk comes to it, and read before it goes on.
PushEnters ==
  /\ push.step = "walk" /\ push.inside = {}
  /\ \E d \in push.todo \intersect {"blobs", "fs"} :
       Pushes([push EXCEPT !.todo = @ \ {d}, !.inside = {f \in DOMAIN mine : Head(f) = d}])

\* A file that is gone since it was listed fails the push.
PushReads ==
  /\ push.step = "walk"
  /\ \E f \in IF push.inside # {} THEN push.inside ELSE {<<name>> : name \in push.todo} \intersect Files :
       Pushes(IF f \in DOMAIN mine
                THEN [push EXCEPT !.inside = @ \ {f}, !.todo = @ \ {Head(f)},
                        !.got = With(@, f, mine[f])]
                ELSE [push EXCEPT !.step = "failed"])

PushPacks ==
  LET zip == WriteArchive(Entries(push.got)) IN
  /\ push.step = "walk" /\ push.todo = {} /\ push.inside = {}
  /\ Pushes([push EXCEPT !.zip = zip, !.quiet = push.found = mine,
               !.step = IF zip = Absent THEN "failed" ELSE "send"])

-----------------------------------------------------------------------------
(* The gateway. *)

RootMatches(files) ==
  Manifest \in DOMAIN files /\ EventsFile \in DOMAIN files /\ files[Manifest].root # Absent
    => files[Manifest].root = files[EventsFile]

\* It may serialise the events anew, or store too little of them and say so,
\* with a digest of what it stores; or lose some without knowing.
StoredAs(files, how) ==
  LET e == files[EventsFile]
      kept == CASE how = "anew" -> [e EXCEPT !.by = "gateway"]
                [] how \in {"truncated", "damaged"} -> [e EXCEPT !.whole = FALSE]
                [] OTHER -> e
      root == files[Manifest].root
      sealed == IF root # Absent /\ how # "damaged" THEN kept ELSE root
  IN IF {EventsFile, Manifest} \subseteq DOMAIN files
       THEN With(With(files, EventsFile, kept), Manifest, SealedAs(sealed))
       ELSE files

\* It recomputes the root and refuses a push that does not match it, or for
\* reasons of its own.
GatewayAnswers ==
  LET entries == ReadArchive(push.zip)
      files == Unpacked(entries)
  IN
  /\ push.step = "send"
  /\ \/ /\ entries # Absent /\ RootMatches(files)
        /\ \E how \in {"as it came", "anew", "truncated", "damaged"} :
             held' = [files |-> StoredAs(files, how), truncated |-> how = "truncated"]
        /\ push' = [push EXCEPT !.step = "done"]
     \/ push' = [push EXCEPT !.step = "refused"] /\ UNCHANGED held
  /\ UNCHANGED <<mine, writer, edits, pull, theirs>>

\* Its archive writer knows zip64 and may name the directories.
Exported(copy, directories) ==
  LET entries == (IF directories THEN <<[Entry(<<"blobs">>, Absent) EXCEPT !.directory = TRUE]>> ELSE << >>) \o Entries(copy.files)
  IN [entries |-> entries, trailer |-> TRUE,
      count |-> IF Len(entries) < Sentinel THEN Len(entries) ELSE Sentinel]

\* What may happen to it on the way: the end is lost, or a byte.
Damaged(zip) ==
  {zip, [zip EXCEPT !.trailer = FALSE]}
    \union {[zip EXCEPT !.entries[i].intact = FALSE] : i \in 1..Len(zip.entries)}

-----------------------------------------------------------------------------
(* orca pull. *)

Fetches(changed) == pull' = changed /\ UNCHANGED <<mine, writer, edits, push, held>>

\* The gateway's word that its copy is not whole is passed on.
PullDownloads ==
  /\ pull.step = "start"
  /\ IF held = Absent THEN Fetches([pull EXCEPT !.step = "failed"])
     ELSE \E force, directories \in BOOLEAN : \E zip \in Damaged(Exported(held, directories)) :
            Fetches([pull EXCEPT !.step = "unpack", !.force = force, !.zip = zip,
                      !.warned = held.truncated, !.from = held.files])
  /\ UNCHANGED theirs

\* An archive that cannot be read or holds nothing, and a run that is there
\* already, end the pull before anything is staged.
PullUnpacks ==
  LET entries == ReadArchive(pull.zip)
      goesOn == entries \notin {Absent, << >>} /\ (theirs # Absent => pull.force)
  IN
  /\ pull.step = "unpack"
  /\ Fetches(IF goesOn THEN [pull EXCEPT !.step = "verify", !.staged = Unpacked(entries)]
            ELSE [pull EXCEPT !.step = "failed"])
  /\ UNCHANGED theirs

RootOf(files) ==
  IF files = Absent THEN Absent
  ELSE IF Manifest \notin DOMAIN files THEN Absent ELSE files[Manifest].root

\* Fault: the staged copy goes into place as it arrived.
Unverified(staged) == TRUE
\* verifyStaged: the events under the root of their own manifest, if it has one.
VerifyStaged(staged) ==
  RootOf(staged) # Absent => EventsFile \in DOMAIN staged /\ staged[EventsFile] = RootOf(staged)

\* Fault: two digests that differ are two different runs.
ByDigest(local, staged) ==
  IF RootOf(local) \in {Absent, RootOf(staged)} \/ RootOf(staged) = Absent THEN "nothing" ELSE "differs"
\* reportAgainstLocal, over canonicalEvents when the digests differ.
ReportAgainstLocal(local, staged) ==
  IF RootOf(local) = Absent \/ RootOf(staged) = Absent \/ RootOf(local) = RootOf(staged) THEN "nothing"
  ELSE IF Story(local[EventsFile]) = Story(staged[EventsFile]) THEN "reserialized" ELSE "differs"

PullInstalls ==
  /\ pull.step = "verify"
  /\ IF VerifyStaged(pull.staged)
       THEN /\ Fetches([pull EXCEPT !.step = "done", !.before = theirs,
                        !.said = ReportAgainstLocal(theirs, pull.staged)])
            /\ theirs' = pull.staged
       ELSE Fetches([pull EXCEPT !.step = "failed"]) /\ UNCHANGED theirs

-----------------------------------------------------------------------------
NoFiles == [f \in {} |-> Absent]

\* A finished run, sealed or not, that a scrub may be about to rewrite, or one
\* that is still being recorded; and on the other machine any earlier copy.
ExchangeInit ==
  /\ \/ \E sealed \in BOOLEAN :
          /\ mine = RecordedAs("raw", sealed)
          /\ writer = "scrub" /\ edits = ScrubEdits(sealed)
     \/ mine = RecordedAs("begun", FALSE) /\ writer = "recorder" /\ edits = RecordingEdits
  /\ push = [step |-> "start", fs |-> FALSE, todo |-> {}, inside |-> {}, got |-> NoFiles,
             zip |-> Absent, found |-> NoFiles, quiet |-> FALSE, scrubbed |-> FALSE]
  /\ held = Absent
  /\ pull = [step |-> "start", force |-> FALSE, zip |-> Absent, from |-> Absent, staged |-> Absent,
             warned |-> FALSE, before |-> Absent, said |-> "nothing"]
  /\ theirs \in {Absent, RecordedAs("raw", TRUE), RecordedAs("scrubbed", TRUE), RecordedAs("raw", FALSE)}

ExchangeNext ==
  \/ RunChanges \/ WriterDies
  \/ PushBegins \/ PushEnters \/ PushReads \/ PushPacks \/ GatewayAnswers
  \/ PullDownloads \/ PullUnpacks \/ PullInstalls

ExchangeSpec == ExchangeInit /\ [][ExchangeNext]_exchangeVars

-----------------------------------------------------------------------------
(* Properties. *)

Sent == push.step \in {"send", "done"}

\* "Everything else stays on the machine": the frame logs and the run's keys
\* never, the snapshots only when asked for; and once scrub has finished nothing
\* of what it removed.
NothingElseLeaves ==
  \A f \in DOMAIN push.got :
    /\ Head(f) \in {"manifest.json", "events.jsonl", "redactions.json", "blobs"}
         \/ (push.fs /\ Head(f) = "fs")
    /\ push.scrubbed => ~ HoldsRaw(f, push.got[f])

\* A run that nobody wrote meanwhile is packed whole, with every blob its events
\* refer to, although a scrub of it was killed half-way or it was never sealed.
PackedWhole ==
  Sent /\ push.quiet =>
    /\ DOMAIN push.got = {f \in DOMAIN push.found : Head(f) \in PushedTopLevel(push.fs)}
    /\ Referred[push.got[EventsFile].version] \subseteq DOMAIN push.got
    /\ push.step = "done" => DOMAIN held.files = DOMAIN push.got

\* A pull that succeeds installed all the gateway has, and if it is sealed the
\* events are those that were sealed; what is not whole is installed only with a
\* warning.
ArrivesWhole ==
  pull.step = "done" =>
    /\ theirs = pull.from
    /\ RootOf(theirs) # Absent => theirs[EventsFile] = RootOf(theirs)
    /\ RootOf(theirs) # Absent /\ ~ pull.warned => theirs[EventsFile].whole

\* What is said of the copy that was replaced is so.
ReportIsTrue ==
  pull.step = "done" /\ RootOf(pull.before) # Absent /\ RootOf(theirs) # Absent =>
    LET old == pull.before[EventsFile]
        new == theirs[EventsFile]
    IN CASE pull.said = "nothing" -> old = new
         [] pull.said = "reserialized" -> old # new /\ Story(old) = Story(new)
         [] pull.said = "differs" -> Story(old) # Story(new)

\* What arrives on another machine is what was on this one and may be shared,
\* all of it, or is refused, or is said to be different.
WhatArrives == NothingElseLeaves /\ PackedWhole /\ ArrivesWhole /\ ReportIsTrue
=============================================================================
