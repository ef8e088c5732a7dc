------------------------------ MODULE RunStore ------------------------------
(***************************************************************************)
(* The runs of one workspace on disk, and the three commands that change   *)
(* them after the fact or beside it: a recording (the writer's side of a   *)
(* run, packages/core/src/writer.ts and blobs.ts), `orca scrub`, which     *)
(* takes material out of a run (commands/scrub.ts), and `orca gc`, which   *)
(* removes runs and blobs nothing refers to (commands/gc.ts).              *)
(*                                                                         *)
(* Nothing locks a run.  Each command reads what it decides on, awaits,    *)
(* and acts on what it read; each can be killed between two of its steps.  *)
(* A directory is removed file by file: from the first file gone to the    *)
(* last, and for good when the gc is killed in between, it is a ruin, which*)
(* every command still finds and takes for a run.                          *)
(*                                                                         *)
(* A blob is named by its contents, so scrubbing one moves it and every    *)
(* line that refers to it has to follow.                                   *)
(***************************************************************************)
EXTENDS Naturals, Sequences, FiniteSets

CONSTANTS
  Runs,       \* the runs, oldest first
  Contents,   \* what a line, a manifest or a blob can say
  Scrubbed,   \* what the literals and the detectors make of it
  Fragile,    \* contents whose scrubbed form the schema rejects
  Binary,     \* blobs that are not text
  None,       \* no reference, no parent, no digest
  Histories,  \* bound: the runs a workspace starts with
  Recordable, \* bound: the lines a recording may write
  MaxLines,   \* bound: the lines of one run
  MaxKills,   \* bound: the commands killed or failing midway
  Overlap     \* a scrub, or a new fork, may run beside a gc or a recording

Line == [text : Contents, ref : Contents \union {None}]
RunState ==
  [life : {"unborn", "here", "ruin", "removed"}, manifest : BOOLEAN, legible : BOOLEAN,
   parent : Runs \union {None}, named : {"manifest", "event"}, fork : BOOLEAN,
   words : Contents, lines : Seq(Line), blobs : SUBSET Contents,
   partial : SUBSET Contents, sum : Seq(Line) \union {None},
   aside : {"clean", "holds", "unreadable"}, snapshots : {"none", "clean", "holds", "unreadable"},
   tree : {"none", "project", "mistakable", "scratch"}]

\* The blobs that lines refer to.
Refs(lines) == {lines[i].ref : i \in DOMAIN lines} \ {None}

\* "the detectors are idempotent over already-scrubbed text"
ASSUME StoreAssumption ==
  /\ Runs \subseteq Nat /\ IsFiniteSet(Runs)
  /\ None \notin Contents \union Runs
  /\ Scrubbed \in [Contents -> Contents]
  /\ \A c \in Contents : Scrubbed[Scrubbed[c]] = Scrubbed[c]
  /\ Fragile \subseteq Contents /\ Binary \subseteq Contents
  /\ Histories \subseteq [Runs -> RunState]
  /\ Recordable \subseteq Line
  /\ MaxLines \in Nat /\ MaxKills \in Nat /\ Overlap \in BOOLEAN

\* What the commands find was left by recordings, forks and replays: a line after
\* its blob (TraceWriter), a run after the one it names as its parent, whose name
\* is in a file that can be read.
ASSUME HistoriesAssumption ==
  \A past \in Histories : \A r \in Runs :
    /\ past[r].life \in {"unborn", "here"}
    /\ Refs(past[r].lines) \subseteq past[r].blobs
    /\ past[r].named = "event" => past[r].legible
    /\ past[r].life = "unborn" =>
         /\ past[r].parent = None /\ past[r].sum = None
         /\ \A s \in Runs : s > r => past[s].life = "unborn"
    /\ past[r].life = "here" =>
         /\ past[r].manifest /\ past[r].tree # "none"
         /\ past[r].parent # None => /\ past[r].parent < r
                                    /\ past[past[r].parent].life = "here"
                                    /\ past[past[r].parent].legible

VARIABLES
  run,        \* the run directories
  recorded,   \* history: the lines each run was recorded with
  rec,        \* the recording in progress: its run, and the blob it just put
  scrub,      \* the scrub in progress, and what the last one told its user
  gc,         \* the gc in progress
  hurt,       \* history: runs with a true digest that a scrub left part-way
  kills       \* commands killed so far

storeVars == <<run, recorded, rec, scrub, gc, hurt, kills>>

\* No gc has begun to remove it.
Here(r) == run[r].life = "here"
\* There is a directory of its name.
Stands(r) == run[r].life \in {"here", "ruin"}
\* mkdir(recursive), in front of a file that is written and renamed.
Remade(life) == IF life = "removed" THEN "ruin" ELSE life
\* What TraceReader.open asks of a run.
Opens(r) == Stands(r) /\ run[r].manifest /\ run[r].legible
\* ended_at and integrity are written together, by close().
Sealed(r) == run[r].sum # None
Material(c) == Scrubbed[c] # c
\* TraceReader.verifyIntegrity
Intact(r) == run[r].sum = run[r].lines

NoRecording == [run |-> None, put |-> None]
NoScrub ==
  [stage |-> "idle", run |-> None, dry |-> FALSE, drop |-> FALSE, words |-> None,
   sum |-> None, moved |-> {}, puts |-> {}, inPlace |-> {}, stale |-> {}, lines |-> None,
   rewrote |-> FALSE, warned |-> FALSE, intact |-> FALSE]
NoGc ==
  [stage |-> "idle", floor |-> 0, date |-> [r \in Runs |-> r], listed |-> {}, todo |-> {},
   sealed |-> FALSE, refs |-> {},
   parent |-> [r \in Runs |-> None], tree |-> [r \in Runs |-> FALSE],
   orphans |-> [r \in Runs |-> {}], doomed |-> {}]

StoreInit ==
  /\ run \in Histories
  /\ recorded = [r \in Runs |-> run[r].lines]
  /\ rec = NoRecording
  /\ scrub = NoScrub
  /\ gc = NoGc
  /\ hurt = {}
  /\ kills = 0

ScrubIdle == scrub.stage = "idle"
GcIdle == gc.stage = "idle"

-----------------------------------------------------------------------------
(* A recording: the manifest first, a blob before the line that refers to  *)
(* it, the seal last.                                                      *)

\* TraceWriter.create, for a recording of its own or for a fork, whose cwd is
\* a scratch worktree and whose manifest names the run it was forked from.
StartRun(r, parent) ==
  /\ rec.run = None /\ run[r].life = "unborn"
  /\ \A s \in Runs : s < r => run[s].life # "unborn"
  /\ Overlap \/ (ScrubIdle /\ (parent # None => GcIdle))
  /\ parent # None => Opens(parent)
  /\ run' = [run EXCEPT ![r].life = "here", ![r].manifest = TRUE, ![r].legible = TRUE,
                        ![r].parent = parent, ![r].fork = parent # None,
                        ![r].tree = IF parent = None THEN "project" ELSE "scratch"]
  /\ rec' = [run |-> r, put |-> None]
  /\ UNCHANGED <<recorded, scrub, gc, hurt, kills>>

Recording == rec.run # None

\* A directory that is gone is made again, with this blob and nothing else.
PutBlob(c) ==
  /\ Recording /\ rec.put = None /\ Len(recorded[rec.run]) < MaxLines
  /\ \E line \in Recordable : line.ref = c
  /\ run' = [run EXCEPT ![rec.run].blobs = @ \union {c}, ![rec.run].life = Remade(@)]
  /\ rec' = [rec EXCEPT !.put = c]
  /\ UNCHANGED <<recorded, scrub, gc, hurt, kills>>

\* Through a handle held since the start: what is appended to a file that was
\* unlinked goes nowhere, and without an error.
AppendLine(line) ==
  /\ Recording /\ line.ref = rec.put /\ Len(recorded[rec.run]) < MaxLines
  /\ run' = IF run[rec.run].legible THEN [run EXCEPT ![rec.run].lines = Append(@, line)] ELSE run
  /\ recorded' = [recorded EXCEPT ![rec.run] = Append(@, line)]
  /\ rec' = [rec EXCEPT !.put = None]
  /\ UNCHANGED <<scrub, gc, hurt, kills>>

\* close(), which reads events.jsonl again and writes the manifest anew; a failed
\* append leaves its blob behind and the run seals over it.
SealRun ==
  /\ Recording /\ run[rec.run].legible
  /\ run' = [run EXCEPT ![rec.run].sum = run[rec.run].lines, ![rec.run].manifest = TRUE]
  /\ rec' = NoRecording
  /\ UNCHANGED <<recorded, scrub, gc, hurt, kills>>

\* The recording is killed, perhaps inside BlobStore.put.
RecordingDies ==
  /\ Recording /\ kills < MaxKills
  /\ \/ run' = run
     \/ \E line \in Recordable : line.ref # None /\
          run' = [run EXCEPT ![rec.run].partial = @ \union {line.ref}, ![rec.run].life = Remade(@)]
  /\ rec' = NoRecording
  /\ kills' = kills + 1
  /\ UNCHANGED <<recorded, scrub, gc, hurt>>

\* close() finds no events.jsonl and throws, and no manifest says so.
RecordingLosesRun ==
  /\ Recording /\ ~ run[rec.run].legible
  /\ rec' = NoRecording
  /\ UNCHANGED <<run, recorded, scrub, gc, hurt, kills>>

-----------------------------------------------------------------------------
(* orca scrub.  Everything is read and checked, then every file lands by   *)
(* rename, then the old blobs go.                                          *)

\* The command takes any run; that nothing else is at work in it is the
\* operator's business.
Undisturbed == Overlap \/ (GcIdle /\ rec.run = None)

\* A manifest that is missing, or whose scrubbed form is invalid, stops the scrub
\* before anything is written.
ScrubStarts(r, dry, drop) ==
  /\ ScrubIdle /\ Stands(r) /\ Undisturbed
  /\ run[r].manifest /\ run[r].words \notin Fragile
  /\ scrub' = [NoScrub EXCEPT !.stage = "blobs", !.run = r, !.dry = dry,
                 !.drop = drop /\ run[r].snapshots # "none",
                 !.words = run[r].words, !.sum = run[r].sum, !.intact = Intact(r)]
  /\ UNCHANGED <<run, recorded, rec, gc, hurt, kills>>

Searched(r, unread) == {b \in run[r].blobs \ unread : b \notin Binary /\ Material(b)}

\* Fault: the old blobs are never deleted.
StaleNone(moved) == {}
\* Never a path something is being written to.
Stale(moved) == moved \ {Scrubbed[b] : b \in moved}

\* A directory the walk cannot list hides its blobs; the user is told.
ScrubReadsBlobs(unread) ==
  LET r == scrub.run
      moved == Searched(r, unread)
  IN /\ scrub.stage = "blobs" /\ unread \subseteq run[r].blobs
     /\ scrub' = [scrub EXCEPT !.stage = "events", !.moved = moved, !.stale = Stale(moved),
                    !.puts = {Scrubbed[b] : b \in moved},
                    !.inPlace = {p \in run[r].partial : p \notin Binary /\ Material(p)},
                    !.warned = unread # {}]
     /\ UNCHANGED <<run, recorded, rec, gc, hurt, kills>>

Kept(line) == IF line.text \in Fragile THEN line.text ELSE Scrubbed[line.text]
\* Fault: a line that was put back is not retargeted.
RetargetUnlessReverted(line) ==
  [text |-> Kept(line),
   ref |-> IF line.ref \in scrub.moved /\ line.text \notin Fragile
           THEN Scrubbed[line.ref] ELSE line.ref]
\* A line whose scrubbed form would not validate is put back; its reference
\* follows the blob all the same.
Retarget(line) ==
  [text |-> Kept(line),
   ref |-> IF line.ref \in scrub.moved THEN Scrubbed[line.ref] ELSE line.ref]

ScrubReadsEvents ==
  LET lines == run[scrub.run].lines
      next == [i \in DOMAIN lines |-> Retarget(lines[i])]
  IN /\ scrub.stage = "events" /\ run[scrub.run].legible
     /\ scrub' = [scrub EXCEPT !.stage = "aside", !.lines = next, !.rewrote = next # lines,
                    !.warned = @ \/ \E i \in DOMAIN lines : lines[i].text \in Fragile]
     /\ UNCHANGED <<run, recorded, rec, gc, hurt, kills>>

\* What the user is left with.
Told(warned) ==
  [NoScrub EXCEPT !.stage = "told", !.run = scrub.run, !.dry = scrub.dry,
     !.rewrote = scrub.rewrote, !.warned = warned, !.intact = scrub.intact]

\* Found, or not to be ruled out: the objects of the shadow store, and every file
\* of the run that is not part of the trace.
SnapshotsSuspect(state) == state \in {"holds", "unreadable"}
AsideSuspect(r) == run[r].aside \in {"holds", "unreadable"}

\* The shadow store is dropped here, before anything is committed, or searched
\* like every other file the scrub does not rewrite.  A dry run ends here.
ScrubLooksAside ==
  LET r == scrub.run
  IN /\ scrub.stage = "aside"
     /\ run' = IF scrub.drop /\ ~ scrub.dry THEN [run EXCEPT ![r].snapshots = "none"] ELSE run
     /\ LET warned == scrub.warned \/ AsideSuspect(r) \/ SnapshotsSuspect(run'[r].snapshots)
        IN scrub' = IF scrub.dry THEN Told(warned)
                    ELSE [scrub EXCEPT !.stage = "commit", !.warned = warned, !.moved = {}]
     /\ UNCHANGED <<recorded, rec, gc, hurt, kills>>

\* Fault: the digest is recomputed whatever was rewritten.
RefreshedAlways == IF scrub.sum # None THEN scrub.lines ELSE scrub.sum
\* The digest follows the events, and only when they were rewritten.
RefreshedSum == IF scrub.rewrote /\ scrub.sum # None THEN scrub.lines ELSE scrub.sum

\* commit(): the blobs in the order of the walk, events.jsonl, manifest.json; a
\* directory that is gone by then is made again.
CommitBlob(b) ==
  /\ scrub.stage = "commit" /\ b \in scrub.puts
  /\ run' = [run EXCEPT ![scrub.run].blobs = @ \union {b}, ![scrub.run].life = Remade(@)]
  /\ scrub' = [scrub EXCEPT !.puts = @ \ {b}]
  /\ UNCHANGED <<recorded, rec, gc, hurt, kills>>

CommitInPlace(p) ==
  /\ scrub.stage = "commit" /\ p \in scrub.inPlace
  /\ run' = [run EXCEPT ![scrub.run].partial = (@ \ {p}) \union {Scrubbed[p]},
                        ![scrub.run].life = Remade(@)]
  /\ scrub' = [scrub EXCEPT !.inPlace = @ \ {p}]
  /\ UNCHANGED <<recorded, rec, gc, hurt, kills>>

\* Fault: events.jsonl may land before the blobs it names.
BlobsLandedOrNot == TRUE
BlobsLanded == scrub.puts = {} /\ scrub.inPlace = {}

CommitEvents ==
  /\ scrub.stage = "commit" /\ BlobsLanded
  /\ run' = IF scrub.rewrote
            THEN [run EXCEPT ![scrub.run].lines = scrub.lines, ![scrub.run].legible = TRUE,
                             ![scrub.run].life = Remade(@)]
            ELSE run
  /\ scrub' = [scrub EXCEPT !.stage = "manifest"]
  /\ UNCHANGED <<recorded, rec, gc, hurt, kills>>

\* Only a manifest that differs is written.
CommitManifest ==
  LET written == Scrubbed[scrub.words] # scrub.words \/ RefreshedSum # scrub.sum
  IN
  /\ scrub.stage = "manifest"
  /\ run' = [run EXCEPT ![scrub.run].words = Scrubbed[scrub.words],
                        ![scrub.run].sum = RefreshedSum,
                        ![scrub.run].manifest = @ \/ written,
                        ![scrub.run].life = IF written THEN Remade(@) ELSE @]
  /\ scrub' = [scrub EXCEPT !.stage = "unlink"]
  /\ UNCHANGED <<recorded, rec, gc, hurt, kills>>

UnlinkStale(b) ==
  /\ scrub.stage = "unlink" /\ b \in scrub.stale
  /\ run' = [run EXCEPT ![scrub.run].blobs = @ \ {b}]
  /\ scrub' = [scrub EXCEPT !.stale = @ \ {b}]
  /\ UNCHANGED <<recorded, rec, gc, hurt, kills>>

ScrubReports ==
  /\ scrub.stage = "unlink" /\ scrub.stale = {}
  /\ scrub' = Told(scrub.warned)
  /\ UNCHANGED <<run, recorded, rec, gc, hurt, kills>>

ScrubExits ==
  /\ scrub.stage = "told"
  /\ scrub' = NoScrub
  /\ UNCHANGED <<run, recorded, rec, gc, hurt, kills>>

\* Killed, or one read, write or unlink of several fails and the command throws,
\* as the read of events.jsonl always does where there is none.
ScrubDies ==
  /\ scrub.stage \notin {"idle", "told"}
  /\ kills < MaxKills \/ (scrub.stage = "events" /\ ~ run[scrub.run].legible)
  /\ scrub' = NoScrub
  /\ hurt' = IF scrub.intact /\ scrub.stage \in {"commit", "manifest", "unlink"}
             THEN hurt \union {scrub.run} ELSE hurt
  /\ kills' = IF kills < MaxKills THEN kills + 1 ELSE kills
  /\ UNCHANGED <<run, recorded, rec, gc>>

-----------------------------------------------------------------------------
(* orca gc.  Every run is inspected, newest first; then the doomed runs go, *)
(* newest first, each with its scratch worktree; then the orphans of the   *)
(* runs that stay.                                                         *)

\* listRuns dates a run by its manifest, and a ruin that lost its manifest by the
\* directory's mtime, which is later than the run's own start.
Dates ==
  {date \in [Runs -> Runs \union {r + 1 : r \in Runs}] :
     \A r \in Runs : IF Stands(r) /\ ~ run[r].manifest THEN date[r] >= r ELSE date[r] = r}

Newest(S) == CHOOSE r \in S : \A s \in S : gc.date[s] <= gc.date[r]

\* floor: --older-than and --keep doom the runs below it; 0 is neither flag.
GcStarts(floor) ==
  /\ GcIdle /\ (Overlap \/ ScrubIdle)
  /\ \E r \in Runs : Stands(r)
  /\ \E date \in Dates :
       gc' = [NoGc EXCEPT !.stage = "manifest", !.floor = floor, !.date = date,
                !.listed = {r \in Runs : Stands(r)}, !.todo = {r \in Runs : Stands(r)}]
  /\ UNCHANGED <<run, recorded, rec, scrub, hurt, kills>>

At == Newest(gc.todo)

\* isScratchWorktree looks at the path alone, and a project can have such a path.
LooksScratch(r) == run[r].tree \in {"scratch", "mistakable"}
\* Fault: a run that names a parent is taken for a fork.
ReclaimableByParent(r) == run[r].parent # None /\ LooksScratch(r)
\* The directory of a fork, and never the cwd of a run that merely names a parent.
Reclaimable(r) == run[r].fork /\ LooksScratch(r)

\* Without a manifest the run has no parent yet, no worktree and no seal.
GcReadsManifest ==
  /\ gc.stage = "manifest" /\ gc.todo # {}
  /\ gc' = [gc EXCEPT !.stage = "events", !.sealed = run[At].manifest /\ Sealed(At),
              !.parent[At] = IF run[At].manifest /\ run[At].named = "manifest"
                             THEN run[At].parent ELSE None,
              !.tree[At] = run[At].manifest /\ Reclaimable(At)]
  /\ UNCHANGED <<run, recorded, rec, scrub, hurt, kills>>

\* Any digest in any line is a reference; a fork event names a parent the
\* manifest did not.
GcReadsEvents ==
  /\ gc.stage = "events"
  /\ gc' = [gc EXCEPT !.stage = "blobs", !.refs = Refs(run[At].lines),
              !.sealed = @ /\ run[At].legible,
              !.parent[At] = IF @ = None /\ run[At].legible THEN run[At].parent ELSE @]
  /\ UNCHANGED <<run, recorded, rec, scrub, hurt, kills>>

\* Fault: a run that is not sealed is swept like any other.
OrphansUnsealed == run[At].blobs \ gc.refs
\* Only of a run proven finished and readable.
Orphans == IF gc.sealed THEN run[At].blobs \ gc.refs ELSE {}

GcListsBlobs ==
  /\ gc.stage = "blobs"
  /\ gc' = [gc EXCEPT !.stage = "manifest", !.orphans[At] = Orphans, !.todo = @ \ {At},
              !.refs = {}, !.sealed = FALSE]
  /\ UNCHANGED <<run, recorded, rec, scrub, hurt, kills>>

\* Fault: only the parents of the runs the flags kept are rescued.
RescueOnce(doomed) == doomed \ {gc.parent[r] : r \in gc.listed \ doomed}
\* The ancestors of what stays, to a fixed point: what goes is the largest part of
\* the doomed in which there is no parent of a run that stays.
Rescue(doomed) ==
  UNION {going \in SUBSET doomed : \A r \in gc.listed \ going : gc.parent[r] \notin going}

GcDecides ==
  /\ gc.stage = "manifest" /\ gc.todo = {}
  /\ LET doomed == Rescue({r \in gc.listed : gc.date[r] < gc.floor})
     IN gc' = [NoGc EXCEPT !.stage = "remove", !.date = gc.date, !.doomed = doomed,
                 !.listed = gc.listed \ doomed,
                 !.tree = [r \in Runs |-> r \in doomed /\ gc.tree[r]],
                 !.orphans = [r \in Runs |-> IF r \in doomed THEN {} ELSE gc.orphans[r]]]
  /\ UNCHANGED <<run, recorded, rec, scrub, hurt, kills>>

\* Fault: the oldest run goes first.
OldestDoomed == CHOOSE r \in gc.doomed : \A s \in gc.doomed : r <= s
NextDoomed == Newest(gc.doomed)

\* What rm of a directory leaves when it has removed one more file of it.
Torn(d) ==
  {[d EXCEPT !.life = "ruin", !.blobs = @ \ {b}] : b \in d.blobs}
  \union {[d EXCEPT !.life = "ruin", !.partial = @ \ {p}] : p \in d.partial}
  \union {[d EXCEPT !.life = "ruin", !.legible = FALSE, !.lines = << >>],
          [d EXCEPT !.life = "ruin", !.manifest = FALSE],
          [d EXCEPT !.life = "ruin", !.aside = "clean"],
          [d EXCEPT !.life = "ruin", !.snapshots = "none"]}
Emptied(d) ==
  /\ d.blobs = {} /\ d.partial = {} /\ d.lines = << >> /\ ~ d.legible /\ ~ d.manifest
  /\ d.aside = "clean" /\ d.snapshots = "none"

\* rm(run.dir, recursive): the files in whatever order the directory lists them,
\* each a step, and the directory last; then rm(run.worktree).
GcRemovesFile ==
  /\ gc.stage = "remove" /\ gc.doomed # {} /\ Stands(NextDoomed)
  /\ \E d \in Torn(run[NextDoomed]) : run' = [run EXCEPT ![NextDoomed] = d]
  /\ UNCHANGED <<gc, recorded, rec, scrub, hurt, kills>>

GcRemovesRun ==
  /\ gc.stage = "remove" /\ gc.doomed # {} /\ Emptied(run[NextDoomed])
  /\ run' = [run EXCEPT ![NextDoomed].life = "removed"]
  /\ gc' = [gc EXCEPT !.stage = "tree"]
  /\ UNCHANGED <<recorded, rec, scrub, hurt, kills>>

GcRemovesTree ==
  /\ gc.stage = "tree"
  /\ run' = IF gc.tree[NextDoomed] THEN [run EXCEPT ![NextDoomed].tree = "none"] ELSE run
  /\ gc' = [gc EXCEPT !.stage = "remove", !.doomed = @ \ {NextDoomed}]
  /\ UNCHANGED <<recorded, rec, scrub, hurt, kills>>

\* The orphans were found when the run was inspected; unlink tolerates one
\* that is gone.
GcUnlinks(r, b) ==
  /\ gc.stage = "remove" /\ gc.doomed = {} /\ r \in gc.listed /\ b \in gc.orphans[r]
  /\ run' = [run EXCEPT ![r].blobs = @ \ {b}]
  /\ gc' = [gc EXCEPT !.orphans[r] = @ \ {b}]
  /\ UNCHANGED <<recorded, rec, scrub, hurt, kills>>

GcFinishes ==
  /\ gc.stage = "remove" /\ gc.doomed = {}
  /\ \A r \in gc.listed : gc.orphans[r] = {}
  /\ gc' = NoGc
  /\ UNCHANGED <<run, recorded, rec, scrub, hurt, kills>>

\* Killed, or rm throws, as it does when a recording writes into what it removes.
GcDies ==
  /\ ~ GcIdle /\ kills < MaxKills
  /\ gc' = NoGc
  /\ kills' = kills + 1
  /\ UNCHANGED <<run, recorded, rec, scrub, hurt>>

-----------------------------------------------------------------------------
RecordNext ==
  \/ \E r \in Runs, parent \in Runs \union {None} : StartRun(r, parent)
  \/ \E c \in Contents : PutBlob(c)
  \/ \E line \in Recordable : AppendLine(line)
  \/ SealRun \/ RecordingDies \/ RecordingLosesRun
ScrubNext ==
  \/ \E r \in Runs, dry, drop \in BOOLEAN : ScrubStarts(r, dry, drop)
  \/ ScrubReadsBlobs({}) \/ \E b \in Contents : ScrubReadsBlobs({b})
  \/ ScrubReadsEvents \/ ScrubLooksAside
  \/ \E c \in Contents : CommitBlob(c) \/ CommitInPlace(c)
  \/ CommitEvents \/ CommitManifest
  \/ \E c \in Contents : UnlinkStale(c)
  \/ ScrubReports \/ ScrubExits \/ ScrubDies
GcNext ==
  \/ \E floor \in {0} \union {r + 1 : r \in Runs} : GcStarts(floor)
  \/ GcReadsManifest \/ GcReadsEvents \/ GcListsBlobs \/ GcDecides
  \/ GcRemovesFile \/ GcRemovesRun \/ GcRemovesTree
  \/ \E r \in Runs, c \in Contents : GcUnlinks(r, c)
  \/ GcFinishes \/ GcDies

StoreNext == RecordNext \/ ScrubNext \/ GcNext
StoreSpec == StoreInit /\ [][StoreNext]_storeVars

-----------------------------------------------------------------------------
(* Properties. *)

StoreTypeOK ==
  /\ run \in [Runs -> RunState]
  /\ recorded \in [Runs -> Seq(Line)]
  /\ rec \in [run : Runs \union {None}, put : Contents \union {None}]
  /\ scrub.stage \in {"idle", "blobs", "events", "aside", "commit", "manifest", "unlink", "told"}
  /\ scrub.run \in Runs \union {None}
  /\ scrub.moved \union scrub.puts \union scrub.stale \union scrub.inPlace \subseteq Contents
  /\ gc.stage \in {"idle", "manifest", "events", "blobs", "remove", "tree"}
  /\ gc.doomed \union gc.listed \union gc.todo \subseteq Runs
  /\ gc.orphans \in [Runs -> SUBSET Contents]
  /\ hurt \subseteq Runs
  /\ kills \in 0..MaxKills

Holds(r) ==
  \/ Material(run[r].words)
  \/ \E i \in DOMAIN run[r].lines : Material(run[r].lines[i].text)
  \/ \E b \in (run[r].blobs \union run[r].partial) \ Binary : Material(b)
  \/ run[r].aside = "holds" \/ run[r].snapshots = "holds"

\* At every instant, in the middle of a scrub or a gc and after any number of
\* them were killed, every line of a run that no gc has begun to remove resolves,
\* and reads as it was recorded up to what scrubbing takes out (scrub.ts: a scrub
\* interrupted "leaves a run that is whole and partly unscrubbed rather than one
\* that is scrubbed and unreadable").  A gc killed inside the rm of a run leaves
\* a ruin, which can have lines and lack their blobs.
Whole ==
  \A r \in Runs : Here(r) =>
    /\ DOMAIN run[r].lines = DOMAIN recorded[r]
    /\ \A i \in DOMAIN recorded[r] :
         LET now == run[r].lines[i]
             then == recorded[r][i]
         IN /\ Scrubbed[now.text] = Scrubbed[then.text]
            /\ (now.ref = None) <=> (then.ref = None)
            /\ now.ref # None => /\ now.ref \in run[r].blobs
                                 /\ Scrubbed[now.ref] = Scrubbed[then.ref]

\* gc never leaves a run without the run it was forked from, its manifest and its
\* events, nor without the directory it ran in, wherever gc is killed, inside the
\* rm of a run included, and whatever ruins it meets; and it never takes a
\* directory that was not a fork's scratch worktree.
Provenance ==
  \A r \in Runs :
    /\ Here(r) => /\ run[r].parent # None => Opens(run[r].parent)
                  /\ run[r].tree # "none"
    /\ run[r].life \in {"ruin", "removed"} /\ run[r].tree = "none" => run[r].fork

\* A scrub that ends by saying nothing is left, left nothing it can search:
\* neither a line, the manifest, a text blob, a partial write, another file of
\* the run nor its snapshots.
ClearMeansClear ==
  scrub.stage = "told" /\ ~ scrub.dry /\ ~ scrub.warned /\ Stands(scrub.run)
    => ~ Holds(scrub.run)

\* A scrub that ran to its end leaves a digest that matches exactly if it matched
\* before or the events were rewritten: it neither breaks integrity nor repairs
\* a digest over events it did not touch.
DigestKept ==
  scrub.stage = "told" /\ Sealed(scrub.run) /\ Here(scrub.run)
    => (Intact(scrub.run) <=> (scrub.intact \/ (scrub.rewrote /\ ~ scrub.dry)))

\* What commit() says of a scrub killed part-way: "re-running the same command
\* fixes" it.  Once a later scrub of the run has finished, the digest is that of
\* the events.
RerunFinishes ==
  scrub.stage = "told" /\ ~ scrub.dry /\ Here(scrub.run) /\ scrub.run \in hurt
    => Intact(scrub.run)

\* What SECURITY.md says of the all-clear: it "is an answer about the whole
\* directory, not only about the part scrub edits".
AllClear ==
  scrub.stage = "told" /\ ~ scrub.dry /\ ~ scrub.warned /\ Here(scrub.run)
    => \A b \in run[scrub.run].blobs : ~ Material(b)

\* What gc.ts says it sweeps without a flag: the blobs a run left that died
\* between writing a payload and writing the event that refers to it.
DebrisSwept ==
  [][GcFinishes => \A r \in gc.listed : Here(r) /\ rec.run # r
        => run[r].blobs \subseteq Refs(run[r].lines)]_storeVars
=============================================================================
