--------------------------- MODULE RunStoreProofs ---------------------------
(***************************************************************************)
(* What holds of the runs on disk for every set of runs and contents, every*)
(* scrubbing, every history and every bound (RunStore.tla), when the       *)
(* operator lets no scrub and no new fork run beside a gc or a recording.  *)
(*                                                                         *)
(* Four inductive invariants, one per section.  Types: what every variable *)
(* can be, with the fields the commands fill in as they go.  Order: who can*)
(* be at work at once, in which order runs are created, what a gc lists.   *)
(* On them rest Trust, of which Whole is a part (a scrub's plan follows    *)
(* what was recorded and resolves among the blobs that will be there; a gc *)
(* sweeps sealed runs alone, and nothing their lines refer to); Descent, of*)
(* which Provenance is a part (what a gc has read of the runs no rm has    *)
(* begun on is still true, and no such run that it keeps descends from one *)
(* it dooms); and Clear, of which ClearMeansClear is a part (whatever holds*)
(* material in the run a scrub is at work in is on the list of what it is  *)
(* about to rewrite).                                                      *)
(*                                                                         *)
(* Each action has a lemma, named for it, that says what the action leaves *)
(* of every variable; the invariants are proved from those.                *)
(***************************************************************************)
EXTENDS RunStore, FiniteSetTheorems, WellFoundedInduction, TLAPS

-----------------------------------------------------------------------------
(* Types of the commands at work.                                           *)

ScrubStages == {"idle", "blobs", "events", "aside", "commit", "manifest", "unlink", "told"}
ScrubState ==
  [stage : ScrubStages, run : Runs \union {None}, dry : BOOLEAN, drop : BOOLEAN,
   words : Contents \union {None}, sum : Seq(Line) \union {None}, moved : SUBSET Contents,
   puts : SUBSET Contents, inPlace : SUBSET Contents, stale : SUBSET Contents,
   lines : Seq(Line) \union {None}, rewrote : BOOLEAN, warned : BOOLEAN, intact : BOOLEAN]

\* A scrub that reads or writes; one that has read the events.
Working == {"blobs", "events", "aside", "commit", "manifest", "unlink"}
Planned == {"aside", "commit", "manifest", "unlink"}

GcStages == {"idle", "manifest", "events", "blobs", "remove", "tree"}
GcState ==
  [stage : GcStages, floor : Nat, date : [Runs -> Nat], listed : SUBSET Runs,
   todo : SUBSET Runs, sealed : BOOLEAN, refs : SUBSET Contents,
   parent : [Runs -> Runs \union {None}], tree : [Runs -> BOOLEAN],
   orphans : [Runs -> SUBSET Contents], doomed : SUBSET Runs]

Types ==
  /\ run \in [Runs -> RunState]
  /\ recorded \in [Runs -> Seq(Line)]
  /\ rec \in [run : Runs \union {None}, put : Contents \union {None}]
  /\ scrub \in ScrubState
  /\ scrub.stage # "idle" => scrub.run \in Runs
  /\ scrub.stage \in Working => scrub.words \in Contents
  /\ scrub.stage \in Planned => scrub.lines \in Seq(Line)
  /\ gc \in GcState
  /\ gc.stage \in {"events", "blobs"} => gc.todo # {}
  /\ gc.stage = "tree" => gc.doomed # {}
  /\ hurt \subseteq Runs
  /\ kills \in 0..MaxKills

LEMMA Replaced ==
  ASSUME NEW S, NEW V, NEW f \in [S -> V], NEW x \in S, NEW v \in V
  PROVE  [f EXCEPT ![x] = v] \in [S -> V]
OBVIOUS

\* What a step leaves of a run: where it is, what of it can be read and where it
\* comes from; what is written in it; its blobs; and the files beside its trace.
\* A directory that is gone can be made again.
SameKin(s) ==
  /\ run'[s].life = run[s].life \/ (run[s].life = "removed" /\ run'[s].life = "ruin")
  /\ (run[s].manifest => run'[s].manifest) /\ (run[s].legible => run'[s].legible)
  /\ run'[s].parent = run[s].parent /\ run'[s].named = run[s].named
  /\ run'[s].fork = run[s].fork /\ run'[s].tree = run[s].tree
SameText(s) ==
  /\ run'[s].words = run[s].words /\ run'[s].lines = run[s].lines
  /\ run'[s].sum = run[s].sum
SameBlobs(s) == run'[s].blobs = run[s].blobs /\ run'[s].partial = run[s].partial
SameBeside(s) == run'[s].aside = run[s].aside /\ run'[s].snapshots = run[s].snapshots

-----------------------------------------------------------------------------
(* Edits of one run, one field at a time.                                   *)

\* The forms a run can take: with other blobs, with another partial write, with
\* other lines, under another manifest; each where it is or in a directory made
\* again.
BlobEdits(e, B) == {[e EXCEPT !.blobs = B], [e EXCEPT !.blobs = B, !.life = Remade(e.life)]}
PartialEdits(e, B) == {[e EXCEPT !.partial = B, !.life = Remade(e.life)]}
LineEdits(e, n) ==
  {[e EXCEPT !.lines = n], [e EXCEPT !.lines = n, !.legible = TRUE, !.life = Remade(e.life)]}
ManifestEdits(e, w, u, m) ==
  {[e EXCEPT !.words = w, !.sum = u, !.manifest = m, !.life = l] : l \in {e.life, Remade(e.life)}}

LEMMA BornRecord ==
  ASSUME NEW d \in RunState, NEW p \in Runs \union {None}, NEW f \in BOOLEAN,
         NEW t \in {"project", "scratch"}
  PROVE  [d EXCEPT !.life = "here", !.manifest = TRUE, !.legible = TRUE, !.parent = p,
                   !.fork = f, !.tree = t] \in RunState
BY DEF RunState

\* A manifest is rewritten.
LEMMA ManifestEdit ==
  ASSUME run \in [Runs -> RunState], NEW r \in Runs, NEW d,
         NEW w \in Contents, NEW u \in Seq(Line) \union {None}, NEW m \in BOOLEAN,
         run[r].manifest => m, d \in ManifestEdits(run[r], w, u, m),
         run' = [run EXCEPT ![r] = d]
  PROVE  /\ run' \in [Runs -> RunState]
         /\ \A s \in Runs : SameKin(s) /\ run'[s].lines = run[s].lines /\ SameBlobs(s) /\ SameBeside(s)
         /\ \A s \in Runs \ {r} : run'[s].words = run[s].words /\ run'[s].sum = run[s].sum
         /\ run'[r].words = w /\ run'[r].sum = u
<1>1. run[r] \in RunState
  OBVIOUS
<1>2. /\ d \in RunState
      /\ d.words = w /\ d.sum = u
      /\ d.life = run[r].life \/ (run[r].life = "removed" /\ d.life = "ruin")
      /\ (run[r].manifest => d.manifest) /\ (run[r].legible => d.legible)
      /\ d.parent = run[r].parent /\ d.named = run[r].named /\ d.fork = run[r].fork
      /\ d.tree = run[r].tree
      /\ d.lines = run[r].lines
      /\ d.blobs = run[r].blobs
      /\ d.partial = run[r].partial
      /\ d.aside = run[r].aside
      /\ d.snapshots = run[r].snapshots
  <2>1. CASE d = [run[r] EXCEPT !.words = w, !.sum = u, !.manifest = m, !.life = run[r].life]
    BY ONLY <1>1, <2>1, r \in Runs, w \in Contents, u \in Seq(Line) \union {None}, m \in BOOLEAN, run[r].manifest => m DEF RunState, Remade
  <2>2. CASE d = [run[r] EXCEPT !.words = w, !.sum = u, !.manifest = m, !.life = Remade(run[r].life)]
    BY ONLY <1>1, <2>2, r \in Runs, w \in Contents, u \in Seq(Line) \union {None}, m \in BOOLEAN, run[r].manifest => m DEF RunState, Remade
  <2> QED
    BY <2>1, <2>2 DEF ManifestEdits
<1>4. run' \in [Runs -> RunState] /\ run'[r] = d /\ \A s \in Runs \ {r} : run'[s] = run[s]
  BY ONLY run \in [Runs -> RunState], r \in Runs, run' = [run EXCEPT ![r] = d], <1>2, Replaced
<1> QED
  BY ONLY <1>2, <1>4 DEF SameKin, SameText, SameBlobs, SameBeside

\* A blob comes, in a directory that is made again where it is gone, or goes.
LEMMA BlobsEdit ==
  ASSUME run \in [Runs -> RunState], NEW r \in Runs, NEW d, NEW B \in SUBSET Contents,
         d \in BlobEdits(run[r], B),
         run' = [run EXCEPT ![r] = d]
  PROVE  /\ run' \in [Runs -> RunState]
         /\ \A s \in Runs : SameKin(s) /\ SameText(s) /\ run'[s].partial = run[s].partial /\ SameBeside(s)
         /\ \A s \in Runs \ {r} : run'[s].blobs = run[s].blobs
         /\ run'[r].blobs = B
<1>1. run[r] \in RunState
  OBVIOUS
<1>2. /\ d \in RunState
      /\ d.blobs = B
      /\ d.life = run[r].life \/ (run[r].life = "removed" /\ d.life = "ruin")
      /\ (run[r].manifest => d.manifest) /\ (run[r].legible => d.legible)
      /\ d.parent = run[r].parent /\ d.named = run[r].named /\ d.fork = run[r].fork
      /\ d.tree = run[r].tree
      /\ d.words = run[r].words
      /\ d.lines = run[r].lines
      /\ d.sum = run[r].sum
      /\ d.partial = run[r].partial
      /\ d.aside = run[r].aside
      /\ d.snapshots = run[r].snapshots
  <2>1. CASE d = [run[r] EXCEPT !.blobs = B]
    BY ONLY <1>1, <2>1, r \in Runs, B \in SUBSET Contents DEF RunState, Remade
  <2>2. CASE d = [run[r] EXCEPT !.blobs = B, !.life = Remade(run[r].life)]
    BY ONLY <1>1, <2>2, r \in Runs, B \in SUBSET Contents DEF RunState, Remade
  <2> QED
    BY <2>1, <2>2 DEF BlobEdits
<1>4. run' \in [Runs -> RunState] /\ run'[r] = d /\ \A s \in Runs \ {r} : run'[s] = run[s]
  BY ONLY run \in [Runs -> RunState], r \in Runs, run' = [run EXCEPT ![r] = d], <1>2, Replaced
<1> QED
  BY ONLY <1>2, <1>4 DEF SameKin, SameText, SameBlobs, SameBeside

\* A partial write is left or rewritten.
LEMMA PartialEdit ==
  ASSUME run \in [Runs -> RunState], NEW r \in Runs, NEW d, NEW B \in SUBSET Contents,
         d \in PartialEdits(run[r], B),
         run' = [run EXCEPT ![r] = d]
  PROVE  /\ run' \in [Runs -> RunState]
         /\ \A s \in Runs : SameKin(s) /\ SameText(s) /\ run'[s].blobs = run[s].blobs /\ SameBeside(s)
         /\ \A s \in Runs \ {r} : run'[s].partial = run[s].partial
         /\ run'[r].partial = B
<1>1. run[r] \in RunState
  OBVIOUS
<1>2. /\ d \in RunState
      /\ d.partial = B
      /\ d.life = run[r].life \/ (run[r].life = "removed" /\ d.life = "ruin")
      /\ (run[r].manifest => d.manifest) /\ (run[r].legible => d.legible)
      /\ d.parent = run[r].parent /\ d.named = run[r].named /\ d.fork = run[r].fork
      /\ d.tree = run[r].tree
      /\ d.words = run[r].words
      /\ d.lines = run[r].lines
      /\ d.sum = run[r].sum
      /\ d.blobs = run[r].blobs
      /\ d.aside = run[r].aside
      /\ d.snapshots = run[r].snapshots
  <2>1. CASE d = [run[r] EXCEPT !.partial = B, !.life = Remade(run[r].life)]
    BY ONLY <1>1, <2>1, r \in Runs, B \in SUBSET Contents DEF RunState, Remade
  <2> QED
    BY <2>1 DEF PartialEdits
<1>4. run' \in [Runs -> RunState] /\ run'[r] = d /\ \A s \in Runs \ {r} : run'[s] = run[s]
  BY ONLY run \in [Runs -> RunState], r \in Runs, run' = [run EXCEPT ![r] = d], <1>2, Replaced
<1> QED
  BY ONLY <1>2, <1>4 DEF SameKin, SameText, SameBlobs, SameBeside

\* events.jsonl is appended to or replaced.
LEMMA LinesEdit ==
  ASSUME run \in [Runs -> RunState], NEW r \in Runs, NEW d, NEW n \in Seq(Line),
         d \in LineEdits(run[r], n),
         run' = [run EXCEPT ![r] = d]
  PROVE  /\ run' \in [Runs -> RunState]
         /\ \A s \in Runs : /\ SameKin(s) /\ SameBlobs(s) /\ SameBeside(s)
                            /\ run'[s].words = run[s].words /\ run'[s].sum = run[s].sum
         /\ \A s \in Runs \ {r} : run'[s].lines = run[s].lines
         /\ run'[r].lines = n
<1>1. run[r] \in RunState
  OBVIOUS
<1>2. /\ d \in RunState
      /\ d.lines = n
      /\ d.life = run[r].life \/ (run[r].life = "removed" /\ d.life = "ruin")
      /\ (run[r].manifest => d.manifest) /\ (run[r].legible => d.legible)
      /\ d.parent = run[r].parent /\ d.named = run[r].named /\ d.fork = run[r].fork
      /\ d.tree = run[r].tree
      /\ d.words = run[r].words
      /\ d.sum = run[r].sum
      /\ d.blobs = run[r].blobs
      /\ d.partial = run[r].partial
      /\ d.aside = run[r].aside
      /\ d.snapshots = run[r].snapshots
  <2>1. CASE d = [run[r] EXCEPT !.lines = n]
    BY ONLY <1>1, <2>1, r \in Runs, n \in Seq(Line) DEF RunState, Remade
  <2>2. CASE d = [run[r] EXCEPT !.lines = n, !.legible = TRUE, !.life = Remade(run[r].life)]
    BY ONLY <1>1, <2>2, r \in Runs, n \in Seq(Line) DEF RunState, Remade
  <2> QED
    BY <2>1, <2>2 DEF LineEdits
<1>4. run' \in [Runs -> RunState] /\ run'[r] = d /\ \A s \in Runs \ {r} : run'[s] = run[s]
  BY ONLY run \in [Runs -> RunState], r \in Runs, run' = [run EXCEPT ![r] = d], <1>2, Replaced
<1> QED
  BY ONLY <1>2, <1>4 DEF SameKin, SameText, SameBlobs, SameBeside

\* The digest is written.
LEMMA SumEdit ==
  ASSUME run \in [Runs -> RunState], NEW r \in Runs, NEW d, NEW n \in Seq(Line),
         d = [run[r] EXCEPT !.sum = n, !.manifest = TRUE],
         run' = [run EXCEPT ![r] = d]
  PROVE  /\ run' \in [Runs -> RunState]
         /\ \A s \in Runs : /\ SameKin(s) /\ SameBlobs(s) /\ SameBeside(s)
                            /\ run'[s].words = run[s].words /\ run'[s].lines = run[s].lines
         /\ \A s \in Runs \ {r} : run'[s].sum = run[s].sum
         /\ run'[r].sum = n
<1>1. run[r] \in RunState
  OBVIOUS
<1>2. d \in RunState
  BY <1>1 DEF RunState, Remade
<1>3. /\ d.sum = n
      /\ d.life = run[r].life \/ (run[r].life = "removed" /\ d.life = "ruin")
      /\ (run[r].manifest => d.manifest) /\ (run[r].legible => d.legible)
      /\ d.parent = run[r].parent /\ d.named = run[r].named /\ d.fork = run[r].fork
      /\ d.tree = run[r].tree
      /\ d.words = run[r].words
      /\ d.lines = run[r].lines
      /\ d.blobs = run[r].blobs
      /\ d.partial = run[r].partial
      /\ d.aside = run[r].aside
      /\ d.snapshots = run[r].snapshots
  BY <1>1 DEF RunState, Remade
<1>4. run' \in [Runs -> RunState] /\ run'[r] = d /\ \A s \in Runs \ {r} : run'[s] = run[s]
  BY ONLY run \in [Runs -> RunState], r \in Runs, run' = [run EXCEPT ![r] = d], <1>2, Replaced
<1> QED
  BY ONLY <1>3, <1>4 DEF SameKin, SameText, SameBlobs, SameBeside

\* The shadow store is dropped.
LEMMA SnapshotsEdit ==
  ASSUME run \in [Runs -> RunState], NEW r \in Runs, NEW d,
         d = [run[r] EXCEPT !.snapshots = "none"],
         run' = [run EXCEPT ![r] = d]
  PROVE  /\ run' \in [Runs -> RunState]
         /\ \A s \in Runs : SameKin(s) /\ SameText(s) /\ SameBlobs(s) /\ run'[s].aside = run[s].aside
         /\ \A s \in Runs \ {r} : run'[s].snapshots = run[s].snapshots
         /\ run'[r].snapshots = "none"
<1>1. run[r] \in RunState
  OBVIOUS
<1>2. d \in RunState
  BY <1>1 DEF RunState, Remade
<1>3. /\ d.snapshots = "none"
      /\ d.life = run[r].life \/ (run[r].life = "removed" /\ d.life = "ruin")
      /\ (run[r].manifest => d.manifest) /\ (run[r].legible => d.legible)
      /\ d.parent = run[r].parent /\ d.named = run[r].named /\ d.fork = run[r].fork
      /\ d.tree = run[r].tree
      /\ d.words = run[r].words
      /\ d.lines = run[r].lines
      /\ d.sum = run[r].sum
      /\ d.blobs = run[r].blobs
      /\ d.partial = run[r].partial
      /\ d.aside = run[r].aside
  BY <1>1 DEF RunState, Remade
<1>4. run' \in [Runs -> RunState] /\ run'[r] = d /\ \A s \in Runs \ {r} : run'[s] = run[s]
  BY ONLY run \in [Runs -> RunState], r \in Runs, run' = [run EXCEPT ![r] = d], <1>2, Replaced
<1> QED
  BY ONLY <1>3, <1>4 DEF SameKin, SameText, SameBlobs, SameBeside

\* A worktree is removed.
LEMMA TreeEdit ==
  ASSUME run \in [Runs -> RunState], NEW r \in Runs, NEW d, d = [run[r] EXCEPT !.tree = "none"],
         run' = [run EXCEPT ![r] = d]
  PROVE  /\ run' \in [Runs -> RunState]
         /\ \A s \in Runs : /\ SameText(s) /\ SameBlobs(s) /\ SameBeside(s)
                            /\ run'[s].manifest = run[s].manifest /\ run'[s].legible = run[s].legible
                            /\ run'[s].parent = run[s].parent /\ run'[s].named = run[s].named
                            /\ run'[s].fork = run[s].fork /\ run'[s].life = run[s].life
         /\ \A s \in Runs \ {r} : run'[s].tree = run[s].tree
         /\ run'[r].tree = "none"
<1>1. run[r] \in RunState
  OBVIOUS
<1>2. d \in RunState
  BY <1>1 DEF RunState
<1>3. /\ d.tree = "none"
      /\ d.manifest = run[r].manifest
      /\ d.legible = run[r].legible
      /\ d.parent = run[r].parent
      /\ d.named = run[r].named
      /\ d.fork = run[r].fork
      /\ d.words = run[r].words
      /\ d.lines = run[r].lines
      /\ d.sum = run[r].sum
      /\ d.blobs = run[r].blobs
      /\ d.partial = run[r].partial
      /\ d.aside = run[r].aside
      /\ d.snapshots = run[r].snapshots
      /\ d.life = run[r].life
  BY <1>1 DEF RunState
<1>4. run' \in [Runs -> RunState] /\ run'[r] = d /\ \A s \in Runs \ {r} : run'[s] = run[s]
  BY ONLY run \in [Runs -> RunState], r \in Runs, run' = [run EXCEPT ![r] = d], <1>2, Replaced
<1> QED
  BY ONLY <1>3, <1>4 DEF SameText, SameBlobs, SameBeside

\* An empty directory is removed.
LEMMA RemovedEdit ==
  ASSUME run \in [Runs -> RunState], NEW r \in Runs, NEW d, d = [run[r] EXCEPT !.life = "removed"],
         run' = [run EXCEPT ![r] = d]
  PROVE  /\ run' \in [Runs -> RunState]
         /\ \A s \in Runs : /\ SameText(s) /\ SameBlobs(s) /\ SameBeside(s)
                            /\ run'[s].manifest = run[s].manifest /\ run'[s].legible = run[s].legible
                            /\ run'[s].parent = run[s].parent /\ run'[s].named = run[s].named
                            /\ run'[s].fork = run[s].fork /\ run'[s].tree = run[s].tree
         /\ \A s \in Runs \ {r} : run'[s].life = run[s].life
         /\ run'[r].life = "removed"
<1>1. run[r] \in RunState
  OBVIOUS
<1>2. d \in RunState
  BY <1>1 DEF RunState
<1>3. /\ d.life = "removed"
      /\ d.manifest = run[r].manifest
      /\ d.legible = run[r].legible
      /\ d.parent = run[r].parent
      /\ d.named = run[r].named
      /\ d.fork = run[r].fork
      /\ d.words = run[r].words
      /\ d.lines = run[r].lines
      /\ d.sum = run[r].sum
      /\ d.blobs = run[r].blobs
      /\ d.partial = run[r].partial
      /\ d.aside = run[r].aside
      /\ d.snapshots = run[r].snapshots
      /\ d.tree = run[r].tree
  BY <1>1 DEF RunState
<1>4. run' \in [Runs -> RunState] /\ run'[r] = d /\ \A s \in Runs \ {r} : run'[s] = run[s]
  BY ONLY run \in [Runs -> RunState], r \in Runs, run' = [run EXCEPT ![r] = d], <1>2, Replaced
<1> QED
  BY ONLY <1>3, <1>4 DEF SameText, SameBlobs, SameBeside

\* One more file of a directory is gone.
LEMMA TornRecord ==
  ASSUME NEW e \in RunState, NEW d \in Torn(e)
  PROVE  /\ d \in RunState /\ d.life = "ruin"
         /\ d.parent = e.parent /\ d.named = e.named /\ d.fork = e.fork /\ d.tree = e.tree
         /\ d.words = e.words /\ d.sum = e.sum /\ (d.lines = e.lines \/ d.lines = << >>)
<1>1. << >> \in Seq(Line)
  OBVIOUS
<1>2. \/ \E b \in e.blobs : d = [e EXCEPT !.life = "ruin", !.blobs = e.blobs \ {b}]
      \/ \E p \in e.partial : d = [e EXCEPT !.life = "ruin", !.partial = e.partial \ {p}]
      \/ d = [e EXCEPT !.life = "ruin", !.legible = FALSE, !.lines = << >>]
      \/ d = [e EXCEPT !.life = "ruin", !.manifest = FALSE]
      \/ d = [e EXCEPT !.life = "ruin", !.aside = "clean"]
      \/ d = [e EXCEPT !.life = "ruin", !.snapshots = "none"]
  BY DEF Torn
<1>3. CASE \E b \in e.blobs : d = [e EXCEPT !.life = "ruin", !.blobs = e.blobs \ {b}]
  <2>1. PICK b \in e.blobs : d = [e EXCEPT !.life = "ruin", !.blobs = e.blobs \ {b}]
    BY <1>3
  <2> QED
    BY <2>1 DEF RunState
<1>4. CASE \E p \in e.partial : d = [e EXCEPT !.life = "ruin", !.partial = e.partial \ {p}]
  <2>1. PICK p \in e.partial : d = [e EXCEPT !.life = "ruin", !.partial = e.partial \ {p}]
    BY <1>4
  <2> QED
    BY <2>1 DEF RunState
<1>5. CASE d = [e EXCEPT !.life = "ruin", !.legible = FALSE, !.lines = << >>]
  BY <1>1, <1>5 DEF RunState
<1>6. CASE d = [e EXCEPT !.life = "ruin", !.manifest = FALSE]
  BY <1>6 DEF RunState
<1>7. CASE d = [e EXCEPT !.life = "ruin", !.aside = "clean"]
  BY <1>7 DEF RunState
<1>8. CASE d = [e EXCEPT !.life = "ruin", !.snapshots = "none"]
  BY <1>8 DEF RunState
<1> QED
  BY <1>2, <1>3, <1>4, <1>5, <1>6, <1>7, <1>8

LEMMA FieldsTyped ==
  ASSUME run \in [Runs -> RunState], NEW r \in Runs
  PROVE  /\ run[r].blobs \in SUBSET Contents /\ run[r].partial \in SUBSET Contents
         /\ run[r].lines \in Seq(Line) /\ run[r].words \in Contents
         /\ run[r].sum \in Seq(Line) \union {None} /\ run[r].parent \in Runs \union {None}
<1>1. run[r] \in RunState
  OBVIOUS
<1> QED
  BY <1>1 DEF RunState

LEMMA Basics ==
  /\ Runs \subseteq Nat /\ IsFiniteSet(Runs)
  /\ None \notin Contents /\ None \notin Runs
  /\ Scrubbed \in [Contents -> Contents]
  /\ \A c \in Contents : Scrubbed[Scrubbed[c]] = Scrubbed[c]
  /\ Recordable \subseteq Line /\ MaxKills \in Nat
BY StoreAssumption

-----------------------------------------------------------------------------
(* What each step of a recording does. *)

LEMMA StartRunDoes ==
  ASSUME Types, NEW r \in Runs, NEW parent \in Runs \union {None}, StartRun(r, parent)
  PROVE  /\ Types'
         /\ rec'.run = r /\ rec'.put = None
         /\ \A s \in Runs : /\ SameText(s) /\ SameBlobs(s) /\ SameBeside(s)
                            /\ run'[s].named = run[s].named
         /\ \A s \in Runs \ {r} : run'[s] = run[s]
         /\ run'[r].life = "here" /\ run'[r].parent = parent /\ run'[r].fork = (parent # None)
         /\ run'[r].tree # "none" /\ run'[r].manifest /\ run'[r].legible
<1> DEFINE f == parent # None
           t == IF parent = None THEN "project" ELSE "scratch"
           d == [run[r] EXCEPT !.life = "here", !.manifest = TRUE, !.legible = TRUE,
                              !.parent = parent, !.fork = f, !.tree = t]
<1>1. run' = [run EXCEPT ![r] = d]
  BY DEF StartRun
<1>2. rec' = [run |-> r, put |-> None] /\ UNCHANGED <<recorded, scrub, gc, hurt, kills>>
  BY DEF StartRun
<1>3. f \in BOOLEAN /\ t \in {"project", "scratch"} /\ t # "none" /\ f = (parent # None)
  OBVIOUS
<1> HIDE DEF f, t
<1>4. run \in [Runs -> RunState] /\ run[r] \in RunState
  BY DEF Types
<1>5. d \in RunState
  BY <1>3, <1>4, BornRecord
<1>6. /\ d.life = "here" /\ d.parent = parent /\ d.fork = f /\ d.tree = t
      /\ d.manifest /\ d.legible /\ d.named = run[r].named /\ d.words = run[r].words
      /\ d.lines = run[r].lines /\ d.sum = run[r].sum /\ d.blobs = run[r].blobs
      /\ d.partial = run[r].partial /\ d.aside = run[r].aside /\ d.snapshots = run[r].snapshots
  BY <1>4 DEF RunState
<1> HIDE DEF d
<1>7. run' \in [Runs -> RunState] /\ run'[r] = d /\ \A s \in Runs \ {r} : run'[s] = run[s]
  BY <1>1, <1>4, <1>5, Replaced
<1>8. Types'
  BY ONLY Types, <1>2, <1>7, r \in Runs DEF Types
<1> QED
  BY <1>2, <1>3, <1>6, <1>7, <1>8 DEF SameKin, SameText, SameBlobs, SameBeside

LEMMA PutBlobDoes ==
  ASSUME Types, NEW c \in Contents, PutBlob(c)
  PROVE  /\ Types'
         /\ rec'.run = rec.run /\ rec'.put = c
         /\ \A s \in Runs : /\ SameKin(s) /\ SameText(s) /\ SameBeside(s)
         /\ \A s \in Runs \ {rec.run} : run'[s].blobs = run[s].blobs
         /\ run'[rec.run].blobs = run[rec.run].blobs \union {c}
<1> DEFINE r == rec.run
           B == run[r].blobs \union {c}
           d == [run[r] EXCEPT !.blobs = B, !.life = Remade(@)]
<1>1. run' = [run EXCEPT ![r] = d] /\ r # None
  BY DEF PutBlob, Recording
<1>2. rec' = [rec EXCEPT !.put = c] /\ UNCHANGED <<recorded, scrub, gc, hurt, kills>>
  BY DEF PutBlob
<1>3. run \in [Runs -> RunState] /\ r \in Runs
  BY <1>1 DEF Types
<1>4. B \in SUBSET Contents
  BY <1>3, FieldsTyped
<1>5. rec' = [run |-> r, put |-> c]
  BY <1>2 DEF Types
<1>6. B = run[rec.run].blobs \union {c}
  OBVIOUS
<1> HIDE DEF B
<1>7. /\ run' \in [Runs -> RunState]
      /\ \A s \in Runs : /\ SameKin(s) /\ SameText(s) /\ SameBeside(s)
      /\ \A s \in Runs \ {r} : run'[s].blobs = run[s].blobs
      /\ run'[r].blobs = B
  <2>1. d \in BlobEdits(run[r], B)
    BY DEF BlobEdits
  <2> HIDE DEF d, r
  <2> QED
    BY ONLY <1>1, <1>3, <1>4, <2>1, BlobsEdit
<1>8. Types'
  BY ONLY Types, <1>2, <1>5, <1>7, <1>3, c \in Contents DEF Types
<1> QED
  BY <1>5, <1>6, <1>7, <1>8

LEMMA AppendLineDoes ==
  ASSUME Types, NEW line \in Recordable, AppendLine(line)
  PROVE  /\ Types'
         /\ rec'.run = rec.run /\ rec'.put = None
         /\ \A s \in Runs : /\ SameKin(s) /\ SameBlobs(s) /\ SameBeside(s)
                            /\ run'[s].words = run[s].words /\ run'[s].sum = run[s].sum
                            /\ run'[s].life = run[s].life
         /\ \A s \in Runs \ {rec.run} : run'[s].lines = run[s].lines
                                        /\ recorded'[s] = recorded[s]
         /\ run'[rec.run].lines = IF run[rec.run].legible THEN Append(run[rec.run].lines, line)
                                  ELSE run[rec.run].lines
         /\ recorded'[rec.run] = Append(recorded[rec.run], line)
<1> DEFINE r == rec.run
           n == Append(run[r].lines, line)
           m == Append(recorded[r], line)
           d == [run[r] EXCEPT !.lines = n]
<1>1. /\ r # None /\ run' = IF run[r].legible THEN [run EXCEPT ![r] = d] ELSE run
      /\ rec' = [rec EXCEPT !.put = None] /\ UNCHANGED <<scrub, gc, hurt, kills>>
      /\ recorded' = [recorded EXCEPT ![r] = m]
  BY DEF AppendLine, Recording
<1>2. run \in [Runs -> RunState] /\ r \in Runs /\ line \in Line
      /\ recorded \in [Runs -> Seq(Line)]
  BY <1>1, Basics DEF Types
<1>3. n \in Seq(Line) /\ m \in Seq(Line)
  <2>1. run[r].lines \in Seq(Line) /\ recorded[r] \in Seq(Line)
    BY <1>2, FieldsTyped
  <2> QED
    BY <2>1, <1>2
<1>4. rec' = [run |-> r, put |-> None]
  BY <1>1 DEF Types
<1>5. n = Append(run[rec.run].lines, line) /\ m = Append(recorded[rec.run], line) /\ r = rec.run
  OBVIOUS
<1>6. d \in LineEdits(run[r], n) /\ d.life = run[r].life
  BY <1>2 DEF RunState, LineEdits
<1> HIDE DEF n, m, d, r
<1>7. /\ run' \in [Runs -> RunState]
      /\ \A s \in Runs : /\ SameKin(s) /\ SameBlobs(s) /\ SameBeside(s)
                         /\ run'[s].words = run[s].words /\ run'[s].sum = run[s].sum
                         /\ run'[s].life = run[s].life
      /\ \A s \in Runs \ {r} : run'[s].lines = run[s].lines
      /\ run'[r].lines = IF run[r].legible THEN n ELSE run[r].lines
  <2>1. CASE run[r].legible
    <3>1. run' = [run EXCEPT ![r] = d]
      BY <1>1, <2>1
    <3>2. \A s \in Runs : run'[s].life = run[s].life
      BY ONLY <3>1, <1>2, <1>6
    <3>3. /\ run' \in [Runs -> RunState]
          /\ \A s \in Runs : /\ SameKin(s) /\ SameBlobs(s) /\ SameBeside(s)
                             /\ run'[s].words = run[s].words /\ run'[s].sum = run[s].sum
          /\ \A s \in Runs \ {r} : run'[s].lines = run[s].lines
          /\ run'[r].lines = n
      BY ONLY <3>1, <1>2, <1>3, <1>6, LinesEdit
    <3> QED
      BY ONLY <3>2, <3>3, <2>1
  <2>2. CASE ~ run[r].legible
    BY ONLY <1>1, <1>2, <2>2 DEF SameKin, SameBlobs, SameBeside
  <2> QED
    BY <2>1, <2>2
<1>8. /\ recorded' \in [Runs -> Seq(Line)] /\ recorded'[r] = m
      /\ \A s \in Runs \ {r} : recorded'[s] = recorded[s]
  BY ONLY <1>1, <1>2, <1>3
<1>9. Types'
  BY ONLY Types, <1>1, <1>4, <1>7, <1>2, <1>8 DEF Types
<1> QED
  BY <1>4, <1>5, <1>7, <1>8, <1>9

LEMMA SealRunDoes ==
  ASSUME Types, SealRun
  PROVE  /\ Types'
         /\ rec' = NoRecording
         /\ \A s \in Runs : /\ SameKin(s) /\ SameBlobs(s) /\ SameBeside(s)
                            /\ run'[s].words = run[s].words /\ run'[s].lines = run[s].lines
                            /\ run'[s].life = run[s].life
         /\ \A s \in Runs \ {rec.run} : run'[s].sum = run[s].sum
<1> DEFINE r == rec.run
           n == run[r].lines
           d == [run[r] EXCEPT !.sum = n, !.manifest = TRUE]
<1>1. run' = [run EXCEPT ![r] = d] /\ r # None
  BY DEF SealRun, Recording
<1>2. rec' = NoRecording /\ UNCHANGED <<recorded, scrub, gc, hurt, kills>>
  BY DEF SealRun
<1>3. run \in [Runs -> RunState] /\ r \in Runs
  BY <1>1 DEF Types
<1>4. n \in Seq(Line)
  BY <1>3, FieldsTyped
<1>5. d = [run[r] EXCEPT !.sum = n, !.manifest = TRUE] /\ d.life = run[r].life
  BY <1>3 DEF RunState
<1> HIDE DEF n, d
<1>6. \A s \in Runs : run'[s].life = run[s].life
  BY ONLY <1>1, <1>3, <1>5
<1>7. /\ run' \in [Runs -> RunState]
      /\ \A s \in Runs : /\ SameKin(s) /\ SameBlobs(s) /\ SameBeside(s)
                         /\ run'[s].words = run[s].words /\ run'[s].lines = run[s].lines
      /\ \A s \in Runs \ {r} : run'[s].sum = run[s].sum
  BY ONLY <1>1, <1>3, <1>4, <1>5, SumEdit
<1>8. Types'
  BY ONLY Types, <1>2, <1>7 DEF Types, NoRecording
<1> QED
  BY <1>2, <1>6, <1>7, <1>8

LEMMA RecordingDiesDoes ==
  ASSUME Types, RecordingDies
  PROVE  /\ Types'
         /\ rec' = NoRecording
         /\ \A s \in Runs : /\ SameKin(s) /\ SameText(s) /\ SameBeside(s)
                            /\ run'[s].blobs = run[s].blobs
<1> DEFINE r == rec.run
<1>1. /\ rec' = NoRecording /\ UNCHANGED <<recorded, scrub, gc, hurt>>
      /\ kills < MaxKills /\ kills' = kills + 1 /\ r # None
  BY DEF RecordingDies, Recording
<1>2. run \in [Runs -> RunState] /\ r \in Runs
  BY <1>1, Basics DEF Types
<1>3. /\ run' \in [Runs -> RunState]
      /\ \A s \in Runs : /\ SameKin(s) /\ SameText(s) /\ SameBeside(s)
                         /\ run'[s].blobs = run[s].blobs
  <2>1. CASE run' = run
    BY ONLY <1>2, <2>1 DEF SameKin, SameText, SameBeside
  <2>2. CASE run' # run
    <3>1. PICK line \in Recordable : /\ line.ref # None
            /\ run' = [run EXCEPT ![r] = [run[r] EXCEPT !.partial = @ \union {line.ref},
                                                      !.life = Remade(@)]]
      BY <2>2 DEF RecordingDies
    <3> DEFINE B == run[r].partial \union {line.ref}
               d == [run[r] EXCEPT !.partial = B, !.life = Remade(@)]
    <3>2. B \in SUBSET Contents
      BY <1>2, <3>1, FieldsTyped, Basics DEF Line
    <3>3. run' = [run EXCEPT ![r] = d] /\ d \in PartialEdits(run[r], B)
      BY <3>1 DEF PartialEdits
    <3> HIDE DEF B, d, r
    <3> QED
      BY ONLY <3>2, <3>3, <1>2, PartialEdit
  <2> QED
    BY <2>1, <2>2
<1>4. Types'
  BY ONLY Types, <1>1, <1>3, Basics DEF Types, NoRecording
<1> QED
  BY <1>1, <1>3, <1>4

LEMMA RecordingLosesRunDoes ==
  ASSUME Types, RecordingLosesRun
  PROVE  Types' /\ rec' = NoRecording /\ UNCHANGED <<run, recorded, scrub, gc, hurt, kills>>
BY DEF Types, RecordingLosesRun, NoRecording

\* A set of runs that is not empty has a newest one, by whatever dates.
LEMMA NewestIsIn ==
  ASSUME NEW S \in SUBSET Runs, S # {}, gc.date \in [Runs -> Nat]
  PROVE  Newest(S) \in S /\ \A s \in S : gc.date[s] <= gc.date[Newest(S)]
<1> DEFINE later(r) == {s \in S : gc.date[s] > gc.date[r]}
           T == {later(r) : r \in S}
<1>1. IsFiniteSet(S) /\ \A s \in S : gc.date[s] \in Nat
  BY Basics, FS_Subset
<1>2. T \subseteq SUBSET S /\ T # {}
  OBVIOUS
<1>3. PICK r \in S : \A t \in S : <<later(t), later(r)>> \notin StrictSubsetOrdering(S)
  <2>1. PICK x \in T : \A y \in T : <<y, x>> \notin StrictSubsetOrdering(S)
    <3> HIDE DEF T
    <3>1. IsWellFoundedOn(StrictSubsetOrdering(S), SUBSET S)
      BY <1>1, FS_StrictSubsetOrderingWellFounded, FS_FiniteSubsetsOfFinite
    <3> QED
      BY <1>2, <3>1, WFMin
  <2> QED
    BY <2>1
<1>4. \A t \in S : gc.date[t] <= gc.date[r]
  <2> SUFFICES ASSUME NEW t \in S, ~ (gc.date[t] <= gc.date[r]) PROVE FALSE
    OBVIOUS
  <2>0. /\ gc.date[t] > gc.date[r] /\ ~ (gc.date[t] > gc.date[t])
        /\ \A s \in S : gc.date[s] > gc.date[t] => gc.date[s] > gc.date[r]
    BY <1>1
  <2>1. /\ later(t) \subseteq later(r) /\ t \in later(r) /\ t \notin later(t)
        /\ later(t) \in SUBSET S /\ later(r) \in SUBSET S
    BY ONLY <2>0, r \in S, t \in S
  <2>2. \A x, y \in SUBSET S : x \subseteq y /\ x # y => <<x, y>> \in StrictSubsetOrdering(S)
    BY DEF StrictSubsetOrdering
  <2>3. later(t) # later(r)
    BY <2>1
  <2>4. <<later(t), later(r)>> \notin StrictSubsetOrdering(S)
    BY <1>3
  <2> HIDE DEF later
  <2> QED
    BY <2>1, <2>2, <2>3, <2>4
<1> QED
  BY <1>4 DEF Newest

-----------------------------------------------------------------------------
(* What each step of a scrub does. *)

\* What a step of a scrub leaves alone.
OthersStill == UNCHANGED <<recorded, rec, gc>>
\* The fields of a scrub that stay as they are while it reads and writes.
SameScrub == scrub'.run = scrub.run /\ scrub'.dry = scrub.dry /\ scrub'.words = scrub.words

LEMMA ScrubFields ==
  ASSUME Types
  PROVE  /\ scrub.moved \subseteq Contents /\ scrub.puts \subseteq Contents
         /\ scrub.stale \subseteq Contents /\ scrub.inPlace \subseteq Contents
         /\ scrub.lines \in Seq(Line) \union {None} /\ scrub.sum \in Seq(Line) \union {None}
         /\ scrub.warned \in BOOLEAN /\ scrub.words \in Contents \union {None}
         /\ scrub.stage \in ScrubStages
BY DEF Types, ScrubState

LEMMA NoScrubTyped == NoScrub \in ScrubState /\ NoScrub.stage = "idle"
BY DEF NoScrub, ScrubState, ScrubStages

LEMMA ToldTyped ==
  ASSUME Types, scrub.stage # "idle", NEW w \in BOOLEAN
  PROVE  /\ Told(w) \in ScrubState /\ Told(w).stage = "told" /\ Told(w).run = scrub.run
         /\ Told(w).dry = scrub.dry /\ Told(w).warned = w /\ scrub.run \in Runs
<1> DEFINE r == scrub.run
           d == scrub.dry
           e == scrub.rewrote
           i == scrub.intact
<1>1. r \in Runs /\ d \in BOOLEAN /\ e \in BOOLEAN /\ i \in BOOLEAN
  BY DEF Types, ScrubState
<1>2. Told(w) = [NoScrub EXCEPT !.stage = "told", !.run = r, !.dry = d, !.rewrote = e,
                                !.warned = w, !.intact = i]
  BY DEF Told
<1>3. r = scrub.run /\ d = scrub.dry
  OBVIOUS
<1> HIDE DEF r, d, e, i
<1>4. /\ Told(w) \in ScrubState /\ Told(w).stage = "told" /\ Told(w).run = r
      /\ Told(w).dry = d /\ Told(w).warned = w
  BY ONLY <1>1, <1>2, w \in BOOLEAN, ZenonT(60) DEF NoScrub, ScrubState, ScrubStages
<1> QED
  BY <1>1, <1>3, <1>4

LEMMA ScrubStartsDoes ==
  ASSUME Types, NEW r \in Runs, NEW dry \in BOOLEAN, NEW drop \in BOOLEAN,
         ScrubStarts(r, dry, drop)
  PROVE  /\ Types' /\ OthersStill /\ UNCHANGED <<run, hurt, kills>>
         /\ scrub'.stage = "blobs" /\ scrub'.run = r
<1> DEFINE w == run[r].words
           s == run[r].sum
           d == drop /\ run[r].snapshots # "none"
           i == Intact(r)
<1>1. /\ scrub' = [NoScrub EXCEPT !.stage = "blobs", !.run = r, !.dry = dry, !.drop = d,
                                  !.words = w, !.sum = s, !.intact = i]
      /\ UNCHANGED <<run, recorded, rec, gc, hurt, kills>>
  BY DEF ScrubStarts
<1>2. w \in Contents /\ s \in Seq(Line) \union {None}
  BY FieldsTyped DEF Types
<1>3. d \in BOOLEAN /\ i \in BOOLEAN
  BY DEF Intact
<1> HIDE DEF w, s, d, i
<1>4. scrub' \in ScrubState /\ scrub'.stage = "blobs" /\ scrub'.run = r /\ scrub'.words = w
  BY ONLY <1>1, <1>2, <1>3, r \in Runs, dry \in BOOLEAN DEF NoScrub, ScrubState, ScrubStages
<1>5. Types'
  BY ONLY Types, <1>1, <1>2, <1>4, r \in Runs DEF Types, Working, Planned
<1> QED
  BY <1>1, <1>4, <1>5 DEF OthersStill

LEMMA ScrubReadsBlobsDoes ==
  ASSUME Types, NEW unread \in SUBSET Contents, ScrubReadsBlobs(unread)
  PROVE  /\ Types' /\ OthersStill /\ SameScrub /\ UNCHANGED <<run, hurt, kills>>
         /\ scrub.run \in Runs /\ scrub.stage = "blobs" /\ scrub'.stage = "events"
         /\ scrub'.moved = Searched(scrub.run, unread)
         /\ scrub'.stale = Stale(Searched(scrub.run, unread))
         /\ scrub'.puts = {Scrubbed[b] : b \in Searched(scrub.run, unread)}
         /\ scrub'.inPlace = {p \in run[scrub.run].partial : p \notin Binary /\ Material(p)}
         /\ scrub'.warned = (unread # {})
<1> DEFINE r == scrub.run
           moved == Searched(r, unread)
           stale == Stale(moved)
           puts == {Scrubbed[b] : b \in moved}
           inPlace == {p \in run[r].partial : p \notin Binary /\ Material(p)}
           w == unread # {}
<1>1. /\ scrub' = [scrub EXCEPT !.stage = "events", !.moved = moved, !.stale = stale,
                                !.puts = puts, !.inPlace = inPlace, !.warned = w]
      /\ UNCHANGED <<run, recorded, rec, gc, hurt, kills>> /\ scrub.stage = "blobs"
  BY DEF ScrubReadsBlobs
<1>2. r \in Runs /\ run \in [Runs -> RunState] /\ scrub \in ScrubState
  BY <1>1 DEF Types
<1>3. moved \subseteq Contents /\ inPlace \subseteq Contents
  BY <1>2, FieldsTyped DEF Searched
<1>4. stale \subseteq Contents /\ puts \subseteq Contents /\ w \in BOOLEAN
  BY <1>3, Basics DEF Stale
<1>5. /\ moved = Searched(scrub.run, unread) /\ stale = Stale(Searched(scrub.run, unread))
      /\ puts = {Scrubbed[b] : b \in Searched(scrub.run, unread)} /\ w = (unread # {})
      /\ inPlace = {p \in run[scrub.run].partial : p \notin Binary /\ Material(p)}
  OBVIOUS
<1> HIDE DEF moved, stale, puts, inPlace, w
<1>6. /\ scrub' \in ScrubState /\ scrub'.stage = "events" /\ SameScrub
      /\ scrub'.moved = moved /\ scrub'.stale = stale /\ scrub'.puts = puts
      /\ scrub'.inPlace = inPlace /\ scrub'.warned = w
  BY ONLY <1>1, <1>2, <1>3, <1>4, ZenonT(60) DEF ScrubState, ScrubStages, SameScrub
<1>7. Types'
  BY ONLY Types, <1>1, <1>2, <1>3, <1>6 DEF Types, SameScrub, Working, Planned
<1> QED
  BY <1>1, <1>2, <1>5, <1>6, <1>7 DEF OthersStill

LEMMA RetargetTyped ==
  ASSUME Types, NEW line \in Line
  PROVE  Retarget(line) \in Line
BY ScrubFields, Basics DEF Retarget, Kept, Line

LEMMA ScrubReadsEventsDoes ==
  ASSUME Types, ScrubReadsEvents
  PROVE  /\ Types' /\ OthersStill /\ SameScrub /\ UNCHANGED <<run, hurt, kills>>
         /\ scrub.run \in Runs /\ scrub.stage = "events" /\ scrub'.stage = "aside"
         /\ scrub'.moved = scrub.moved /\ scrub'.puts = scrub.puts /\ scrub'.stale = scrub.stale
         /\ scrub'.inPlace = scrub.inPlace
         /\ scrub'.lines =
              [i \in DOMAIN run[scrub.run].lines |-> Retarget(run[scrub.run].lines[i])]
         /\ scrub'.rewrote = (scrub'.lines # run[scrub.run].lines)
         /\ ~ scrub'.warned =>
              ~ scrub.warned /\ \A i \in DOMAIN run[scrub.run].lines :
                                  run[scrub.run].lines[i].text \notin Fragile
<1> DEFINE r == scrub.run
           lines == run[r].lines
           next == [i \in DOMAIN lines |-> Retarget(lines[i])]
           c == next # lines
           w == scrub.warned \/ \E i \in DOMAIN lines : lines[i].text \in Fragile
<1>1. /\ scrub' = [scrub EXCEPT !.stage = "aside", !.lines = next, !.rewrote = c, !.warned = w]
      /\ UNCHANGED <<run, recorded, rec, gc, hurt, kills>> /\ scrub.stage = "events"
  BY DEF ScrubReadsEvents
<1>2. r \in Runs /\ run \in [Runs -> RunState] /\ scrub \in ScrubState
  BY <1>1 DEF Types
<1>3. next \in Seq(Line)
  <2>1. lines \in Seq(Line)
    BY <1>2, FieldsTyped
  <2>2. \A i \in 1..Len(lines) : lines[i] \in Line
    BY <2>1
  <2>3. \A i \in 1..Len(lines) : Retarget(lines[i]) \in Line
    BY <2>2, RetargetTyped
  <2>4. DOMAIN lines = 1..Len(lines) /\ Len(lines) \in Nat
    BY <2>1
  <2> HIDE DEF lines
  <2>5. next = [i \in 1..Len(lines) |-> Retarget(lines[i])]
    BY <2>4
  <2> QED
    BY <2>3, <2>4, <2>5
<1>4. c \in BOOLEAN /\ w \in BOOLEAN
  BY ScrubFields
<1>5. /\ next = [i \in DOMAIN run[scrub.run].lines |-> Retarget(run[scrub.run].lines[i])]
      /\ c = (next # run[scrub.run].lines)
      /\ ~ w => ~ scrub.warned /\ \A i \in DOMAIN run[scrub.run].lines :
                                    run[scrub.run].lines[i].text \notin Fragile
  OBVIOUS
<1> HIDE DEF next, c, w
<1>6. /\ scrub' \in ScrubState /\ scrub'.stage = "aside" /\ SameScrub
      /\ scrub'.moved = scrub.moved /\ scrub'.puts = scrub.puts /\ scrub'.stale = scrub.stale
      /\ scrub'.inPlace = scrub.inPlace /\ scrub'.lines = next /\ scrub'.rewrote = c
      /\ scrub'.warned = w
  BY ONLY <1>1, <1>2, <1>3, <1>4, ZenonT(60) DEF ScrubState, ScrubStages, SameScrub
<1>7. Types'
  BY ONLY Types, <1>1, <1>2, <1>3, <1>6 DEF Types, SameScrub, Working, Planned
<1> QED
  BY <1>1, <1>2, <1>5, <1>6, <1>7, SMTT(60) DEF OthersStill

LEMMA ScrubLooksAsideDoes ==
  ASSUME Types, ScrubLooksAside
  PROVE  /\ Types' /\ OthersStill /\ UNCHANGED <<hurt, kills>>
         /\ scrub.run \in Runs /\ scrub.stage = "aside"
         /\ \A s \in Runs : /\ SameKin(s) /\ SameText(s) /\ SameBlobs(s)
                            /\ run'[s].aside = run[s].aside
         /\ scrub'.run = scrub.run /\ scrub'.dry = scrub.dry
         /\ scrub.dry => scrub'.stage = "told"
         /\ ~ scrub.dry =>
              /\ scrub'.stage = "commit" /\ scrub'.moved = {} /\ scrub'.puts = scrub.puts
              /\ scrub'.stale = scrub.stale /\ scrub'.inPlace = scrub.inPlace
              /\ scrub'.lines = scrub.lines /\ scrub'.rewrote = scrub.rewrote
              /\ scrub'.words = scrub.words
              /\ ~ scrub'.warned => /\ ~ scrub.warned /\ ~ AsideSuspect(scrub.run)
                                    /\ ~ SnapshotsSuspect(run'[scrub.run].snapshots)
<1> DEFINE r == scrub.run
           w == scrub.warned \/ AsideSuspect(r) \/ SnapshotsSuspect(run'[r].snapshots)
<1>1. /\ run' = IF scrub.drop /\ ~ scrub.dry THEN [run EXCEPT ![r].snapshots = "none"] ELSE run
      /\ UNCHANGED <<recorded, rec, gc, hurt, kills>> /\ scrub.stage = "aside"
      /\ scrub' = IF scrub.dry THEN Told(w)
                  ELSE [scrub EXCEPT !.stage = "commit", !.warned = w, !.moved = {}]
  BY DEF ScrubLooksAside
<1>2. r \in Runs /\ run \in [Runs -> RunState] /\ scrub \in ScrubState
  BY <1>1 DEF Types
<1>3. w \in BOOLEAN
  BY ScrubFields DEF AsideSuspect, SnapshotsSuspect
<1>4. ~ w => /\ ~ scrub.warned /\ ~ AsideSuspect(scrub.run)
             /\ ~ SnapshotsSuspect(run'[scrub.run].snapshots)
  OBVIOUS
<1> HIDE DEF w
<1>5. /\ run' \in [Runs -> RunState]
      /\ \A s \in Runs : /\ SameKin(s) /\ SameText(s) /\ SameBlobs(s)
                         /\ run'[s].aside = run[s].aside
  <2>1. CASE scrub.drop /\ ~ scrub.dry
    <3> DEFINE d == [run[r] EXCEPT !.snapshots = "none"]
    <3>1. run' = [run EXCEPT ![r] = d] /\ d = [run[r] EXCEPT !.snapshots = "none"]
      BY <1>1, <2>1
    <3> HIDE DEF d
    <3> QED
      BY ONLY <1>2, <3>1, SnapshotsEdit
  <2>2. CASE ~ (scrub.drop /\ ~ scrub.dry)
    BY ONLY <1>1, <1>2, <2>2 DEF SameKin, SameText, SameBlobs
  <2> QED
    BY <2>1, <2>2
<1>6. /\ scrub' \in ScrubState /\ scrub'.run = scrub.run /\ scrub'.dry = scrub.dry
      /\ scrub.dry => scrub'.stage = "told"
      /\ ~ scrub.dry =>
           /\ scrub'.stage = "commit" /\ scrub'.moved = {} /\ scrub'.puts = scrub.puts
           /\ scrub'.stale = scrub.stale /\ scrub'.inPlace = scrub.inPlace
           /\ scrub'.lines = scrub.lines /\ scrub'.rewrote = scrub.rewrote
           /\ scrub'.words = scrub.words /\ scrub'.warned = w
  <2>1. CASE scrub.dry
    BY ONLY <1>1, <1>3, <2>1, Types, ToldTyped
  <2>2. CASE ~ scrub.dry
    <3>1. scrub' = [scrub EXCEPT !.stage = "commit", !.warned = w, !.moved = {}]
      BY <1>1, <2>2
    <3> QED
      BY ONLY <3>1, <1>2, <1>3, <2>2 DEF ScrubState, ScrubStages
  <2> QED
    BY <2>1, <2>2
<1>7. Types'
  BY ONLY Types, <1>1, <1>2, <1>5, <1>6 DEF Types, Working, Planned
<1> QED
  BY <1>1, <1>2, <1>4, <1>5, <1>6, <1>7 DEF OthersStill

LEMMA CommitBlobDoes ==
  ASSUME Types, NEW b \in Contents, CommitBlob(b)
  PROVE  /\ Types' /\ OthersStill /\ SameScrub /\ UNCHANGED <<hurt, kills>>
         /\ scrub.run \in Runs /\ scrub.stage = "commit" /\ scrub'.stage = "commit"
         /\ \A s \in Runs : SameKin(s) /\ SameText(s) /\ SameBeside(s)
                            /\ run'[s].partial = run[s].partial
         /\ \A s \in Runs \ {scrub.run} : run'[s].blobs = run[s].blobs
         /\ run'[scrub.run].blobs = run[scrub.run].blobs \union {b}
         /\ b \in scrub.puts /\ scrub'.puts = scrub.puts \ {b}
         /\ scrub'.stale = scrub.stale /\ scrub'.inPlace = scrub.inPlace
         /\ scrub'.lines = scrub.lines /\ scrub'.rewrote = scrub.rewrote
         /\ scrub'.warned = scrub.warned
<1> DEFINE r == scrub.run
           B == run[r].blobs \union {b}
           p == scrub.puts \ {b}
           d == [run[r] EXCEPT !.blobs = B, !.life = Remade(@)]
<1>1. run' = [run EXCEPT ![r] = d]
  BY DEF CommitBlob
<1>2. /\ scrub' = [scrub EXCEPT !.puts = p] /\ UNCHANGED <<recorded, rec, gc, hurt, kills>>
      /\ scrub.stage = "commit" /\ b \in scrub.puts
  BY DEF CommitBlob
<1>3. run \in [Runs -> RunState] /\ r \in Runs /\ scrub \in ScrubState
  BY <1>2 DEF Types
<1>4. B \in SUBSET Contents /\ p \in SUBSET Contents
  BY <1>3, FieldsTyped, ScrubFields
<1>5. B = run[r].blobs \union {b} /\ p = scrub.puts \ {b}
  OBVIOUS
<1> HIDE DEF B, p
<1>6. /\ run' \in [Runs -> RunState]
      /\ \A s \in Runs : SameKin(s) /\ SameText(s) /\ SameBeside(s)
                         /\ run'[s].partial = run[s].partial
      /\ \A s \in Runs \ {r} : run'[s].blobs = run[s].blobs
      /\ run'[r].blobs = B
  <2>1. d \in BlobEdits(run[r], B)
    BY DEF BlobEdits
  <2> HIDE DEF d, r
  <2> QED
    BY ONLY <1>1, <1>3, <1>4, <2>1, BlobsEdit
<1>7. /\ scrub' \in ScrubState /\ SameScrub /\ scrub'.stage = scrub.stage /\ scrub'.puts = p
      /\ scrub'.stale = scrub.stale /\ scrub'.inPlace = scrub.inPlace
      /\ scrub'.lines = scrub.lines /\ scrub'.rewrote = scrub.rewrote
      /\ scrub'.warned = scrub.warned
  BY ONLY <1>2, <1>3, <1>4 DEF ScrubState, ScrubStages, SameScrub
<1>8. Types'
  BY ONLY Types, <1>2, <1>3, <1>6, <1>7 DEF Types, SameScrub, Working, Planned
<1> QED
  BY <1>2, <1>3, <1>5, <1>6, <1>7, <1>8 DEF OthersStill

LEMMA CommitInPlaceDoes ==
  ASSUME Types, NEW p \in Contents, CommitInPlace(p)
  PROVE  /\ Types' /\ OthersStill /\ SameScrub /\ UNCHANGED <<hurt, kills>>
         /\ scrub.run \in Runs /\ scrub.stage = "commit" /\ scrub'.stage = "commit"
         /\ \A s \in Runs : SameKin(s) /\ SameText(s) /\ SameBeside(s)
                            /\ run'[s].blobs = run[s].blobs
         /\ run'[scrub.run].partial = (run[scrub.run].partial \ {p}) \union {Scrubbed[p]}
         /\ scrub'.inPlace = scrub.inPlace \ {p}
         /\ scrub'.puts = scrub.puts /\ scrub'.stale = scrub.stale
         /\ scrub'.lines = scrub.lines /\ scrub'.rewrote = scrub.rewrote
         /\ scrub'.warned = scrub.warned
<1> DEFINE r == scrub.run
           B == (run[r].partial \ {p}) \union {Scrubbed[p]}
           q == scrub.inPlace \ {p}
           d == [run[r] EXCEPT !.partial = B, !.life = Remade(@)]
<1>1. run' = [run EXCEPT ![r] = d]
  BY DEF CommitInPlace
<1>2. /\ scrub' = [scrub EXCEPT !.inPlace = q] /\ UNCHANGED <<recorded, rec, gc, hurt, kills>>
      /\ scrub.stage = "commit"
  BY DEF CommitInPlace
<1>3. run \in [Runs -> RunState] /\ r \in Runs /\ scrub \in ScrubState
  BY <1>2 DEF Types
<1>4. B \in SUBSET Contents /\ q \in SUBSET Contents
  BY <1>3, FieldsTyped, ScrubFields, Basics
<1>5. B = (run[r].partial \ {p}) \union {Scrubbed[p]} /\ q = scrub.inPlace \ {p}
  OBVIOUS
<1> HIDE DEF B, q
<1>6. /\ run' \in [Runs -> RunState]
      /\ \A s \in Runs : SameKin(s) /\ SameText(s) /\ SameBeside(s)
                         /\ run'[s].blobs = run[s].blobs
      /\ run'[r].partial = B
  <2>1. d \in PartialEdits(run[r], B)
    BY DEF PartialEdits
  <2> HIDE DEF d, r
  <2> QED
    BY ONLY <1>1, <1>3, <1>4, <2>1, PartialEdit
<1>7. /\ scrub' \in ScrubState /\ SameScrub /\ scrub'.stage = scrub.stage /\ scrub'.inPlace = q
      /\ scrub'.stale = scrub.stale /\ scrub'.puts = scrub.puts
      /\ scrub'.lines = scrub.lines /\ scrub'.rewrote = scrub.rewrote
      /\ scrub'.warned = scrub.warned
  BY ONLY <1>2, <1>3, <1>4 DEF ScrubState, ScrubStages, SameScrub
<1>8. Types'
  BY ONLY Types, <1>2, <1>3, <1>6, <1>7 DEF Types, SameScrub, Working, Planned
<1> QED
  BY <1>2, <1>3, <1>5, <1>6, <1>7, <1>8 DEF OthersStill

LEMMA CommitEventsDoes ==
  ASSUME Types, CommitEvents
  PROVE  /\ Types' /\ OthersStill /\ SameScrub /\ UNCHANGED <<hurt, kills>>
         /\ scrub.run \in Runs /\ scrub.stage = "commit" /\ scrub'.stage = "manifest"
         /\ scrub.puts = {} /\ scrub.inPlace = {}
         /\ \A s \in Runs : /\ SameKin(s) /\ SameBlobs(s) /\ SameBeside(s)
                            /\ run'[s].words = run[s].words /\ run'[s].sum = run[s].sum
         /\ \A s \in Runs \ {scrub.run} : run'[s].lines = run[s].lines
         /\ run'[scrub.run].lines = IF scrub.rewrote THEN scrub.lines ELSE run[scrub.run].lines
         /\ scrub'.puts = {} /\ scrub'.inPlace = {} /\ scrub'.stale = scrub.stale
         /\ scrub'.lines = scrub.lines /\ scrub'.rewrote = scrub.rewrote
         /\ scrub'.warned = scrub.warned
<1> DEFINE r == scrub.run
           n == scrub.lines
           d == [run[r] EXCEPT !.lines = n, !.legible = TRUE, !.life = Remade(@)]
<1>1. run' = IF scrub.rewrote THEN [run EXCEPT ![r] = d] ELSE run
  BY DEF CommitEvents
<1>2. /\ scrub' = [scrub EXCEPT !.stage = "manifest"]
         /\ UNCHANGED <<recorded, rec, gc, hurt, kills>>
      /\ scrub.stage = "commit" /\ scrub.puts = {} /\ scrub.inPlace = {}
  BY DEF CommitEvents, BlobsLanded
<1>3. run \in [Runs -> RunState] /\ r \in Runs /\ scrub \in ScrubState
  BY <1>2 DEF Types
<1>4. n \in Seq(Line)
  BY <1>2 DEF Types, Planned
<1>5. /\ run' \in [Runs -> RunState]
      /\ \A s \in Runs : /\ SameKin(s) /\ SameBlobs(s) /\ SameBeside(s)
                         /\ run'[s].words = run[s].words /\ run'[s].sum = run[s].sum
      /\ \A s \in Runs \ {r} : run'[s].lines = run[s].lines
      /\ run'[r].lines = IF scrub.rewrote THEN n ELSE run[r].lines
  <2>3. d \in LineEdits(run[r], n)
    BY DEF LineEdits
  <2> HIDE DEF n, d, r
  <2>1. CASE scrub.rewrote
    <3>1. run' = [run EXCEPT ![r] = d]
      BY <1>1, <2>1
    <3>2. /\ run' \in [Runs -> RunState]
          /\ \A s \in Runs : /\ SameKin(s) /\ SameBlobs(s) /\ SameBeside(s)
                             /\ run'[s].words = run[s].words /\ run'[s].sum = run[s].sum
          /\ \A s \in Runs \ {r} : run'[s].lines = run[s].lines
          /\ run'[r].lines = n
      BY ONLY <3>1, <1>3, <1>4, <2>3, LinesEdit
    <3> QED
      BY ONLY <3>2, <2>1
  <2>2. CASE ~ scrub.rewrote
    BY ONLY <1>1, <1>3, <2>2 DEF SameKin, SameBlobs, SameBeside
  <2> QED
    BY <2>1, <2>2
<1>6. /\ scrub' \in ScrubState /\ SameScrub /\ scrub'.stage = "manifest"
      /\ scrub'.puts = scrub.puts /\ scrub'.inPlace = scrub.inPlace
      /\ scrub'.stale = scrub.stale /\ scrub'.lines = scrub.lines
      /\ scrub'.rewrote = scrub.rewrote /\ scrub'.warned = scrub.warned
  BY ONLY <1>2, <1>3 DEF ScrubState, ScrubStages, SameScrub
<1>7. Types'
  BY ONLY Types, <1>2, <1>3, <1>5, <1>6 DEF Types, SameScrub, Working, Planned
<1> QED
  BY <1>2, <1>3, <1>5, <1>6, <1>7 DEF OthersStill

LEMMA CommitManifestDoes ==
  ASSUME Types, CommitManifest
  PROVE  /\ Types' /\ OthersStill /\ SameScrub /\ UNCHANGED <<hurt, kills>>
         /\ scrub.run \in Runs /\ scrub.stage = "manifest" /\ scrub'.stage = "unlink"
         /\ \A s \in Runs : /\ SameKin(s) /\ SameBlobs(s) /\ SameBeside(s)
                            /\ run'[s].lines = run[s].lines
         /\ \A s \in Runs \ {scrub.run} : run'[s].words = run[s].words
                                          /\ run'[s].sum = run[s].sum
         /\ run'[scrub.run].words = Scrubbed[scrub.words] /\ scrub.words \in Contents
         /\ scrub'.puts = scrub.puts /\ scrub'.inPlace = scrub.inPlace
         /\ scrub'.stale = scrub.stale /\ scrub'.lines = scrub.lines
         /\ scrub'.rewrote = scrub.rewrote /\ scrub'.warned = scrub.warned
<1> DEFINE r == scrub.run
           w == Scrubbed[scrub.words]
           u == RefreshedSum
           written == w # scrub.words \/ u # scrub.sum
           m == run[r].manifest \/ written
           l == IF written THEN Remade(run[r].life) ELSE run[r].life
           d == [run[r] EXCEPT !.words = w, !.sum = u, !.manifest = m, !.life = l]
<1>1. run' = [run EXCEPT ![r] = d]
  BY DEF CommitManifest
<1>2. /\ scrub' = [scrub EXCEPT !.stage = "unlink"]
         /\ UNCHANGED <<recorded, rec, gc, hurt, kills>>
      /\ scrub.stage = "manifest"
  BY DEF CommitManifest
<1>3. run \in [Runs -> RunState] /\ r \in Runs /\ scrub \in ScrubState
      /\ scrub.words \in Contents
  BY <1>2 DEF Types, Working
<1>4. w \in Contents /\ u \in Seq(Line) \union {None}
  BY <1>3, Basics, ScrubFields DEF RefreshedSum
<1>5. w = Scrubbed[scrub.words] /\ r = scrub.run
  OBVIOUS
<1>9. m \in BOOLEAN /\ (run[r].manifest => m) /\ d \in ManifestEdits(run[r], w, u, m)
  <2>1. m \in BOOLEAN /\ (run[r].manifest => m)
    BY <1>3 DEF RunState
  <2>2. l \in {run[r].life, Remade(run[r].life)}
    OBVIOUS
  <2> HIDE DEF w, u, m, l
  <2>3. d \in ManifestEdits(run[r], w, u, m)
    BY <2>2 DEF ManifestEdits
  <2> QED
    BY <2>1, <2>3
<1> HIDE DEF w, u, written, m, l, d, r
<1>6. /\ run' \in [Runs -> RunState]
      /\ \A s \in Runs : /\ SameKin(s) /\ SameBlobs(s) /\ SameBeside(s)
                         /\ run'[s].lines = run[s].lines
      /\ \A s \in Runs \ {r} : run'[s].words = run[s].words /\ run'[s].sum = run[s].sum
      /\ run'[r].words = w
  BY ONLY <1>1, <1>3, <1>4, <1>9, ManifestEdit
<1>7. /\ scrub' \in ScrubState /\ SameScrub /\ scrub'.stage = "unlink"
      /\ scrub'.puts = scrub.puts /\ scrub'.inPlace = scrub.inPlace
      /\ scrub'.stale = scrub.stale /\ scrub'.lines = scrub.lines
      /\ scrub'.rewrote = scrub.rewrote /\ scrub'.warned = scrub.warned
  BY ONLY <1>2, <1>3 DEF ScrubState, ScrubStages, SameScrub
<1>8. Types'
  BY ONLY Types, <1>2, <1>3, <1>6, <1>7 DEF Types, SameScrub, Working, Planned
<1> QED
  BY <1>2, <1>3, <1>5, <1>6, <1>7, <1>8 DEF OthersStill

LEMMA UnlinkStaleDoes ==
  ASSUME Types, NEW b \in Contents, UnlinkStale(b)
  PROVE  /\ Types' /\ OthersStill /\ SameScrub /\ UNCHANGED <<hurt, kills>>
         /\ scrub.run \in Runs /\ scrub.stage = "unlink" /\ scrub'.stage = "unlink"
         /\ \A s \in Runs : SameKin(s) /\ SameText(s) /\ SameBeside(s)
                            /\ run'[s].partial = run[s].partial
         /\ \A s \in Runs \ {scrub.run} : run'[s].blobs = run[s].blobs
         /\ run'[scrub.run].blobs = run[scrub.run].blobs \ {b}
         /\ b \in scrub.stale /\ scrub'.stale = scrub.stale \ {b}
         /\ scrub'.puts = scrub.puts /\ scrub'.inPlace = scrub.inPlace
         /\ scrub'.lines = scrub.lines /\ scrub'.rewrote = scrub.rewrote
         /\ scrub'.warned = scrub.warned
<1> DEFINE r == scrub.run
           B == run[r].blobs \ {b}
           p == scrub.stale \ {b}
           d == [run[r] EXCEPT !.blobs = B]
<1>1. run' = [run EXCEPT ![r] = d]
  BY DEF UnlinkStale
<1>2. /\ scrub' = [scrub EXCEPT !.stale = p] /\ UNCHANGED <<recorded, rec, gc, hurt, kills>>
      /\ scrub.stage = "unlink" /\ b \in scrub.stale
  BY DEF UnlinkStale
<1>3. run \in [Runs -> RunState] /\ r \in Runs /\ scrub \in ScrubState
  BY <1>2 DEF Types
<1>4. B \in SUBSET Contents /\ p \in SUBSET Contents
  BY <1>3, FieldsTyped, ScrubFields
<1>5. B = run[r].blobs \ {b} /\ p = scrub.stale \ {b}
  OBVIOUS
<1> HIDE DEF B, p
<1>6. /\ run' \in [Runs -> RunState]
      /\ \A s \in Runs : SameKin(s) /\ SameText(s) /\ SameBeside(s)
                         /\ run'[s].partial = run[s].partial
      /\ \A s \in Runs \ {r} : run'[s].blobs = run[s].blobs
      /\ run'[r].blobs = B
  <2>1. d \in BlobEdits(run[r], B)
    BY DEF BlobEdits
  <2> HIDE DEF d, r
  <2> QED
    BY ONLY <1>1, <1>3, <1>4, <2>1, BlobsEdit
<1>7. /\ scrub' \in ScrubState /\ SameScrub /\ scrub'.stage = scrub.stage /\ scrub'.stale = p
      /\ scrub'.puts = scrub.puts /\ scrub'.inPlace = scrub.inPlace
      /\ scrub'.lines = scrub.lines /\ scrub'.rewrote = scrub.rewrote
      /\ scrub'.warned = scrub.warned
  BY ONLY <1>2, <1>3, <1>4 DEF ScrubState, ScrubStages, SameScrub
<1>8. Types'
  BY ONLY Types, <1>2, <1>3, <1>6, <1>7 DEF Types, SameScrub, Working, Planned
<1> QED
  BY <1>2, <1>3, <1>5, <1>6, <1>7, <1>8 DEF OthersStill

LEMMA ScrubReportsDoes ==
  ASSUME Types, ScrubReports
  PROVE  /\ Types' /\ OthersStill /\ UNCHANGED <<run, hurt, kills>>
         /\ scrub.stage = "unlink" /\ scrub.stale = {} /\ scrub'.stage = "told"
         /\ scrub'.run = scrub.run /\ scrub'.dry = scrub.dry /\ scrub'.warned = scrub.warned
<1>1. /\ scrub.stage = "unlink" /\ scrub.stale = {} /\ scrub' = Told(scrub.warned)
      /\ UNCHANGED <<run, recorded, rec, gc, hurt, kills>>
  BY DEF ScrubReports
<1>2. scrub.warned \in BOOLEAN
  BY ScrubFields
<1>3. /\ scrub' \in ScrubState /\ scrub'.stage = "told" /\ scrub'.run \in Runs
      /\ scrub'.run = scrub.run /\ scrub'.dry = scrub.dry /\ scrub'.warned = scrub.warned
  BY <1>1, <1>2, ToldTyped
<1>4. Types'
  BY ONLY Types, <1>1, <1>3 DEF Types, Working, Planned
<1> QED
  BY <1>1, <1>3, <1>4 DEF OthersStill

LEMMA ScrubEndsDoes ==
  ASSUME Types, ScrubExits \/ ScrubDies
  PROVE  Types' /\ OthersStill /\ UNCHANGED run /\ scrub' = NoScrub
<1>1. scrub' = NoScrub /\ UNCHANGED <<run, recorded, rec, gc>>
  BY DEF ScrubExits, ScrubDies
<1>2. hurt' \subseteq Runs
  BY DEF ScrubExits, ScrubDies, Types
<1>3. kills' \in 0..MaxKills
  BY Basics DEF ScrubExits, ScrubDies, Types
<1>4. Types'
  BY ONLY Types, <1>1, <1>2, <1>3, NoScrubTyped DEF Types, Working, Planned
<1> QED
  BY <1>1, <1>4 DEF OthersStill

-----------------------------------------------------------------------------
(* What each step of a gc does. *)

\* What a step of a gc leaves alone.
BesideGcStill == UNCHANGED <<recorded, rec, scrub, hurt, kills>>

LEMMA GcFields ==
  ASSUME Types
  PROVE  /\ gc.listed \in SUBSET Runs /\ gc.todo \in SUBSET Runs /\ gc.doomed \in SUBSET Runs
         /\ gc.date \in [Runs -> Nat] /\ gc.refs \in SUBSET Contents /\ gc.sealed \in BOOLEAN
         /\ gc.parent \in [Runs -> Runs \union {None}] /\ gc.tree \in [Runs -> BOOLEAN]
         /\ gc.orphans \in [Runs -> SUBSET Contents]
BY DEF Types, GcState

LEMMA NoGcTyped ==
  /\ NoGc \in GcState /\ NoGc.stage = "idle"
  /\ \A r \in Runs : ~ NoGc.tree[r] /\ NoGc.date[r] = r
BY Basics DEF NoGc, GcState, GcStages

LEMMA RefsTyped ==
  ASSUME NEW s \in Seq(Line)
  PROVE  Refs(s) \in SUBSET Contents
<1>1. \A i \in DOMAIN s : s[i] \in Line
  OBVIOUS
<1>2. \A i \in DOMAIN s : s[i].ref \in Contents \union {None}
  BY <1>1 DEF Line
<1> QED
  BY <1>2 DEF Refs

\* The run a gc is looking at is one it has still to do.
LEMMA AtIsTodo ==
  ASSUME Types, gc.todo # {}
  PROVE  At \in gc.todo /\ At \in Runs
BY GcFields, NewestIsIn DEF At

LEMMA NextIsDoomed ==
  ASSUME Types, gc.doomed # {}
  PROVE  /\ NextDoomed \in gc.doomed /\ NextDoomed \in Runs
         /\ \A r \in gc.doomed : gc.date[r] <= gc.date[NextDoomed]
BY GcFields, NewestIsIn DEF NextDoomed

LEMMA GcStartsDoes ==
  ASSUME Types, NEW floor \in {0} \union {r + 1 : r \in Runs}, GcStarts(floor)
  PROVE  /\ Types' /\ BesideGcStill /\ UNCHANGED run
         /\ gc'.stage = "manifest" /\ gc'.sealed = FALSE
         /\ gc'.listed = {r \in Runs : Stands(r)} /\ gc'.todo = {r \in Runs : Stands(r)}
         /\ \A r \in Runs : run[r].manifest \/ ~ Stands(r) => gc'.date[r] = r
         /\ \A r \in Runs : gc'.orphans[r] = {} /\ ~ gc'.tree[r]
         /\ gc'.doomed = {}
<1> DEFINE l == {r \in Runs : Stands(r)}
<1>0. PICK date \in Dates :
        gc' = [NoGc EXCEPT !.stage = "manifest", !.floor = floor, !.date = date,
                           !.listed = l, !.todo = l]
  BY DEF GcStarts
<1>1. /\ gc' = [NoGc EXCEPT !.stage = "manifest", !.floor = floor, !.date = date,
                            !.listed = l, !.todo = l]
      /\ UNCHANGED <<run, recorded, rec, scrub, hurt, kills>>
  BY <1>0 DEF GcStarts
<1>2. l \in SUBSET Runs /\ floor \in Nat
  BY Basics
<1>3. l = {r \in Runs : Stands(r)}
  OBVIOUS
<1>6. /\ date \in [Runs -> Nat]
      /\ \A r \in Runs : run[r].manifest \/ ~ Stands(r) => date[r] = r
  <2>1. \A r \in Runs : r \in Nat /\ r + 1 \in Nat
    BY Basics
  <2> QED
    BY ONLY <2>1, <1>0 DEF Dates
<1> HIDE DEF l
<1>4. /\ gc' \in GcState /\ gc'.stage = "manifest" /\ gc'.sealed = FALSE
      /\ gc'.listed = l /\ gc'.todo = l /\ gc'.doomed = {} /\ gc'.date = date
      /\ \A r \in Runs : gc'.orphans[r] = {} /\ gc'.tree[r] = FALSE
  BY ONLY <1>1, <1>2, <1>6 DEF NoGc, GcState, GcStages
<1>5. Types'
  BY ONLY Types, <1>1, <1>4 DEF Types
<1> QED
  BY <1>1, <1>3, <1>4, <1>5, <1>6 DEF BesideGcStill

LEMMA GcReadsManifestDoes ==
  ASSUME Types, GcReadsManifest
  PROVE  /\ Types' /\ BesideGcStill /\ UNCHANGED run
         /\ gc.stage = "manifest" /\ gc'.stage = "events"
         /\ At \in Runs /\ At \in gc.todo
         /\ gc'.listed = gc.listed /\ gc'.todo = gc.todo /\ gc'.orphans = gc.orphans
         /\ gc'.doomed = gc.doomed /\ gc'.date = gc.date
         /\ gc'.sealed = (run[At].manifest /\ Sealed(At))
         /\ gc'.parent[At] = (IF run[At].manifest /\ run[At].named = "manifest"
                              THEN run[At].parent ELSE None)
         /\ gc'.tree[At] = (run[At].manifest /\ Reclaimable(At))
         /\ \A r \in Runs \ {At} : gc'.parent[r] = gc.parent[r] /\ gc'.tree[r] = gc.tree[r]
<1> DEFINE a == At
           e == run[At].manifest /\ Sealed(At)
           p == IF run[At].manifest /\ run[At].named = "manifest"
                THEN run[At].parent ELSE None
           t == run[At].manifest /\ Reclaimable(At)
<1>1. /\ gc' = [gc EXCEPT !.stage = "events", !.sealed = e, !.parent[a] = p, !.tree[a] = t]
      /\ UNCHANGED <<run, recorded, rec, scrub, hurt, kills>>
      /\ gc.stage = "manifest" /\ gc.todo # {}
  BY DEF GcReadsManifest
<1>2. a \in Runs /\ a \in gc.todo
  BY <1>1, AtIsTodo
<1>3. p \in Runs \union {None}
  BY <1>2, FieldsTyped DEF Types
<1>4. e \in BOOLEAN /\ t \in BOOLEAN
  <2>1. run[At].fork \in BOOLEAN /\ run[At].manifest \in BOOLEAN
    BY <1>2 DEF Types, RunState
  <2> QED
    BY <2>1 DEF Sealed, Reclaimable, LooksScratch
<1>5. gc \in GcState
  BY DEF Types
<1>6. /\ a = At /\ e = (run[At].manifest /\ Sealed(At))
      /\ t = (run[At].manifest /\ Reclaimable(At))
      /\ p = IF run[At].manifest /\ run[At].named = "manifest" THEN run[At].parent ELSE None
  OBVIOUS
<1> HIDE DEF a, e, p, t
<1>7. /\ gc' \in GcState /\ gc'.stage = "events" /\ gc'.sealed = e
      /\ gc'.listed = gc.listed /\ gc'.todo = gc.todo /\ gc'.orphans = gc.orphans
      /\ gc'.doomed = gc.doomed /\ gc'.date = gc.date
      /\ gc'.parent = [gc.parent EXCEPT ![a] = p] /\ gc'.tree = [gc.tree EXCEPT ![a] = t]
  BY ONLY <1>1, <1>2, <1>3, <1>4, <1>5 DEF GcState, GcStages
<1>8. /\ gc'.parent[a] = p /\ gc'.tree[a] = t
      /\ \A r \in Runs \ {a} : gc'.parent[r] = gc.parent[r] /\ gc'.tree[r] = gc.tree[r]
  BY ONLY <1>2, <1>7, Types, GcFields
<1>9. Types'
  BY ONLY Types, <1>1, <1>2, <1>7 DEF Types
<1> QED
  BY <1>1, <1>2, <1>6, <1>7, <1>8, <1>9 DEF BesideGcStill

LEMMA GcReadsEventsDoes ==
  ASSUME Types, GcReadsEvents
  PROVE  /\ Types' /\ BesideGcStill /\ UNCHANGED run
         /\ gc.stage = "events" /\ gc'.stage = "blobs"
         /\ At \in Runs /\ At \in gc.todo
         /\ gc'.listed = gc.listed /\ gc'.todo = gc.todo /\ gc'.orphans = gc.orphans
         /\ gc'.doomed = gc.doomed /\ gc'.tree = gc.tree /\ gc'.date = gc.date
         /\ gc'.sealed => gc.sealed
         /\ gc'.refs = Refs(run[At].lines)
         /\ gc'.parent[At] = (IF gc.parent[At] = None /\ run[At].legible
                              THEN run[At].parent ELSE gc.parent[At])
         /\ \A r \in Runs \ {At} : gc'.parent[r] = gc.parent[r]
<1> DEFINE a == At
           e == gc.sealed /\ run[At].legible
           p == IF gc.parent[At] = None /\ run[At].legible
                THEN run[At].parent ELSE gc.parent[At]
           f == Refs(run[At].lines)
<1>1. /\ gc' = [gc EXCEPT !.stage = "blobs", !.refs = f, !.sealed = e, !.parent[a] = p]
      /\ UNCHANGED <<run, recorded, rec, scrub, hurt, kills>>
      /\ gc.stage = "events"
  BY DEF GcReadsEvents
<1>2. a \in Runs /\ a \in gc.todo
  BY <1>1, AtIsTodo DEF Types
<1>3. p \in Runs \union {None} /\ f \in SUBSET Contents
  <2>1. run[At].lines \in Seq(Line) /\ run[At].parent \in Runs \union {None}
    BY <1>2, FieldsTyped DEF Types
  <2>2. gc.parent[At] \in Runs \union {None}
    BY <1>2, GcFields
  <2> QED
    BY <2>1, <2>2, RefsTyped
<1>4. e \in BOOLEAN
  BY GcFields
<1>5. gc \in GcState
  BY DEF Types
<1>6. /\ a = At /\ (e => gc.sealed) /\ f = Refs(run[At].lines)
      /\ p = IF gc.parent[At] = None /\ run[At].legible THEN run[At].parent ELSE gc.parent[At]
  OBVIOUS
<1> HIDE DEF a, e, p, f
<1>7. /\ gc' \in GcState /\ gc'.stage = "blobs" /\ gc'.sealed = e /\ gc'.refs = f
      /\ gc'.listed = gc.listed /\ gc'.todo = gc.todo /\ gc'.orphans = gc.orphans
      /\ gc'.doomed = gc.doomed /\ gc'.tree = gc.tree /\ gc'.date = gc.date
      /\ gc'.parent = [gc.parent EXCEPT ![a] = p]
  BY ONLY <1>1, <1>2, <1>3, <1>4, <1>5 DEF GcState, GcStages
<1>8. /\ gc'.parent[a] = p
      /\ \A r \in Runs \ {a} : gc'.parent[r] = gc.parent[r]
  BY ONLY <1>2, <1>7, Types, GcFields
<1>9. Types'
  BY ONLY Types, <1>1, <1>2, <1>7 DEF Types
<1> QED
  BY <1>1, <1>2, <1>6, <1>7, <1>8, <1>9 DEF BesideGcStill

LEMMA GcListsBlobsDoes ==
  ASSUME Types, GcListsBlobs
  PROVE  /\ Types' /\ BesideGcStill /\ UNCHANGED run
         /\ gc.stage = "blobs" /\ gc'.stage = "manifest"
         /\ At \in Runs /\ At \in gc.todo
         /\ gc'.listed = gc.listed /\ gc'.todo = gc.todo \ {At} /\ gc'.doomed = gc.doomed
         /\ gc'.parent = gc.parent /\ gc'.tree = gc.tree /\ gc'.sealed = FALSE
         /\ gc'.date = gc.date
         /\ gc'.orphans[At] = Orphans
         /\ \A r \in Runs \ {At} : gc'.orphans[r] = gc.orphans[r]
<1> DEFINE a == At
           o == Orphans
           t == gc.todo \ {At}
<1>1. /\ gc' = [gc EXCEPT !.stage = "manifest", !.orphans[a] = o, !.todo = t, !.refs = {},
                          !.sealed = FALSE]
      /\ UNCHANGED <<run, recorded, rec, scrub, hurt, kills>>
      /\ gc.stage = "blobs"
  BY DEF GcListsBlobs
<1>2. a \in Runs /\ a \in gc.todo
  BY <1>1, AtIsTodo DEF Types
<1>3. o \in SUBSET Contents /\ t \in SUBSET Runs
  BY <1>2, FieldsTyped, GcFields DEF Types, Orphans
<1>5. gc \in GcState
  BY DEF Types
<1>6. a = At /\ o = Orphans /\ t = gc.todo \ {At}
  OBVIOUS
<1> HIDE DEF a, o, t
<1>7. /\ gc' \in GcState /\ gc'.stage = "manifest" /\ gc'.sealed = FALSE
      /\ gc'.listed = gc.listed /\ gc'.todo = t /\ gc'.orphans = [gc.orphans EXCEPT ![a] = o]
      /\ gc'.doomed = gc.doomed /\ gc'.tree = gc.tree /\ gc'.parent = gc.parent
      /\ gc'.date = gc.date
  BY ONLY <1>1, <1>2, <1>3, <1>5 DEF GcState, GcStages
<1>8. gc'.orphans[a] = o /\ \A r \in Runs \ {a} : gc'.orphans[r] = gc.orphans[r]
  BY ONLY <1>2, <1>7, Types, GcFields
<1>9. Types'
  BY ONLY Types, <1>1, <1>2, <1>7 DEF Types
<1> QED
  BY <1>1, <1>2, <1>6, <1>7, <1>8, <1>9 DEF BesideGcStill

\* What is left to go leaves no run that stays without its parent.
LEMMA RescueSpares ==
  ASSUME NEW doomed
  PROVE  /\ Rescue(doomed) \subseteq doomed
         /\ \A r \in gc.listed \ Rescue(doomed) : gc.parent[r] \notin Rescue(doomed)
BY DEF Rescue

LEMMA GcDecidesDoes ==
  ASSUME Types, GcDecides
  PROVE  /\ Types' /\ BesideGcStill /\ UNCHANGED run
         /\ gc.stage = "manifest" /\ gc.todo = {} /\ gc'.stage = "remove"
         /\ gc'.todo = {} /\ gc'.sealed = FALSE /\ gc'.date = gc.date
         /\ gc'.doomed \subseteq gc.listed
         /\ \A r \in gc.listed \ gc'.doomed : gc.parent[r] \notin gc'.doomed
         /\ gc'.listed = gc.listed \ gc'.doomed
         /\ \A r \in Runs : /\ gc'.tree[r] = (r \in gc'.doomed /\ gc.tree[r])
                            /\ gc'.orphans[r] = (IF r \in gc'.doomed THEN {} ELSE gc.orphans[r])
<1> DEFINE d == Rescue({r \in gc.listed : gc.date[r] < gc.floor})
           l == gc.listed \ d
           t == [r \in Runs |-> r \in d /\ gc.tree[r]]
           o == [r \in Runs |-> IF r \in d THEN {} ELSE gc.orphans[r]]
<1>1. /\ gc' = [NoGc EXCEPT !.stage = "remove", !.date = gc.date, !.doomed = d, !.listed = l,
                         !.tree = t, !.orphans = o]
      /\ UNCHANGED <<run, recorded, rec, scrub, hurt, kills>>
      /\ gc.stage = "manifest" /\ gc.todo = {}
  BY DEF GcDecides
<1>2. /\ d \subseteq gc.listed /\ d \in SUBSET Runs
      /\ \A r \in gc.listed \ d : gc.parent[r] \notin d
  <2> DEFINE e == {r \in gc.listed : gc.date[r] < gc.floor}
  <2>1. e \subseteq gc.listed /\ gc.listed \in SUBSET Runs /\ d = Rescue(e)
    BY GcFields
  <2> HIDE DEF d, e
  <2> QED
    BY <2>1, RescueSpares
<1> HIDE DEF d
<1>3. gc.date \in [Runs -> Nat] /\ l \in SUBSET Runs /\ t \in [Runs -> BOOLEAN] /\ o \in [Runs -> SUBSET Contents]
  BY GcFields
<1>4. /\ l = gc.listed \ d
      /\ \A r \in Runs : /\ t[r] = (r \in d /\ gc.tree[r])
                         /\ o[r] = (IF r \in d THEN {} ELSE gc.orphans[r])
  OBVIOUS
<1> HIDE DEF l, t, o
<1>5. /\ gc' \in GcState /\ gc'.stage = "remove" /\ gc'.sealed = FALSE /\ gc'.todo = {}
      /\ gc'.date = gc.date
      /\ gc'.listed = l /\ gc'.doomed = d /\ gc'.tree = t /\ gc'.orphans = o
  BY ONLY <1>1, <1>2, <1>3 DEF NoGc, GcState, GcStages
<1>6. Types'
  BY ONLY Types, <1>1, <1>5 DEF Types
<1> QED
  BY <1>1, <1>2, <1>4, <1>5, <1>6 DEF BesideGcStill

LEMMA GcRemovesFileDoes ==
  ASSUME Types, GcRemovesFile
  PROVE  /\ Types' /\ BesideGcStill /\ gc' = gc
         /\ gc.stage = "remove" /\ Stands(NextDoomed)
         /\ NextDoomed \in gc.doomed /\ NextDoomed \in Runs
         /\ \A r \in gc.doomed : gc.date[r] <= gc.date[NextDoomed]
         /\ \A s \in Runs \ {NextDoomed} : run'[s] = run[s]
         /\ \A s \in Runs : /\ run'[s].parent = run[s].parent /\ run'[s].named = run[s].named
                            /\ run'[s].fork = run[s].fork /\ run'[s].tree = run[s].tree
                            /\ run'[s].sum = run[s].sum
                            /\ run'[s].lines = run[s].lines \/ run'[s].lines = << >>
         /\ run'[NextDoomed].life = "ruin"
<1> DEFINE n == NextDoomed
<1>1. PICK d \in Torn(run[n]) : run' = [run EXCEPT ![n] = d]
  BY DEF GcRemovesFile
<1>2. /\ gc.stage = "remove" /\ gc.doomed # {} /\ Stands(NextDoomed)
      /\ UNCHANGED <<gc, recorded, rec, scrub, hurt, kills>>
  BY DEF GcRemovesFile
<1>3. n \in gc.doomed /\ n \in Runs /\ \A r \in gc.doomed : gc.date[r] <= gc.date[n]
  BY <1>2, NextIsDoomed
<1>4. run \in [Runs -> RunState] /\ run[n] \in RunState
  BY <1>3 DEF Types
<1>5. /\ d \in RunState /\ d.life = "ruin"
      /\ d.parent = run[n].parent /\ d.named = run[n].named /\ d.fork = run[n].fork
      /\ d.tree = run[n].tree /\ d.sum = run[n].sum
      /\ (d.lines = run[n].lines \/ d.lines = << >>)
  BY <1>4, TornRecord
<1>6. run' \in [Runs -> RunState] /\ run'[n] = d /\ \A s \in Runs \ {n} : run'[s] = run[s]
  BY ONLY <1>1, <1>3, <1>4, <1>5, Replaced
<1>7. Types'
  BY ONLY Types, <1>2, <1>6 DEF Types
<1> QED
  BY <1>2, <1>3, <1>5, <1>6, <1>7 DEF BesideGcStill

LEMMA GcRemovesRunDoes ==
  ASSUME Types, GcRemovesRun
  PROVE  /\ Types' /\ BesideGcStill
         /\ gc.stage = "remove" /\ gc'.stage = "tree"
         /\ NextDoomed \in gc.doomed /\ NextDoomed \in Runs
         /\ \A r \in gc.doomed : gc.date[r] <= gc.date[NextDoomed]
         /\ \A s \in Runs : /\ SameText(s) /\ SameBlobs(s) /\ SameBeside(s)
                            /\ run'[s].manifest = run[s].manifest
                            /\ run'[s].legible = run[s].legible
                            /\ run'[s].parent = run[s].parent /\ run'[s].named = run[s].named
                            /\ run'[s].fork = run[s].fork /\ run'[s].tree = run[s].tree
         /\ \A s \in Runs \ {NextDoomed} : run'[s].life = run[s].life
         /\ run'[NextDoomed].life = "removed" /\ ~ run[NextDoomed].manifest
         /\ gc'.listed = gc.listed /\ gc'.todo = gc.todo /\ gc'.orphans = gc.orphans
         /\ gc'.doomed = gc.doomed /\ gc'.tree = gc.tree /\ gc'.sealed = gc.sealed
         /\ gc'.date = gc.date
<1> DEFINE n == NextDoomed
           d == [run[n] EXCEPT !.life = "removed"]
<1>1. /\ run' = [run EXCEPT ![n] = d] /\ ~ run[n].manifest
      /\ gc' = [gc EXCEPT !.stage = "tree"] /\ UNCHANGED <<recorded, rec, scrub, hurt, kills>>
      /\ gc.stage = "remove" /\ gc.doomed # {}
  BY DEF GcRemovesRun, Emptied
<1>2. n \in gc.doomed /\ n \in Runs /\ \A r \in gc.doomed : gc.date[r] <= gc.date[n]
  BY <1>1, NextIsDoomed
<1>3. /\ run \in [Runs -> RunState] /\ gc \in GcState /\ n = NextDoomed
      /\ d = [run[n] EXCEPT !.life = "removed"]
  BY <1>2 DEF Types
<1> HIDE DEF n, d
<1>6. /\ run' \in [Runs -> RunState]
      /\ \A s \in Runs : /\ SameText(s) /\ SameBlobs(s) /\ SameBeside(s)
                         /\ run'[s].manifest = run[s].manifest
                         /\ run'[s].legible = run[s].legible
                         /\ run'[s].parent = run[s].parent /\ run'[s].named = run[s].named
                         /\ run'[s].fork = run[s].fork /\ run'[s].tree = run[s].tree
      /\ \A s \in Runs \ {n} : run'[s].life = run[s].life
      /\ run'[n].life = "removed"
  BY ONLY <1>1, <1>2, <1>3, RemovedEdit
<1>7. /\ gc' \in GcState /\ gc'.stage = "tree" /\ gc'.sealed = gc.sealed
      /\ gc'.listed = gc.listed /\ gc'.todo = gc.todo /\ gc'.orphans = gc.orphans
      /\ gc'.doomed = gc.doomed /\ gc'.tree = gc.tree /\ gc'.date = gc.date
  BY ONLY <1>1, <1>3 DEF GcState, GcStages
<1>8. Types'
  BY ONLY Types, <1>1, <1>6, <1>7 DEF Types
<1> QED
  BY <1>1, <1>2, <1>3, <1>6, <1>7, <1>8 DEF BesideGcStill

LEMMA GcRemovesTreeDoes ==
  ASSUME Types, GcRemovesTree
  PROVE  /\ Types' /\ BesideGcStill
         /\ gc.stage = "tree" /\ gc'.stage = "remove"
         /\ NextDoomed \in gc.doomed /\ NextDoomed \in Runs
         /\ \A r \in gc.doomed : gc.date[r] <= gc.date[NextDoomed]
         /\ \A s \in Runs : /\ SameBeside(s) /\ SameBlobs(s) /\ SameText(s)
                            /\ run'[s].manifest = run[s].manifest
                            /\ run'[s].legible = run[s].legible
                            /\ run'[s].parent = run[s].parent
                            /\ run'[s].named = run[s].named /\ run'[s].fork = run[s].fork
                            /\ run'[s].life = run[s].life
         /\ \A s \in Runs \ {NextDoomed} : run'[s].tree = run[s].tree
         /\ ~ gc.tree[NextDoomed] => run'[NextDoomed].tree = run[NextDoomed].tree
         /\ gc'.listed = gc.listed /\ gc'.todo = gc.todo /\ gc'.orphans = gc.orphans
         /\ gc'.doomed = gc.doomed \ {NextDoomed} /\ gc'.tree = gc.tree
         /\ gc'.sealed = gc.sealed /\ gc'.date = gc.date
<1> DEFINE n == NextDoomed
           d == gc.doomed \ {n}
<1>1. /\ run' = IF gc.tree[n] THEN [run EXCEPT ![n].tree = "none"] ELSE run
      /\ gc' = [gc EXCEPT !.stage = "remove", !.doomed = d]
      /\ UNCHANGED <<recorded, rec, scrub, hurt, kills>>
      /\ gc.stage = "tree"
  BY DEF GcRemovesTree
<1>2. n \in gc.doomed /\ n \in Runs /\ \A r \in gc.doomed : gc.date[r] <= gc.date[n]
  BY <1>1, NextIsDoomed DEF Types
<1>3. run \in [Runs -> RunState] /\ gc \in GcState /\ d \in SUBSET Runs
  BY GcFields DEF Types
<1>4. n = NextDoomed /\ d = gc.doomed \ {NextDoomed}
  OBVIOUS
<1> HIDE DEF n, d
<1>5. /\ run' \in [Runs -> RunState]
      /\ \A s \in Runs : /\ SameBeside(s) /\ SameBlobs(s) /\ SameText(s)
                         /\ run'[s].manifest = run[s].manifest
                         /\ run'[s].legible = run[s].legible /\ run'[s].parent = run[s].parent
                         /\ run'[s].named = run[s].named /\ run'[s].fork = run[s].fork
                         /\ run'[s].life = run[s].life
      /\ \A s \in Runs \ {n} : run'[s].tree = run[s].tree
      /\ ~ gc.tree[n] => run'[n].tree = run[n].tree
  <2>1. CASE gc.tree[n]
    <3> DEFINE e == [run[n] EXCEPT !.tree = "none"]
    <3>1. run' = [run EXCEPT ![n] = e] /\ e = [run[n] EXCEPT !.tree = "none"]
      BY <1>1, <2>1
    <3> HIDE DEF e
    <3>2. /\ run' \in [Runs -> RunState]
          /\ \A s \in Runs : /\ SameBeside(s) /\ SameBlobs(s) /\ SameText(s)
                             /\ run'[s].manifest = run[s].manifest
                             /\ run'[s].legible = run[s].legible
                             /\ run'[s].parent = run[s].parent
                             /\ run'[s].named = run[s].named /\ run'[s].fork = run[s].fork
                             /\ run'[s].life = run[s].life
          /\ \A s \in Runs \ {n} : run'[s].tree = run[s].tree
      BY ONLY <3>1, <1>2, <1>3, TreeEdit
    <3> QED
      BY ONLY <3>2, <2>1
  <2>2. CASE ~ gc.tree[n]
    <3>1. run' = run
      BY <1>1, <2>2
    <3> QED
      BY ONLY <3>1, <1>3 DEF SameBeside, SameBlobs, SameText
  <2> QED
    BY <2>1, <2>2
<1>6. /\ gc' \in GcState /\ gc'.stage = "remove" /\ gc'.sealed = gc.sealed
      /\ gc'.listed = gc.listed /\ gc'.todo = gc.todo /\ gc'.orphans = gc.orphans
      /\ gc'.doomed = d /\ gc'.tree = gc.tree /\ gc'.date = gc.date
  BY ONLY <1>1, <1>3 DEF GcState, GcStages
<1>7. Types'
  BY ONLY Types, <1>1, <1>5, <1>6 DEF Types
<1> QED
  BY <1>1, <1>2, <1>4, <1>5, <1>6, <1>7 DEF BesideGcStill

LEMMA GcUnlinksDoes ==
  ASSUME Types, NEW r \in Runs, NEW b \in Contents, GcUnlinks(r, b)
  PROVE  /\ Types' /\ BesideGcStill
         /\ gc.stage = "remove" /\ gc'.stage = "remove" /\ gc.doomed = {} /\ gc'.doomed = {}
         /\ b \in gc.orphans[r]
         /\ \A s \in Runs : SameKin(s) /\ SameText(s) /\ SameBeside(s)
                            /\ run'[s].partial = run[s].partial /\ run'[s].life = run[s].life
         /\ \A s \in Runs \ {r} : run'[s].blobs = run[s].blobs /\ gc'.orphans[s] = gc.orphans[s]
         /\ run'[r].blobs = run[r].blobs \ {b} /\ gc'.orphans[r] = gc.orphans[r] \ {b}
         /\ gc'.listed = gc.listed /\ gc'.todo = gc.todo /\ gc'.tree = gc.tree
         /\ gc'.sealed = gc.sealed /\ gc'.date = gc.date
<1> DEFINE B == run[r].blobs \ {b}
           o == gc.orphans[r] \ {b}
           d == [run[r] EXCEPT !.blobs = B]
<1>1. /\ run' = [run EXCEPT ![r] = d]
      /\ gc' = [gc EXCEPT !.orphans[r] = o]
      /\ UNCHANGED <<recorded, rec, scrub, hurt, kills>>
      /\ gc.stage = "remove" /\ gc.doomed = {} /\ b \in gc.orphans[r]
  BY DEF GcUnlinks
<1>2. B \in SUBSET Contents /\ o \in SUBSET Contents
  BY FieldsTyped, GcFields DEF Types
<1>3. run \in [Runs -> RunState] /\ gc \in GcState
  BY DEF Types
<1>4. B = run[r].blobs \ {b} /\ o = gc.orphans[r] \ {b}
  OBVIOUS
<1> HIDE DEF B, o
<1>5. /\ run' \in [Runs -> RunState]
      /\ \A s \in Runs : SameKin(s) /\ SameText(s) /\ SameBeside(s)
                         /\ run'[s].partial = run[s].partial
      /\ \A s \in Runs \ {r} : run'[s].blobs = run[s].blobs
      /\ run'[r].blobs = B
  <2>1. d \in BlobEdits(run[r], B)
    BY DEF BlobEdits
  <2> HIDE DEF d
  <2> QED
    BY ONLY <1>1, <1>2, <1>3, <2>1, r \in Runs, BlobsEdit
<1>9. \A s \in Runs : run'[s].life = run[s].life
  <2>1. run[r] \in RunState
    BY <1>3
  <2>2. d.life = run[r].life
    BY <2>1 DEF RunState
  <2> HIDE DEF d
  <2> QED
    BY ONLY <1>1, <1>3, <2>2, r \in Runs
<1>6. /\ gc' \in GcState /\ gc'.stage = gc.stage /\ gc'.sealed = gc.sealed
      /\ gc'.listed = gc.listed /\ gc'.todo = gc.todo
      /\ gc'.orphans = [gc.orphans EXCEPT ![r] = o]
      /\ gc'.doomed = gc.doomed /\ gc'.tree = gc.tree /\ gc'.date = gc.date
  BY ONLY <1>1, <1>2, <1>3, r \in Runs DEF GcState, GcStages
<1>7. gc'.orphans[r] = o /\ \A s \in Runs \ {r} : gc'.orphans[s] = gc.orphans[s]
  BY ONLY <1>6, Types, GcFields, r \in Runs
<1>8. Types'
  BY ONLY Types, <1>1, <1>5, <1>6 DEF Types
<1> QED
  BY <1>1, <1>4, <1>5, <1>6, <1>7, <1>8, <1>9 DEF BesideGcStill

LEMMA GcEndsDoes ==
  ASSUME Types, GcFinishes \/ GcDies
  PROVE  /\ Types' /\ gc' = NoGc /\ gc'.stage = "idle"
         /\ UNCHANGED <<run, recorded, rec, scrub>>
<1>1. gc' = NoGc /\ UNCHANGED <<run, recorded, rec, scrub, hurt>>
  BY DEF GcFinishes, GcDies
<1>2. kills' \in 0..MaxKills
  BY Basics DEF GcFinishes, GcDies, Types
<1>3. Types'
  BY ONLY Types, <1>1, <1>2, NoGcTyped DEF Types
<1> QED
  BY <1>1, <1>3, NoGcTyped

-----------------------------------------------------------------------------
(* Types. *)

LEMMA StoreInitTypes == StoreInit => Types
<1> SUFFICES ASSUME StoreInit PROVE Types
  OBVIOUS
<1>1. run \in [Runs -> RunState]
  BY StoreAssumption DEF StoreInit
<1>2. \A r \in Runs : run[r].lines \in Seq(Line)
  BY <1>1, FieldsTyped
<1>3. recorded \in [Runs -> Seq(Line)]
  BY <1>2 DEF StoreInit
<1>4. rec \in [run : Runs \union {None}, put : Contents \union {None}]
  BY DEF StoreInit, NoRecording
<1>5. scrub = NoScrub /\ gc = NoGc /\ hurt = {} /\ kills = 0
  BY DEF StoreInit
<1> QED
  BY ONLY <1>1, <1>3, <1>4, <1>5, NoScrubTyped, NoGcTyped, Basics DEF Types, Working, Planned

LEMMA TypesStep == Types /\ [StoreNext]_storeVars => Types'
<1> SUFFICES ASSUME Types, [StoreNext]_storeVars PROVE Types'
  OBVIOUS
<1>1. ASSUME NEW r \in Runs, NEW parent \in Runs \union {None}, StartRun(r, parent) PROVE Types'
  BY <1>1, StartRunDoes
<1>2. ASSUME NEW c \in Contents, PutBlob(c) PROVE Types'
  BY <1>2, PutBlobDoes
<1>3. ASSUME NEW line \in Recordable, AppendLine(line) PROVE Types'
  BY <1>3, AppendLineDoes
<1>4. CASE SealRun
  BY <1>4, SealRunDoes
<1>5. CASE RecordingDies
  BY <1>5, RecordingDiesDoes
<1>6. CASE RecordingLosesRun
  BY <1>6, RecordingLosesRunDoes
<1>7. ASSUME NEW r \in Runs, NEW dry \in BOOLEAN, NEW drop \in BOOLEAN, ScrubStarts(r, dry,
             drop)
      PROVE  Types'
  BY <1>7, ScrubStartsDoes
<1>8. ASSUME NEW unread \in SUBSET Contents, ScrubReadsBlobs(unread) PROVE Types'
  BY <1>8, ScrubReadsBlobsDoes
<1>9. CASE ScrubReadsEvents
  BY <1>9, ScrubReadsEventsDoes
<1>10. CASE ScrubLooksAside
  BY <1>10, ScrubLooksAsideDoes
<1>11. ASSUME NEW c \in Contents, CommitBlob(c) PROVE Types'
  BY <1>11, CommitBlobDoes
<1>12. ASSUME NEW c \in Contents, CommitInPlace(c) PROVE Types'
  BY <1>12, CommitInPlaceDoes
<1>13. CASE CommitEvents
  BY <1>13, CommitEventsDoes
<1>14. CASE CommitManifest
  BY <1>14, CommitManifestDoes
<1>15. ASSUME NEW c \in Contents, UnlinkStale(c) PROVE Types'
  BY <1>15, UnlinkStaleDoes
<1>16. CASE ScrubReports
  BY <1>16, ScrubReportsDoes
<1>17. CASE ScrubExits \/ ScrubDies
  BY <1>17, ScrubEndsDoes
<1>18. ASSUME NEW floor \in {0} \union {r + 1 : r \in Runs}, GcStarts(floor) PROVE Types'
  BY <1>18, GcStartsDoes
<1>19. CASE GcReadsManifest
  BY <1>19, GcReadsManifestDoes
<1>20. CASE GcReadsEvents
  BY <1>20, GcReadsEventsDoes
<1>21. CASE GcListsBlobs
  BY <1>21, GcListsBlobsDoes
<1>22. CASE GcDecides
  BY <1>22, GcDecidesDoes
<1>23. CASE GcRemovesRun
  BY <1>23, GcRemovesRunDoes
<1>24. CASE GcRemovesTree
  BY <1>24, GcRemovesTreeDoes
<1>28. CASE GcRemovesFile
  BY <1>28, GcRemovesFileDoes
<1>25. ASSUME NEW r \in Runs, NEW c \in Contents, GcUnlinks(r, c) PROVE Types'
  BY <1>25, GcUnlinksDoes
<1>26. CASE GcFinishes \/ GcDies
  BY <1>26, GcEndsDoes
<1>27. CASE UNCHANGED storeVars
  BY ONLY <1>27, Types DEF storeVars, Types
<1> QED
  BY <1>1, <1>2, <1>3, <1>4, <1>5, <1>6, <1>7, <1>8, <1>9, <1>10, <1>11, <1>12, <1>13, <1>14,
     <1>15, <1>16, <1>17, <1>18, <1>19, <1>20, <1>21, <1>22, <1>23, <1>24, <1>25, <1>26, <1>27,
     <1>28 DEF StoreNext, RecordNext, ScrubNext, GcNext

\* Whatever is recorded, scrubbed and collected, and wherever it is killed, the
\* state keeps its types: the lines of a run are lines, what a scrub would move
\* and what a gc would delete are contents and runs there can be.
THEOREM StoreTypes == StoreSpec => []StoreTypeOK
<1>1. Types => StoreTypeOK
  BY Basics DEF Types, StoreTypeOK, ScrubState, ScrubStages, GcState, GcStages
<1> QED
  BY StoreInitTypes, TypesStep, <1>1, PTL DEF StoreSpec

-----------------------------------------------------------------------------
(* Who can be at work at once, when the operator lets no scrub and no fork *)
(* run beside a gc or a recording.                                         *)

Alone == scrub.stage # "idle" => gc.stage = "idle" /\ rec.run = None /\ Stands(scrub.run)
\* Runs are created in order; a run is sealed by its recording.
InOrder ==
  /\ \A r \in Runs : run[r].life = "unborn" =>
       /\ run[r].sum = None /\ \A s \in Runs : s > r => run[s].life = "unborn"
  /\ rec.run # None => /\ run[rec.run].sum = None /\ run[rec.run].life # "unborn"
                       /\ Here(rec.run) => run[rec.run].legible
  /\ rec.put # None => rec.run # None
\* What a gc has listed was there when it looked.
Listed == \A r \in gc.listed \union gc.todo \union gc.doomed : run[r].life # "unborn"
Order == Alone /\ InOrder /\ Listed

LEMMA StoreInitOrder == StoreInit => Order
<1> SUFFICES ASSUME StoreInit PROVE Order
  OBVIOUS
<1>1. run \in Histories /\ rec.run = None /\ rec.put = None /\ scrub.stage = "idle"
      /\ gc.listed = {} /\ gc.todo = {} /\ gc.doomed = {}
  BY DEF StoreInit, NoRecording, NoScrub, NoGc
<1> QED
  BY <1>1, HistoriesAssumption DEF Order, Alone, InOrder, Listed

\* A step that creates, seals and removes no run, and starts nothing.
OrderStill ==
  /\ \A s \in Runs : /\ run'[s].life = run[s].life
                        \/ (run[s].life = "removed" /\ run'[s].life = "ruin")
                     /\ run'[s].sum = run[s].sum /\ (run[s].legible => run'[s].legible)
  /\ rec'.run \in {rec.run, None} /\ (rec'.put # None => rec'.run # None)
  /\ scrub'.stage # "idle" => scrub.stage # "idle" /\ scrub'.run = scrub.run
  /\ gc'.stage # "idle" => gc.stage # "idle"
  /\ gc'.listed \union gc'.todo \union gc'.doomed
       \subseteq gc.listed \union gc.todo \union gc.doomed

LEMMA OrderKept ==
  ASSUME Types, Order, OrderStill
  PROVE  Order'
<1>1. gc.listed \union gc.todo \union gc.doomed \subseteq Runs
  BY GcFields
<1>2. (rec.run # None => rec.run \in Runs) /\ (scrub.stage # "idle" => scrub.run \in Runs)
  BY DEF Types
<1>3. Alone'
  BY ONLY Order, OrderStill, <1>2 DEF Order, Alone, Stands, OrderStill
<1>4. InOrder'
  BY ONLY Order, OrderStill, <1>2 DEF Order, InOrder, OrderStill, Here
<1>5. Listed'
  BY ONLY Order, OrderStill, <1>1 DEF Order, Listed, OrderStill
<1> QED
  BY ONLY <1>3, <1>4, <1>5 DEF Order

LEMMA OrderStep ==
  ASSUME ~ Overlap, Types, Order, [StoreNext]_storeVars
  PROVE  Order'
<1>1. ASSUME NEW r \in Runs, NEW parent \in Runs \union {None}, StartRun(r, parent)
      PROVE  Order'
  <2>1. /\ run[r].life = "unborn" /\ rec.run = None /\ scrub.stage = "idle"
        /\ \A s \in Runs : s < r => run[s].life # "unborn"
    BY <1>1 DEF StartRun, ScrubIdle
  <2>2. /\ rec'.run = r /\ rec'.put = None /\ scrub' = scrub /\ gc' = gc
        /\ \A s \in Runs : run'[s].sum = run[s].sum
        /\ \A s \in Runs \ {r} : run'[s].life = run[s].life
        /\ run'[r].life = "here" /\ run'[r].legible
    BY <1>1, StartRunDoes, ZenonT(60) DEF SameText, StartRun
  <2>3. Alone'
    BY ONLY <2>1, <2>2 DEF Alone
  <2>4. \A s \in Runs : run'[s].life = "unborn" =>
          /\ run'[s].sum = None /\ \A t \in Runs : t > s => run'[t].life = "unborn"
    BY ONLY <2>1, <2>2, Order, Basics, r \in Runs DEF Order, InOrder
  <2>5. InOrder'
    BY ONLY <2>1, <2>2, <2>4, Order, r \in Runs DEF Order, InOrder, Here
  <2>6. Listed'
    BY ONLY <2>2, Order, r \in Runs, Types, GcFields DEF Order, Listed
  <2> QED
    BY <2>3, <2>5, <2>6 DEF Order
<1>2. ASSUME NEW c \in Contents, PutBlob(c)
      PROVE  Order'
  <2>1. OrderStill
    BY <1>2, PutBlobDoes, Order
       DEF OrderStill, Order, InOrder, SameKin, SameText, PutBlob, Recording
  <2> QED
    BY ONLY <2>1, Types, Order, OrderKept
<1>3. ASSUME NEW line \in Recordable, AppendLine(line)
      PROVE  Order'
  <2>1. OrderStill
    BY <1>3, AppendLineDoes, Order
       DEF OrderStill, Order, InOrder, SameKin, SameText, AppendLine, Recording
  <2> QED
    BY ONLY <2>1, Types, Order, OrderKept
<1>4. CASE SealRun
  <2>1. /\ rec.run \in Runs /\ rec'.run = None /\ rec'.put = None
        /\ scrub' = scrub /\ gc' = gc
        /\ \A s \in Runs : run'[s].life = run[s].life
        /\ \A s \in Runs \ {rec.run} : run'[s].sum = run[s].sum
    BY <1>4, SealRunDoes DEF SealRun, Recording, NoRecording, Types
  <2>2. Alone'
    BY ONLY <2>1, Order, Types DEF Order, Alone, Stands, Types
  <2>5. rec.run # None /\ run[rec.run].life # "unborn"
    BY <2>1, Basics DEF Order, InOrder
  <2>3. InOrder'
    BY ONLY <2>1, <2>5, Order DEF Order, InOrder
  <2>4. Listed'
    BY ONLY <2>1, Order, Types, GcFields DEF Order, Listed
  <2> QED
    BY ONLY <2>2, <2>3, <2>4 DEF Order
<1>5. CASE RecordingDies
  <2>1. OrderStill
    BY <1>5, RecordingDiesDoes, Order
       DEF OrderStill, Order, InOrder, SameKin, SameText, RecordingDies, Recording, NoRecording
  <2> QED
    BY ONLY <2>1, Types, Order, OrderKept
<1>6. CASE RecordingLosesRun
  <2>1. OrderStill
    BY <1>6, RecordingLosesRunDoes, Order
       DEF OrderStill, Order, InOrder, SameKin, SameText, NoRecording
  <2> QED
    BY ONLY <2>1, Types, Order, OrderKept
<1>7. ASSUME NEW r \in Runs, NEW dry \in BOOLEAN, NEW drop \in BOOLEAN, ScrubStarts(r, dry,
             drop)
      PROVE  Order'
  <2>1. gc.stage = "idle" /\ rec.run = None /\ Stands(r) /\ scrub'.run = r
        /\ UNCHANGED <<run, rec, gc>>
    BY <1>7, ScrubStartsDoes DEF ScrubStarts, Undisturbed, GcIdle, OthersStill
  <2> QED
    BY ONLY <2>1, Order DEF Order, Alone, InOrder, Listed, Here, Stands
<1>8. ASSUME NEW unread \in SUBSET Contents, ScrubReadsBlobs(unread)
      PROVE  Order'
  <2>1. OrderStill
    BY <1>8, ScrubReadsBlobsDoes, Order
       DEF OrderStill, Order, InOrder, SameKin, SameText, OthersStill, SameScrub
  <2> QED
    BY ONLY <2>1, Types, Order, OrderKept
<1>9. CASE ScrubReadsEvents
  <2>1. OrderStill
    BY <1>9, ScrubReadsEventsDoes, Order
       DEF OrderStill, Order, InOrder, SameKin, SameText, OthersStill, SameScrub
  <2> QED
    BY ONLY <2>1, Types, Order, OrderKept
<1>10. CASE ScrubLooksAside
  <2>1. OrderStill
    BY <1>10, ScrubLooksAsideDoes, Order
       DEF OrderStill, Order, InOrder, SameKin, SameText, OthersStill, SameScrub
  <2> QED
    BY ONLY <2>1, Types, Order, OrderKept
<1>11. ASSUME NEW c \in Contents, CommitBlob(c)
      PROVE  Order'
  <2>1. OrderStill
    BY <1>11, CommitBlobDoes, Order
       DEF OrderStill, Order, InOrder, SameKin, SameText, OthersStill, SameScrub
  <2> QED
    BY ONLY <2>1, Types, Order, OrderKept
<1>12. ASSUME NEW c \in Contents, CommitInPlace(c)
      PROVE  Order'
  <2>1. OrderStill
    BY <1>12, CommitInPlaceDoes, Order
       DEF OrderStill, Order, InOrder, SameKin, SameText, OthersStill, SameScrub
  <2> QED
    BY ONLY <2>1, Types, Order, OrderKept
<1>13. CASE CommitEvents
  <2>1. OrderStill
    BY <1>13, CommitEventsDoes, Order
       DEF OrderStill, Order, InOrder, SameKin, SameText, OthersStill, SameScrub
  <2> QED
    BY ONLY <2>1, Types, Order, OrderKept
<1>14. CASE CommitManifest
  <2>1. /\ scrub.run \in Runs /\ scrub.stage # "idle" /\ scrub'.run = scrub.run
        /\ UNCHANGED <<rec, gc>>
        /\ \A s \in Runs : run'[s].life = run[s].life
                           \/ (run[s].life = "removed" /\ run'[s].life = "ruin")
        /\ \A s \in Runs \ {scrub.run} : run'[s].sum = run[s].sum
    BY <1>14, CommitManifestDoes DEF OthersStill, SameScrub, SameKin
  <2>2. gc.stage = "idle" /\ rec.run = None /\ Stands(scrub.run)
    BY <2>1 DEF Order, Alone
  <2>3. Alone'
    BY ONLY <2>1, <2>2 DEF Alone, Stands
  <2>4. InOrder'
    BY ONLY <2>1, <2>2, Order DEF Order, InOrder, Stands
  <2>5. Listed'
    BY ONLY <2>1, Order, Types, GcFields DEF Order, Listed
  <2> QED
    BY ONLY <2>3, <2>4, <2>5 DEF Order
<1>15. ASSUME NEW c \in Contents, UnlinkStale(c)
      PROVE  Order'
  <2>1. OrderStill
    BY <1>15, UnlinkStaleDoes, Order
       DEF OrderStill, Order, InOrder, SameKin, SameText, OthersStill, SameScrub
  <2> QED
    BY ONLY <2>1, Types, Order, OrderKept
<1>16. CASE ScrubReports
  <2>1. OrderStill
    BY <1>16, ScrubReportsDoes, Order
       DEF OrderStill, Order, InOrder, SameKin, SameText, OthersStill, SameScrub
  <2> QED
    BY ONLY <2>1, Types, Order, OrderKept
<1>17. CASE ScrubExits \/ ScrubDies
  <2>1. OrderStill
    BY <1>17, ScrubEndsDoes, Order
       DEF OrderStill, Order, InOrder, SameKin, SameText, OthersStill, SameScrub, NoScrub
  <2> QED
    BY ONLY <2>1, Types, Order, OrderKept
<1>18. ASSUME NEW floor \in {0} \union {r + 1 : r \in Runs}, GcStarts(floor)
      PROVE  Order'
  <2>1. /\ gc'.listed = {r \in Runs : Stands(r)} /\ gc'.todo = {r \in Runs : Stands(r)}
        /\ gc'.doomed = {} /\ scrub.stage = "idle" /\ UNCHANGED <<run, rec, scrub>>
    BY <1>18, GcStartsDoes DEF GcStarts, ScrubIdle, BesideGcStill
  <2> QED
    BY ONLY <2>1, Order DEF Order, Alone, InOrder, Listed, Here, Stands
<1>19. CASE GcReadsManifest
  <2>1. OrderStill
    BY <1>19, GcReadsManifestDoes, Order
       DEF OrderStill, Order, InOrder, SameKin, SameText, BesideGcStill
  <2> QED
    BY ONLY <2>1, Types, Order, OrderKept
<1>20. CASE GcReadsEvents
  <2>1. OrderStill
    BY <1>20, GcReadsEventsDoes, Order
       DEF OrderStill, Order, InOrder, SameKin, SameText, BesideGcStill
  <2> QED
    BY ONLY <2>1, Types, Order, OrderKept
<1>21. CASE GcListsBlobs
  <2>1. OrderStill
    BY <1>21, GcListsBlobsDoes, Order
       DEF OrderStill, Order, InOrder, SameKin, SameText, BesideGcStill
  <2> QED
    BY ONLY <2>1, Types, Order, OrderKept
<1>22. CASE GcDecides
  <2>1. OrderStill
    BY <1>22, GcDecidesDoes, Order
       DEF OrderStill, Order, InOrder, SameKin, SameText, BesideGcStill
  <2> QED
    BY ONLY <2>1, Types, Order, OrderKept
<1>23. CASE GcRemovesRun
  <2>1. /\ gc.stage = "remove" /\ NextDoomed \in gc.doomed /\ NextDoomed \in Runs
        /\ UNCHANGED <<rec, scrub>>
        /\ \A s \in Runs : run'[s].sum = run[s].sum /\ run'[s].legible = run[s].legible
        /\ \A s \in Runs \ {NextDoomed} : run'[s].life = run[s].life
        /\ run'[NextDoomed].life = "removed"
        /\ gc'.listed = gc.listed /\ gc'.todo = gc.todo /\ gc'.doomed = gc.doomed
    BY <1>23, GcRemovesRunDoes DEF BesideGcStill, SameText
  <2>2. run[NextDoomed].life # "unborn" /\ scrub.stage = "idle"
    BY <2>1 DEF Order, Listed, Alone
  <2>3. Alone'
    BY ONLY <2>1, <2>2 DEF Alone
  <2>4. InOrder'
    <3> DEFINE n == NextDoomed
    <3> HIDE DEF n
    <3>1. /\ n \in Runs /\ run[n].life # "unborn" /\ run'[n].life = "removed"
          /\ \A s \in Runs \ {n} : run'[s].life = run[s].life
          /\ \A s \in Runs : run'[s].sum = run[s].sum /\ run'[s].legible = run[s].legible
          /\ rec' = rec
      BY <2>1, <2>2 DEF n
    <3>2. rec.run # None => rec.run \in Runs
      BY DEF Types
    <3>3. \A s \in Runs : run'[s].life = "unborn" =>
            run'[s].sum = None /\ \A t \in Runs : t > s => run'[t].life = "unborn"
      BY ONLY <3>1, Order DEF Order, InOrder
    <3>4. rec'.run # None => /\ run'[rec'.run].sum = None /\ run'[rec'.run].life # "unborn"
                             /\ run'[rec'.run].life = "here" => run'[rec'.run].legible
      BY ONLY <3>1, <3>2, Order DEF Order, InOrder, Here
    <3> QED
      BY ONLY <3>1, <3>3, <3>4, Order DEF Order, InOrder, Here
  <2>5. Listed'
    BY ONLY <2>1, Order, Types, GcFields DEF Order, Listed
  <2> QED
    BY ONLY <2>3, <2>4, <2>5 DEF Order
<1>24. CASE GcRemovesTree
  <2>1. OrderStill
    BY <1>24, GcRemovesTreeDoes, Order
       DEF OrderStill, Order, InOrder, SameKin, SameText, BesideGcStill
  <2> QED
    BY ONLY <2>1, Types, Order, OrderKept
<1>25. ASSUME NEW r \in Runs, NEW c \in Contents, GcUnlinks(r, c)
      PROVE  Order'
  <2>1. OrderStill
    BY <1>25, GcUnlinksDoes, Order
       DEF OrderStill, Order, InOrder, SameKin, SameText, BesideGcStill
  <2> QED
    BY ONLY <2>1, Types, Order, OrderKept
<1>26. CASE GcFinishes \/ GcDies
  <2>1. OrderStill
    BY <1>26, GcEndsDoes, Order
       DEF OrderStill, Order, InOrder, SameKin, SameText, BesideGcStill, NoGc
  <2> QED
    BY ONLY <2>1, Types, Order, OrderKept
<1>27. CASE UNCHANGED storeVars
  <2>1. OrderStill
    BY <1>27, Order DEF storeVars, OrderStill, Order, InOrder
  <2> QED
    BY <2>1, OrderKept
<1>28. CASE GcRemovesFile
  <2>1. /\ gc.stage = "remove" /\ NextDoomed \in gc.doomed /\ NextDoomed \in Runs
        /\ UNCHANGED <<rec, scrub, gc>>
        /\ \A s \in Runs : run'[s].sum = run[s].sum
        /\ \A s \in Runs \ {NextDoomed} : run'[s] = run[s]
        /\ run'[NextDoomed].life = "ruin"
    BY <1>28, GcRemovesFileDoes DEF BesideGcStill
  <2>2. run[NextDoomed].life # "unborn" /\ scrub.stage = "idle"
    BY <2>1 DEF Order, Listed, Alone
  <2>3. Alone'
    BY ONLY <2>1, <2>2 DEF Alone
  <2>4. InOrder'
    BY ONLY <2>1, <2>2, Order, Types DEF Order, InOrder, Types, Here
  <2>5. Listed'
    BY ONLY <2>1, Order, Types, GcFields DEF Order, Listed
  <2> QED
    BY ONLY <2>3, <2>4, <2>5 DEF Order
<1> QED
  BY <1>1, <1>2, <1>3, <1>4, <1>5, <1>6, <1>7, <1>8, <1>9, <1>10, <1>11, <1>12, <1>13, <1>14,
     <1>15, <1>16, <1>17, <1>18, <1>19, <1>20, <1>21, <1>22, <1>23, <1>24, <1>25, <1>26, <1>27,
     <1>28 DEF StoreNext, RecordNext, ScrubNext, GcNext

-----------------------------------------------------------------------------
(* Every line resolves and reads as it was recorded.                        *)

\* lines reads as was did, up to what scrubbing takes out.
Follows(lines, was) ==
  /\ DOMAIN lines = DOMAIN was
  /\ \A i \in DOMAIN was :
       /\ Scrubbed[lines[i].text] = Scrubbed[was[i].text]
       /\ (lines[i].ref = None) <=> (was[i].ref = None)
       /\ lines[i].ref # None => Scrubbed[lines[i].ref] = Scrubbed[was[i].ref]
Resolves(lines, blobs) == \A i \in DOMAIN lines : lines[i].ref # None => lines[i].ref \in blobs

AllWhole ==
  \A r \in Runs : run[r].life \in {"unborn", "here"} =>
    Follows(run[r].lines, recorded[r]) /\ Resolves(run[r].lines, run[r].blobs)

\* A recording's blob stays until its line is written.
PutThere == rec.put # None /\ Here(rec.run) => rec.put \in run[rec.run].blobs

\* What a scrub will write into a run that is whole follows what was recorded, and
\* resolves among the blobs that will be there: those that are or will be put, less
\* those that will go.
ScrubPlan ==
  /\ scrub.stage = "events" => /\ scrub.puts = {Scrubbed[b] : b \in scrub.moved}
                               /\ scrub.stale = scrub.moved \ scrub.puts
  /\ scrub.stage \in Planned =>
       /\ Here(scrub.run) =>
            /\ Follows(scrub.lines, recorded[scrub.run])
            /\ Resolves(scrub.lines, (run[scrub.run].blobs \union scrub.puts) \ scrub.stale)
       /\ scrub.puts \intersect scrub.stale = {}
       /\ ~ scrub.rewrote => scrub.lines = run[scrub.run].lines
  /\ scrub.stage \in {"manifest", "unlink"} =>
       scrub.puts = {} /\ run[scrub.run].lines = scrub.lines

\* A gc sweeps sealed runs alone, and nothing their lines refer to.
SweepsOrphans ==
  /\ gc.stage \in {"events", "blobs"} /\ gc.sealed => Sealed(At)
  /\ gc.stage = "blobs" /\ gc.sealed => gc.refs = Refs(run[At].lines)
  /\ gc.stage # "idle" => \A r \in Runs : gc.orphans[r] # {} =>
       Sealed(r) /\ gc.orphans[r] \intersect Refs(run[r].lines) = {}

Trust == AllWhole /\ PutThere /\ ScrubPlan /\ SweepsOrphans

LEMMA ResolvesRefs ==
  ASSUME NEW lines, NEW blobs
  PROVE  Resolves(lines, blobs) <=> Refs(lines) \subseteq blobs
BY DEF Resolves, Refs

LEMMA FollowsAppend ==
  ASSUME NEW a \in Seq(Line), NEW b \in Seq(Line), NEW line \in Line, Follows(a, b)
  PROVE  Follows(Append(a, line), Append(b, line))
<1>1. Len(a) = Len(b) /\ DOMAIN a = 1..Len(a) /\ DOMAIN b = 1..Len(b)
  BY DEF Follows
<1>2. \A i \in 1..(Len(a) + 1) : /\ Append(a, line)[i] = IF i = Len(a) + 1 THEN line ELSE a[i]
                                 /\ Append(b, line)[i] = IF i = Len(a) + 1 THEN line ELSE b[i]
  BY <1>1
<1>3. DOMAIN Append(a, line) = 1..(Len(a) + 1) /\ DOMAIN Append(b, line) = 1..(Len(a) + 1)
  BY <1>1
<1>4. \A i \in 1..(Len(a) + 1) : i # Len(a) + 1 => i \in DOMAIN b
  BY <1>1
<1> QED
  BY ONLY <1>2, <1>3, <1>4, Follows(a, b) DEF Follows

LEMMA ResolvesAppend ==
  ASSUME NEW a \in Seq(Line), NEW B, NEW line \in Line, Resolves(a, B),
         line.ref # None => line.ref \in B
  PROVE  Resolves(Append(a, line), B)
<1>1. DOMAIN a = 1..Len(a) /\ DOMAIN Append(a, line) = 1..(Len(a) + 1)
  OBVIOUS
<1>2. \A i \in 1..(Len(a) + 1) : Append(a, line)[i] = IF i = Len(a) + 1 THEN line ELSE a[i]
  OBVIOUS
<1>3. \A i \in 1..(Len(a) + 1) : i # Len(a) + 1 => i \in DOMAIN a
  BY <1>1
<1> QED
  BY ONLY <1>1, <1>2, <1>3, Resolves(a, B), line.ref # None => line.ref \in B DEF Resolves

LEMMA FollowsItself ==
  ASSUME NEW lines
  PROVE  Follows(lines, lines)
BY DEF Follows

LEMMA StoreInitTrust == StoreInit => Trust
<1> SUFFICES ASSUME StoreInit PROVE Trust
  OBVIOUS
<1>1. /\ run \in Histories /\ rec.put = None /\ scrub.stage = "idle" /\ gc.stage = "idle"
      /\ \A r \in Runs : recorded[r] = run[r].lines
  BY DEF StoreInit, NoRecording, NoScrub, NoGc
<1>2. \A r \in Runs : Refs(run[r].lines) \subseteq run[r].blobs
  BY <1>1, HistoriesAssumption
<1>3. AllWhole
  BY ONLY <1>1, <1>2, ResolvesRefs, FollowsItself DEF AllWhole
<1>4. PutThere /\ ScrubPlan /\ SweepsOrphans
  BY ONLY <1>1 DEF PutThere, ScrubPlan, SweepsOrphans, Planned
<1> QED
  BY <1>3, <1>4 DEF Trust

\* The runs keep what their lines need.
WholeStill ==
  /\ \A s \in Runs : /\ run'[s].life = run[s].life \/ run'[s].life = "ruin"
                     /\ run'[s].lines = run[s].lines
                     /\ run[s].blobs \subseteq run'[s].blobs
  /\ recorded' = recorded
SweepStill ==
  /\ gc' = gc
  /\ \A s \in Runs : run'[s].sum = run[s].sum /\ run'[s].lines = run[s].lines

LEMMA WholeKept ==
  ASSUME AllWhole, WholeStill
  PROVE  AllWhole'
BY DEF AllWhole, WholeStill, Resolves

LEMMA SweepKept ==
  ASSUME Types, SweepsOrphans, SweepStill
  PROVE  SweepsOrphans'
<1>1. gc.stage \in {"events", "blobs"} => At \in Runs
  BY AtIsTodo DEF Types
<1>2. At' = At
  BY DEF SweepStill, At, Newest
<1> QED
  BY ONLY <1>1, <1>2, SweepsOrphans, SweepStill DEF SweepsOrphans, SweepStill, Sealed

\* While a scrub is at work there is neither a recording nor a gc.
LEMMA ScrubAlone ==
  ASSUME Order', scrub'.stage # "idle"
  PROVE  PutThere' /\ SweepsOrphans'
BY DEF Order, Alone, InOrder, PutThere, SweepsOrphans

LEMMA NoScrubAtWork ==
  ASSUME scrub'.stage = "idle"
  PROVE  ScrubPlan'
BY DEF ScrubPlan, Planned

LEMMA TrustStep ==
  ASSUME ~ Overlap, Types, Order, Types', Order', Trust, [StoreNext]_storeVars
  PROVE  Trust'
<1> USE DEF Trust
<1>1. ASSUME NEW r \in Runs, NEW parent \in Runs \union {None}, StartRun(r, parent)
      PROVE  Trust'
  <2>1. /\ SweepStill /\ scrub' = scrub /\ rec'.put = None /\ recorded' = recorded
        /\ \A s \in Runs : run'[s].lines = run[s].lines /\ run'[s].blobs = run[s].blobs
        /\ \A s \in Runs \ {r} : run'[s].life = run[s].life
        /\ run[r].life = "unborn" /\ scrub.stage = "idle"
    <3>1. /\ gc' = gc /\ scrub' = scrub /\ recorded' = recorded
          /\ run[r].life = "unborn" /\ scrub.stage = "idle"
      BY <1>1 DEF StartRun, ScrubIdle
    <3>2. /\ rec'.put = None
          /\ \A s \in Runs : SameText(s) /\ SameBlobs(s)
          /\ \A s \in Runs \ {r} : run'[s] = run[s]
      BY <1>1, StartRunDoes
    <3> QED
      BY ONLY <3>1, <3>2 DEF SameText, SameBlobs, SweepStill
  <2>2. AllWhole'
    BY ONLY <2>1, AllWhole, r \in Runs DEF AllWhole
  <2>3. PutThere'
    BY ONLY <2>1 DEF PutThere
  <2> QED
    BY <2>1, <2>2, <2>3, SweepKept, NoScrubAtWork
<1>2. ASSUME NEW c \in Contents, PutBlob(c)
      PROVE  Trust'
  <2>1. /\ WholeStill /\ SweepStill /\ scrub' = scrub /\ rec'.run = rec.run /\ rec'.put = c
        /\ c \in run'[rec.run].blobs /\ rec.run # None
    BY <1>2, PutBlobDoes DEF PutBlob, Recording, SameText, SameKin, SweepStill, WholeStill
  <2>2. PutThere'
    BY ONLY <2>1 DEF PutThere
  <2>3. scrub.stage = "idle"
    BY <2>1 DEF Order, Alone
  <2> QED
    BY <2>1, <2>2, <2>3, WholeKept, SweepKept, NoScrubAtWork
<1>3. ASSUME NEW line \in Recordable, AppendLine(line)
      PROVE  Trust'
  <2> DEFINE r == rec.run
  <2>1. /\ r \in Runs /\ line \in Line /\ line.ref = rec.put
        /\ scrub' = scrub /\ gc' = gc /\ rec'.put = None
        /\ \A s \in Runs : /\ run'[s].life = run[s].life /\ run'[s].blobs = run[s].blobs
                           /\ run'[s].sum = run[s].sum
        /\ \A s \in Runs \ {r} : run'[s].lines = run[s].lines /\ recorded'[s] = recorded[s]
        /\ run'[r].lines = (IF run[r].legible THEN Append(run[r].lines, line)
                            ELSE run[r].lines)
        /\ recorded'[r] = Append(recorded[r], line)
    BY <1>3, AppendLineDoes, Basics DEF AppendLine, Recording, SameBlobs, Types
  <2>2. /\ scrub.stage = "idle" /\ run[r].sum = None /\ run[r].life # "unborn"
        /\ Here(r) => run[r].legible
    BY <2>1, Basics DEF Order, Alone, InOrder
  <2>3. Here(r) => /\ run[r].lines \in Seq(Line) /\ recorded[r] \in Seq(Line)
                   /\ Follows(run[r].lines, recorded[r])
                   /\ Resolves(run[r].lines, run[r].blobs)
                   /\ line.ref # None => line.ref \in run[r].blobs
    BY <2>1, FieldsTyped DEF AllWhole, PutThere, Here, Types
  <2>4. Here(r) => /\ Follows(run'[r].lines, recorded'[r])
                   /\ Resolves(run'[r].lines, run'[r].blobs)
    BY ONLY <2>1, <2>2, <2>3, FollowsAppend, ResolvesAppend
  <2>5. AllWhole'
    BY ONLY <2>1, <2>2, <2>4, AllWhole DEF AllWhole, Here
  <2>6. PutThere'
    BY ONLY <2>1 DEF PutThere
  <2>7. SweepsOrphans'
    <3>1. gc.stage \in {"events", "blobs"} => At \in Runs
      BY AtIsTodo DEF Types
    <3>2. At' = At
      BY <2>1 DEF At, Newest
    <3> QED
      BY ONLY <2>1, <2>2, <3>1, <3>2, SweepsOrphans DEF SweepsOrphans, Sealed
  <2> QED
    BY <2>1, <2>2, <2>5, <2>6, <2>7, NoScrubAtWork
<1>4. CASE SealRun
  <2> DEFINE r == rec.run
  <2>1. /\ r \in Runs /\ scrub' = scrub /\ gc' = gc /\ rec'.put = None /\ WholeStill
        /\ \A s \in Runs : run'[s].lines = run[s].lines
        /\ \A s \in Runs \ {r} : run'[s].sum = run[s].sum
    BY <1>4, SealRunDoes
       DEF SealRun, Recording, NoRecording, SameKin, SameBlobs, Types, WholeStill
  <2>2. scrub.stage = "idle" /\ run[r].sum = None
    BY <2>1, Basics DEF Order, Alone, InOrder
  <2>3. PutThere'
    BY ONLY <2>1 DEF PutThere
  <2>4. SweepsOrphans'
    <3>1. gc.stage \in {"events", "blobs"} => At \in Runs
      BY AtIsTodo DEF Types
    <3>2. At' = At
      BY <2>1 DEF At, Newest
    <3> QED
      BY ONLY <2>1, <2>2, <3>1, <3>2, SweepsOrphans DEF SweepsOrphans, Sealed
  <2> QED
    BY <2>1, <2>2, <2>3, <2>4, WholeKept, NoScrubAtWork
<1>5. CASE RecordingDies
  <2>1. WholeStill /\ SweepStill /\ scrub' = scrub /\ rec'.put = None /\ rec.run # None
    BY <1>5, RecordingDiesDoes
       DEF RecordingDies, Recording, NoRecording, SameKin, SameText, WholeStill, SweepStill
  <2>2. PutThere'
    BY ONLY <2>1 DEF PutThere
  <2>3. scrub.stage = "idle"
    BY <2>1 DEF Order, Alone
  <2> QED
    BY <2>1, <2>2, <2>3, WholeKept, SweepKept, NoScrubAtWork
<1>6. CASE RecordingLosesRun
  <2>1. WholeStill /\ SweepStill /\ scrub' = scrub /\ rec'.put = None /\ rec.run # None
    BY <1>6, RecordingLosesRunDoes
       DEF RecordingLosesRun, Recording, NoRecording, SameKin, SameText, WholeStill, SweepStill
  <2>2. PutThere'
    BY ONLY <2>1 DEF PutThere
  <2>3. scrub.stage = "idle"
    BY <2>1 DEF Order, Alone
  <2> QED
    BY <2>1, <2>2, <2>3, WholeKept, SweepKept, NoScrubAtWork
<1>7. ASSUME NEW r \in Runs, NEW dry \in BOOLEAN, NEW drop \in BOOLEAN, ScrubStarts(r, dry,
             drop)
      PROVE  Trust'
  <2>1. WholeStill /\ scrub'.stage = "blobs"
    BY <1>7, ScrubStartsDoes DEF OthersStill, WholeStill
  <2>2. ScrubPlan'
    BY ONLY <2>1 DEF ScrubPlan, Planned
  <2> QED
    BY <2>1, <2>2, WholeKept, ScrubAlone
<1>8. ASSUME NEW unread \in SUBSET Contents, ScrubReadsBlobs(unread)
      PROVE  Trust'
  <2>1. /\ WholeStill /\ scrub'.stage = "events" /\ scrub'.stale = Stale(scrub'.moved)
        /\ scrub'.puts = {Scrubbed[b] : b \in scrub'.moved}
    BY <1>8, ScrubReadsBlobsDoes DEF OthersStill, WholeStill
  <2>2. ScrubPlan'
    BY ONLY <2>1 DEF ScrubPlan, Planned, Stale
  <2> QED
    BY <2>1, <2>2, WholeKept, ScrubAlone
<1>9. CASE ScrubReadsEvents
  <2> DEFINE r == scrub.run
  <2>1. /\ WholeStill /\ r \in Runs /\ scrub.stage = "events" /\ scrub'.stage = "aside"
           /\ scrub'.run = r
        /\ scrub'.puts = scrub.puts /\ scrub'.stale = scrub.stale
        /\ scrub'.lines = [i \in DOMAIN run[r].lines |-> Retarget(run[r].lines[i])]
        /\ scrub'.rewrote = (scrub'.lines # run[r].lines)
        /\ UNCHANGED <<run, recorded>>
    BY <1>9, ScrubReadsEventsDoes DEF OthersStill, SameScrub, WholeStill
  <2>2. /\ scrub.puts = {Scrubbed[b] : b \in scrub.moved}
           /\ scrub.stale = scrub.moved \ scrub.puts
        /\ scrub.moved \subseteq Contents
    BY <2>1, ScrubFields DEF ScrubPlan
  <2>3. /\ run[r].lines \in Seq(Line)
        /\ Here(r) => /\ Follows(run[r].lines, recorded[r])
                      /\ Resolves(run[r].lines, run[r].blobs)
    BY <2>1, FieldsTyped DEF AllWhole, Here, Types
  <2> DEFINE lines == run[r].lines
             was == recorded[r]
             blobs == run[r].blobs
             next == [i \in DOMAIN lines |-> Retarget(lines[i])]
             will == (blobs \union scrub.puts) \ scrub.stale
  <2>4. /\ Here(r) => Follows(lines, was) /\ Resolves(lines, blobs)
        /\ lines \in Seq(Line)
        /\ scrub'.lines = next /\ scrub'.rewrote = (next # lines)
    BY <2>1, <2>3
  <2> HIDE DEF lines, was, blobs
  <2>5. ASSUME Here(r), NEW i \in DOMAIN lines
        PROVE  /\ Scrubbed[next[i].text] = Scrubbed[lines[i].text]
               /\ (next[i].ref = None) <=> (lines[i].ref = None)
               /\ next[i].ref # None => /\ Scrubbed[next[i].ref] = Scrubbed[lines[i].ref]
                                        /\ next[i].ref \in will
    <3>1. lines[i].text \in Contents /\ lines[i].ref \in Contents \union {None}
      <4>1. lines[i] \in Line
        BY <2>4
      <4> QED
        BY <4>1 DEF Line
    <3>2. next[i] = Retarget(lines[i])
      OBVIOUS
    <3>3. lines[i].ref # None => lines[i].ref \in blobs
      BY <2>4, <2>5 DEF Resolves
    <3> HIDE DEF next, will
    <3>4. Scrubbed[next[i].text] = Scrubbed[lines[i].text]
      BY ONLY <3>1, <3>2, Basics DEF Retarget, Kept
    <3>5. CASE lines[i].ref \in scrub.moved
      <4>1. next[i].ref = Scrubbed[lines[i].ref] /\ lines[i].ref \in Contents
        BY <3>2, <3>5, <2>2 DEF Retarget
      <4>2. next[i].ref \in scrub.puts /\ next[i].ref \in Contents
            /\ next[i].ref \notin scrub.stale
        BY <4>1, <3>5, <2>2, Basics
      <4> QED
        BY ONLY <4>1, <4>2, <3>4, Basics DEF will
    <3>6. CASE lines[i].ref \notin scrub.moved
      <4>1. next[i].ref = lines[i].ref
        BY <3>2, <3>6 DEF Retarget
      <4> QED
        BY ONLY <4>1, <3>3, <3>4, <3>6, <2>2 DEF will
    <3> QED
      BY <3>5, <3>6
  <2>6. DOMAIN next = DOMAIN lines
    OBVIOUS
  <2> HIDE DEF next, will
  <2>7. Here(r) => Follows(next, was) /\ Resolves(next, will)
    BY ONLY <2>4, <2>5, <2>6 DEF Follows, Resolves
  <2>8. ScrubPlan'
    BY ONLY <2>1, <2>2, <2>4, <2>7 DEF ScrubPlan, Planned, Here, lines, was, blobs, will
  <2> QED
    BY <2>1, <2>8, WholeKept, ScrubAlone
<1>10. CASE ScrubLooksAside
  <2> DEFINE r == scrub.run
  <2>1. /\ WholeStill /\ scrub'.run = r /\ scrub.stage = "aside" /\ r \in Runs
        /\ (run'[r].life = "here" => run[r].life = "here")
        /\ run'[r].lines = run[r].lines /\ run'[r].blobs = run[r].blobs /\ recorded' = recorded
    BY <1>10, ScrubLooksAsideDoes DEF OthersStill, SameKin, SameText, SameBlobs, WholeStill
  <2>2. \/ scrub'.stage = "told"
        \/ /\ scrub'.stage = "commit" /\ scrub'.puts = scrub.puts /\ scrub'.stale = scrub.stale
           /\ scrub'.lines = scrub.lines /\ scrub'.rewrote = scrub.rewrote
    BY <1>10, ScrubLooksAsideDoes
  <2>3. ScrubPlan'
    BY ONLY <2>1, <2>2, ScrubPlan DEF ScrubPlan, Planned, Here
  <2> QED
    BY <2>1, <2>2, <2>3, WholeKept, ScrubAlone
<1>11. ASSUME NEW c \in Contents, CommitBlob(c)
      PROVE  Trust'
  <2> DEFINE r == scrub.run
  <2>1. /\ WholeStill /\ scrub'.run = r /\ r \in Runs /\ scrub.stage = "commit"
           /\ scrub'.stage = "commit"
        /\ (run'[r].life = "here" => run[r].life = "here")
        /\ run'[r].lines = run[r].lines /\ run'[r].blobs = run[r].blobs \union {c}
        /\ recorded' = recorded /\ c \in scrub.puts
        /\ scrub'.puts = scrub.puts \ {c} /\ scrub'.stale = scrub.stale
        /\ scrub'.lines = scrub.lines /\ scrub'.rewrote = scrub.rewrote
    BY <1>11, CommitBlobDoes DEF OthersStill, SameScrub, SameKin, SameText, WholeStill
  <2>2. /\ (run'[r].blobs \union scrub'.puts) \ scrub'.stale
             = (run[r].blobs \union scrub.puts) \ scrub.stale
        /\ scrub.puts \intersect scrub.stale = {} => scrub'.puts \intersect scrub'.stale = {}
    BY ONLY <2>1
  <2>3. ScrubPlan'
    BY ONLY <2>1, <2>2, ScrubPlan DEF ScrubPlan, Planned, Here
  <2> QED
    BY <2>1, <2>3, WholeKept, ScrubAlone
<1>12. ASSUME NEW c \in Contents, CommitInPlace(c)
      PROVE  Trust'
  <2> DEFINE r == scrub.run
  <2>1. /\ WholeStill /\ scrub'.run = r /\ r \in Runs /\ scrub.stage = "commit"
           /\ scrub'.stage = "commit"
        /\ (run'[r].life = "here" => run[r].life = "here")
        /\ run'[r].lines = run[r].lines /\ run'[r].blobs = run[r].blobs /\ recorded' = recorded
        /\ scrub'.puts = scrub.puts /\ scrub'.stale = scrub.stale
        /\ scrub'.lines = scrub.lines /\ scrub'.rewrote = scrub.rewrote
    BY <1>12, CommitInPlaceDoes DEF OthersStill, SameScrub, SameKin, SameText, WholeStill
  <2>3. ScrubPlan'
    BY ONLY <2>1, ScrubPlan DEF ScrubPlan, Planned, Here
  <2> QED
    BY <2>1, <2>3, WholeKept, ScrubAlone
<1>13. CASE CommitEvents
  <2> DEFINE r == scrub.run
  <2>1. /\ scrub'.run = r /\ r \in Runs /\ scrub.stage = "commit" /\ scrub'.stage = "manifest"
        /\ \A s \in Runs : /\ run'[s].life = run[s].life \/ run'[s].life = "ruin"
                           /\ run'[s].blobs = run[s].blobs
        /\ \A s \in Runs \ {r} : run'[s].lines = run[s].lines
        /\ run'[r].lines = (IF scrub.rewrote THEN scrub.lines ELSE run[r].lines)
        /\ recorded' = recorded /\ scrub.puts = {}
        /\ scrub'.puts = {} /\ scrub'.stale = scrub.stale
        /\ scrub'.lines = scrub.lines /\ scrub'.rewrote = scrub.rewrote
    BY <1>13, CommitEventsDoes DEF OthersStill, SameScrub, SameKin, SameBlobs
  <2>2. /\ Here(r) => /\ Follows(scrub.lines, recorded[r])
                      /\ Resolves(scrub.lines, (run[r].blobs \union scrub.puts) \ scrub.stale)
        /\ ~ scrub.rewrote => scrub.lines = run[r].lines
    BY <2>1 DEF ScrubPlan, Planned
  <2>3. run'[r].lines = scrub.lines
    BY ONLY <2>1, <2>2
  <2>4. run[r].life # "unborn" /\ (Here(r) => Resolves(scrub.lines, run[r].blobs))
    <3>1. run[r].life # "unborn"
      BY <2>1 DEF Order, Alone, Stands
    <3> QED
      BY ONLY <2>1, <2>2, <3>1 DEF Resolves
  <2>5. AllWhole'
    BY ONLY <2>1, <2>2, <2>3, <2>4, AllWhole DEF AllWhole, Here
  <2>6. ScrubPlan'
    BY ONLY <2>1, <2>2, <2>3 DEF ScrubPlan, Planned, Here
  <2> QED
    BY <2>1, <2>5, <2>6, ScrubAlone
<1>14. CASE CommitManifest
  <2> DEFINE r == scrub.run
  <2>1. /\ WholeStill /\ scrub'.run = r /\ r \in Runs /\ scrub.stage = "manifest"
           /\ scrub'.stage = "unlink"
        /\ (run'[r].life = "here" => run[r].life = "here")
        /\ run'[r].lines = run[r].lines /\ run'[r].blobs = run[r].blobs /\ recorded' = recorded
        /\ scrub'.puts = scrub.puts /\ scrub'.stale = scrub.stale
        /\ scrub'.lines = scrub.lines /\ scrub'.rewrote = scrub.rewrote
    BY <1>14, CommitManifestDoes DEF OthersStill, SameScrub, SameKin, SameBlobs, WholeStill
  <2>3. ScrubPlan'
    BY ONLY <2>1, ScrubPlan DEF ScrubPlan, Planned, Here
  <2> QED
    BY <2>1, <2>3, WholeKept, ScrubAlone
<1>15. ASSUME NEW c \in Contents, UnlinkStale(c)
      PROVE  Trust'
  <2> DEFINE r == scrub.run
  <2>1. /\ scrub'.run = r /\ r \in Runs /\ scrub.stage = "unlink" /\ scrub'.stage = "unlink"
        /\ \A s \in Runs : /\ run'[s].life = run[s].life \/ run'[s].life = "ruin"
                           /\ run'[s].lines = run[s].lines
        /\ \A s \in Runs \ {r} : run'[s].blobs = run[s].blobs
        /\ run'[r].blobs = run[r].blobs \ {c} /\ recorded' = recorded
        /\ c \in scrub.stale /\ scrub'.stale = scrub.stale \ {c} /\ scrub'.puts = scrub.puts
        /\ scrub'.lines = scrub.lines /\ scrub'.rewrote = scrub.rewrote
    BY <1>15, UnlinkStaleDoes DEF OthersStill, SameScrub, SameKin, SameText
  <2>2. /\ scrub.puts = {} /\ run[r].lines = scrub.lines /\ run[r].life # "unborn"
        /\ Here(r) => /\ Follows(scrub.lines, recorded[r])
                      /\ Resolves(scrub.lines, (run[r].blobs \union scrub.puts) \ scrub.stale)
    BY <2>1 DEF ScrubPlan, Planned, Order, Alone, Stands
  <2>3. Here(r) => Resolves(run'[r].lines, run'[r].blobs)
    BY ONLY <2>1, <2>2 DEF Resolves
  <2>4. AllWhole'
    BY ONLY <2>1, <2>2, <2>3, AllWhole DEF AllWhole, Here
  <2>5. Here(r) => Resolves(scrub'.lines, (run'[r].blobs \union scrub'.puts) \ scrub'.stale)
    BY ONLY <2>1, <2>2 DEF Resolves
  <2>6. ScrubPlan'
    BY ONLY <2>1, <2>2, <2>5 DEF ScrubPlan, Planned, Here
  <2> QED
    BY <2>1, <2>4, <2>6, ScrubAlone
<1>16. CASE ScrubReports
  <2>1. WholeStill /\ scrub'.stage = "told"
    BY <1>16, ScrubReportsDoes DEF OthersStill, WholeStill
  <2>2. ScrubPlan'
    BY ONLY <2>1 DEF ScrubPlan, Planned
  <2> QED
    BY <2>1, <2>2, WholeKept, ScrubAlone
<1>17. CASE ScrubExits \/ ScrubDies
  <2>1. WholeStill /\ SweepStill /\ scrub'.stage = "idle" /\ UNCHANGED <<run, rec>>
    BY <1>17, ScrubEndsDoes, NoScrubTyped DEF OthersStill, WholeStill, SweepStill
  <2>2. PutThere'
    BY ONLY <2>1, PutThere DEF PutThere, Here
  <2> QED
    BY <2>1, <2>2, WholeKept, SweepKept, NoScrubAtWork
<1>18. ASSUME NEW floor \in {0} \union {r + 1 : r \in Runs}, GcStarts(floor)
      PROVE  Trust'
  <2>1. /\ WholeStill /\ scrub' = scrub /\ rec' = rec /\ run' = run
        /\ gc'.stage = "manifest" /\ \A r \in Runs : gc'.orphans[r] = {}
    BY <1>18, GcStartsDoes DEF BesideGcStill, WholeStill
  <2>2. scrub.stage = "idle"
    BY <1>18 DEF GcStarts, ScrubIdle
  <2>3. PutThere'
    BY ONLY <2>1, PutThere DEF PutThere, Here
  <2>4. SweepsOrphans'
    BY ONLY <2>1 DEF SweepsOrphans
  <2> QED
    BY <2>1, <2>2, <2>3, <2>4, WholeKept, NoScrubAtWork
<1>19. CASE GcReadsManifest
  <2>1. /\ WholeStill /\ scrub' = scrub /\ rec' = rec /\ run' = run
        /\ gc.stage = "manifest" /\ gc'.stage = "events" /\ gc'.todo = gc.todo
        /\ gc'.orphans = gc.orphans /\ gc'.date = gc.date
        /\ gc'.sealed = (run[At].manifest /\ Sealed(At))
    BY <1>19, GcReadsManifestDoes DEF BesideGcStill, WholeStill
  <2>2. scrub.stage = "idle"
    BY <1>19 DEF Order, Alone, GcReadsManifest
  <2>3. PutThere'
    BY ONLY <2>1, PutThere DEF PutThere, Here
  <2>4. SweepsOrphans'
    <3>1. At' = At
      BY <2>1 DEF At, Newest
    <3> QED
      BY ONLY <2>1, <3>1, SweepsOrphans DEF SweepsOrphans, Sealed
  <2> QED
    BY <2>1, <2>2, <2>3, <2>4, WholeKept, NoScrubAtWork
<1>20. CASE GcReadsEvents
  <2>1. /\ WholeStill /\ scrub' = scrub /\ rec' = rec /\ run' = run
        /\ gc.stage = "events" /\ gc'.stage = "blobs" /\ gc'.todo = gc.todo
        /\ gc'.orphans = gc.orphans /\ gc'.date = gc.date
        /\ (gc'.sealed => gc.sealed) /\ gc'.refs = Refs(run[At].lines)
    BY <1>20, GcReadsEventsDoes DEF BesideGcStill, WholeStill
  <2>2. scrub.stage = "idle"
    BY <1>20 DEF Order, Alone, GcReadsEvents
  <2>3. PutThere'
    BY ONLY <2>1, PutThere DEF PutThere, Here
  <2>4. SweepsOrphans'
    <3>1. At' = At
      BY <2>1 DEF At, Newest
    <3> QED
      BY ONLY <2>1, <3>1, SweepsOrphans DEF SweepsOrphans, Sealed
  <2> QED
    BY <2>1, <2>2, <2>3, <2>4, WholeKept, NoScrubAtWork
<1>21. CASE GcListsBlobs
  <2>1. /\ WholeStill /\ scrub' = scrub /\ rec' = rec /\ run' = run
        /\ gc.stage = "blobs" /\ gc'.stage = "manifest" /\ gc'.orphans[At] = Orphans
        /\ At \in Runs
        /\ \A r \in Runs \ {At} : gc'.orphans[r] = gc.orphans[r]
    BY <1>21, GcListsBlobsDoes DEF BesideGcStill, WholeStill
  <2>2. scrub.stage = "idle"
    BY <1>21 DEF Order, Alone, GcListsBlobs
  <2>3. PutThere'
    BY ONLY <2>1, PutThere DEF PutThere, Here
  <2>4. SweepsOrphans'
    BY ONLY <2>1, SweepsOrphans DEF SweepsOrphans, Sealed, Orphans
  <2> QED
    BY <2>1, <2>2, <2>3, <2>4, WholeKept, NoScrubAtWork
<1>22. CASE GcDecides
  <2>1. /\ WholeStill /\ scrub' = scrub /\ rec' = rec /\ run' = run
        /\ gc.stage = "manifest" /\ gc'.stage = "remove"
        /\ \A r \in Runs : gc'.orphans[r] = (IF r \in gc'.doomed THEN {} ELSE gc.orphans[r])
    BY <1>22, GcDecidesDoes DEF BesideGcStill, WholeStill
  <2>2. scrub.stage = "idle"
    BY <1>22 DEF Order, Alone, GcDecides
  <2>3. PutThere'
    BY ONLY <2>1, PutThere DEF PutThere, Here
  <2>4. SweepsOrphans'
    BY ONLY <2>1, SweepsOrphans DEF SweepsOrphans, Sealed
  <2> QED
    BY <2>1, <2>2, <2>3, <2>4, WholeKept, NoScrubAtWork
<1>23. CASE GcRemovesRun
  <2> DEFINE n == NextDoomed
  <2>1. /\ scrub' = scrub /\ rec' = rec /\ recorded' = recorded /\ n \in Runs
        /\ gc.stage = "remove" /\ gc'.stage = "tree" /\ gc'.orphans = gc.orphans
        /\ \A s \in Runs : /\ run'[s].sum = run[s].sum /\ run'[s].blobs = run[s].blobs
                           /\ run'[s].lines = run[s].lines
        /\ \A s \in Runs \ {n} : run'[s].life = run[s].life
        /\ run'[n].life = "removed"
    BY <1>23, GcRemovesRunDoes DEF BesideGcStill, SameBlobs, SameText
  <2> HIDE DEF n
  <2>2. scrub.stage = "idle"
    BY <2>1 DEF Order, Alone
  <2>3. AllWhole'
    BY ONLY <2>1, AllWhole DEF AllWhole
  <2>4. PutThere'
    BY ONLY <2>1, PutThere, Types, Basics, Order DEF PutThere, Here, Types, Order, InOrder
  <2>6. SweepsOrphans'
    BY ONLY <2>1, SweepsOrphans DEF SweepsOrphans, Sealed
  <2> QED
    BY <2>1, <2>2, <2>3, <2>4, <2>6, NoScrubAtWork
<1>28. CASE GcRemovesFile
  <2> DEFINE n == NextDoomed
  <2>1. /\ scrub' = scrub /\ rec' = rec /\ recorded' = recorded /\ gc' = gc /\ n \in Runs
        /\ gc.stage = "remove"
        /\ \A s \in Runs : /\ run'[s].sum = run[s].sum
                           /\ run'[s].lines = run[s].lines \/ run'[s].lines = << >>
        /\ \A s \in Runs \ {n} : run'[s] = run[s]
        /\ run'[n].life = "ruin"
    BY <1>28, GcRemovesFileDoes DEF BesideGcStill
  <2> HIDE DEF n
  <2>2. scrub.stage = "idle"
    BY <2>1 DEF Order, Alone
  <2>3. AllWhole'
    BY ONLY <2>1, AllWhole DEF AllWhole
  <2>4. PutThere'
    BY ONLY <2>1, PutThere, Types, Basics, Order DEF PutThere, Here, Types, Order, InOrder
  <2>5. Refs(<< >>) = {}
    BY DEF Refs
  <2>6. SweepsOrphans'
    BY ONLY <2>1, <2>5, SweepsOrphans DEF SweepsOrphans, Sealed
  <2> QED
    BY <2>1, <2>2, <2>3, <2>4, <2>6, NoScrubAtWork
<1>24. CASE GcRemovesTree
  <2>1. /\ WholeStill /\ scrub' = scrub /\ rec' = rec
        /\ \A s \in Runs : /\ run'[s].lines = run[s].lines /\ run'[s].blobs = run[s].blobs
                           /\ run'[s].life = run[s].life /\ run'[s].sum = run[s].sum
        /\ gc.stage = "tree" /\ gc'.stage = "remove" /\ gc'.orphans = gc.orphans
    BY <1>24, GcRemovesTreeDoes DEF BesideGcStill, WholeStill, SameText, SameBlobs
  <2>2. scrub.stage = "idle"
    BY <2>1 DEF Order, Alone
  <2>3. PutThere'
    BY ONLY <2>1, PutThere, Types, Basics, Order DEF PutThere, Here, Types, Order, InOrder
  <2>4. SweepsOrphans'
    BY ONLY <2>1, SweepsOrphans DEF SweepsOrphans, Sealed
  <2> QED
    BY <2>1, <2>2, <2>3, <2>4, WholeKept, NoScrubAtWork
<1>25. ASSUME NEW r \in Runs, NEW c \in Contents, GcUnlinks(r, c)
      PROVE  Trust'
  <2>1. /\ scrub' = scrub /\ rec' = rec /\ recorded' = recorded /\ c \in gc.orphans[r]
        /\ \A s \in Runs : /\ run'[s].lines = run[s].lines
                           /\ run'[s].life = run[s].life /\ run'[s].sum = run[s].sum
        /\ \A s \in Runs \ {r} : run'[s].blobs = run[s].blobs /\ gc'.orphans[s] = gc.orphans[s]
        /\ run'[r].blobs = run[r].blobs \ {c} /\ gc'.orphans[r] = gc.orphans[r] \ {c}
        /\ gc.stage = "remove" /\ gc'.stage = "remove"
    BY <1>25, GcUnlinksDoes DEF BesideGcStill, SameText, SameKin
  <2>2. scrub.stage = "idle"
    BY <2>1 DEF Order, Alone
  <2>3. c \notin Refs(run[r].lines) /\ run[r].sum # None
    BY <2>1 DEF SweepsOrphans, Sealed
  <2>4. AllWhole'
    BY ONLY <2>1, <2>3, AllWhole, ResolvesRefs, r \in Runs DEF AllWhole
  <2>5. rec.run # r
    BY <2>3, Basics DEF Order, InOrder
  <2>6. PutThere'
    BY ONLY <2>1, <2>5, PutThere, Types, Basics, Order DEF PutThere, Here, Types, Order, InOrder
  <2>7. SweepsOrphans'
    BY ONLY <2>1, SweepsOrphans DEF SweepsOrphans, Sealed
  <2> QED
    BY <2>1, <2>2, <2>4, <2>6, <2>7, NoScrubAtWork
<1>26. CASE GcFinishes \/ GcDies
  <2>1. WholeStill /\ scrub' = scrub /\ rec' = rec /\ run' = run /\ gc'.stage = "idle"
    BY <1>26, GcEndsDoes DEF WholeStill
  <2>2. PutThere'
    BY ONLY <2>1, PutThere DEF PutThere, Here
  <2>3. SweepsOrphans'
    BY ONLY <2>1 DEF SweepsOrphans
  <2>4. ScrubPlan'
    BY ONLY <2>1, ScrubPlan DEF ScrubPlan, WholeStill, Here
  <2> QED
    BY <2>1, <2>2, <2>3, <2>4, WholeKept
<1>27. CASE UNCHANGED storeVars
  <2>1. WholeStill /\ SweepStill /\ UNCHANGED <<rec, scrub, run, recorded>>
    BY <1>27 DEF storeVars, WholeStill, SweepStill
  <2>2. PutThere' /\ ScrubPlan'
    BY ONLY <2>1, Trust DEF PutThere, ScrubPlan, Here, Trust
  <2> QED
    BY <2>1, <2>2, WholeKept, SweepKept
<1> QED
  BY <1>1, <1>2, <1>3, <1>4, <1>5, <1>6, <1>7, <1>8, <1>9, <1>10, <1>11, <1>12, <1>13, <1>14,
     <1>15, <1>16, <1>17, <1>18, <1>19, <1>20, <1>21, <1>22, <1>23, <1>24, <1>25, <1>26, <1>27,
     <1>28 DEF StoreNext, RecordNext, ScrubNext, GcNext

\* At every instant, in the middle of a scrub or a gc and after any number of
\* them were killed, every line of a run that no gc has begun to remove resolves,
\* and reads as it was recorded up to what scrubbing takes out, as long as the
\* operator lets no scrub and no fork run beside a gc or a recording.  What a gc
\* killed inside the rm of a run leaves of that run is excepted.
THEOREM StoreWhole == ~ Overlap /\ StoreSpec => []Whole
<1> SUFFICES ASSUME ~ Overlap PROVE StoreSpec => []Whole
  OBVIOUS
<1>1. Trust => Whole
  BY DEF Trust, AllWhole, Whole, Follows, Resolves, Here
<1> QED
  BY StoreInitTypes, StoreInitOrder, StoreInitTrust, TypesStep, OrderStep, TrustStep, <1>1, PTL
     DEF StoreSpec

-----------------------------------------------------------------------------
(* No run loses the run it was forked from.                                 *)

\* Who descends from whom on disk.
Kin ==
  /\ \A r \in Runs : run[r].parent # None => run[r].parent \in Runs /\ run[r].parent < r
  /\ \A r \in Runs : run[r].life \in {"unborn", "here"} /\ run[r].named = "event"
                      => run[r].legible
  /\ \A r \in Runs : Here(r) => /\ run[r].parent # None => Opens(run[r].parent)
                                /\ run[r].tree # "none" /\ run[r].manifest
  /\ \A r \in Runs : run[r].life \in {"ruin", "removed"} /\ run[r].tree = "none"
                      => run[r].fork

\* What a gc has read of it, and what it means to remove.  Of the ruins it lists it
\* may know nothing, neither a parent nor a true date.
Reads ==
  /\ gc.stage \in {"manifest", "events", "blobs"} =>
       /\ \A r \in Runs \ gc.listed : Here(r) => run[r].parent = None
       /\ \A r \in gc.listed \ gc.todo : Here(r) => gc.parent[r] = run[r].parent
  /\ gc.stage # "idle" =>
       \A r \in Runs : /\ run[r].life \in {"unborn", "here"} => gc.date[r] = r
                       /\ Here(r) /\ run[r].parent # None =>
                            gc.date[run[r].parent] = run[r].parent
  /\ gc.stage = "events" /\ Here(At) =>
       gc.parent[At] = IF run[At].named = "manifest" THEN run[At].parent ELSE None
  /\ gc.stage = "blobs" /\ Here(At) => gc.parent[At] = run[At].parent
  /\ gc.stage # "idle" => \A r \in Runs : gc.tree[r] => run[r].fork /\ run[r].life # "unborn"
  /\ gc.stage \in {"remove", "tree"} =>
       \A r \in Runs \ gc.doomed : Here(r) => run[r].parent \notin gc.doomed
  /\ gc.stage = "tree" => run[NextDoomed].life \in {"removed", "ruin"}

Descent == Kin /\ Reads

LEMMA StoreInitDescent == StoreInit => Descent
<1> SUFFICES ASSUME StoreInit PROVE Descent
  OBVIOUS
<1>1. run \in Histories /\ gc.stage = "idle"
  BY DEF StoreInit, NoGc
<1>2. run \in [Runs -> RunState]
  BY <1>1, StoreAssumption
<1>3. \A r \in Runs : run[r].parent \in Runs \union {None}
  BY <1>2, FieldsTyped
<1>4. Kin
  BY ONLY <1>1, <1>3, HistoriesAssumption DEF Kin, Here, Opens, Stands
<1>5. Reads
  BY ONLY <1>1 DEF Reads
<1> QED
  BY <1>4, <1>5 DEF Descent

\* What Types says of the gc and of the fields of a run these need.
LEMMA DescentTyped ==
  ASSUME Types
  PROVE  /\ \A r \in Runs : /\ run[r].parent \in Runs \union {None}
                            /\ run[r].named \in {"manifest", "event"}
                            /\ run[r].life \in {"unborn", "here", "ruin", "removed"}
         /\ gc.stage \in {"events", "blobs"} => At \in Runs /\ At \in gc.todo
         /\ gc.stage = "tree" => NextDoomed \in Runs
         /\ gc.listed \subseteq Runs /\ gc.doomed \subseteq Runs /\ gc.todo \subseteq Runs
<1>1. \A r \in Runs : run[r] \in RunState
  BY DEF Types
<1>2. \A r \in Runs : /\ run[r].parent \in Runs \union {None}
                      /\ run[r].named \in {"manifest", "event"}
                      /\ run[r].life \in {"unborn", "here", "ruin", "removed"}
  BY <1>1 DEF RunState
<1> QED
  BY <1>2, AtIsTodo, NextIsDoomed, GcFields DEF Types

\* A step that changes no run's kin and no gc.
DescentStill == gc' = gc /\ \A s \in Runs : SameKin(s)

LEMMA DescentKept ==
  ASSUME Types, Descent, DescentStill
  PROVE  Descent'
<1>1. At' = At /\ NextDoomed' = NextDoomed
  BY DEF DescentStill, At, NextDoomed, Newest
<1>2. Kin'
  BY ONLY Types, Descent, DescentStill, DescentTyped
     DEF Descent, Kin, DescentStill, SameKin, Here, Opens, Stands
<1>3. Reads'
  BY ONLY Types, Descent, DescentStill, DescentTyped, <1>1
     DEF Descent, Reads, DescentStill, SameKin, Here
<1> QED
  BY <1>2, <1>3 DEF Descent

\* A step of a gc that changes no run.
LEMMA KinKept ==
  ASSUME Kin, run' = run
  PROVE  Kin'
BY DEF Kin, Here, Opens, Stands

LEMMA DescentStep ==
  ASSUME ~ Overlap, Types, Order, Descent, [StoreNext]_storeVars
  PROVE  Descent'
<1> USE DEF Descent
<1>1. ASSUME NEW r \in Runs, NEW parent \in Runs \union {None}, StartRun(r, parent)
      PROVE  Descent'
  <2>1. /\ run[r].life = "unborn" /\ gc' = gc
        /\ parent # None => gc.stage = "idle" /\ Opens(parent)
        /\ \A s \in Runs \ {r} : run'[s] = run[s]
        /\ run'[r].life = "here" /\ run'[r].parent = parent /\ run'[r].tree # "none"
        /\ run'[r].manifest /\ run'[r].legible
    <3>1. /\ run[r].life = "unborn" /\ gc' = gc
          /\ parent # None => gc.stage = "idle" /\ Opens(parent)
      BY <1>1 DEF StartRun, GcIdle
    <3> QED
      BY <3>1, <1>1, StartRunDoes
  <2>2. parent # None => parent \in Runs /\ parent < r /\ parent # r
    <3>1. parent # None => parent \in Runs /\ parent # r /\ ~ (parent > r)
      BY <2>1 DEF Order, InOrder, Opens, Stands
    <3> QED
      BY <3>1, Basics
  <2>3. Kin'
    BY ONLY <2>1, <2>2, Kin, Types, DescentTyped, r \in Runs DEF Kin, Here, Opens, Stands
  <2>4. At' = At /\ NextDoomed' = NextDoomed
    BY <2>1 DEF At, NextDoomed, Newest
  <2>5. gc.stage # "idle" => parent = None /\ r \notin gc.listed /\ r \notin gc.todo
        /\ r \notin gc.doomed
    BY <2>1 DEF Order, Listed
  <2>6. Reads'
    <3>1. gc.stage \in {"events", "blobs"} => At \in Runs /\ At # r
      BY ONLY <2>5, Types, DescentTyped
    <3>2. gc.stage = "tree" => NextDoomed \in Runs /\ NextDoomed # r
      BY ONLY <2>1, Types, DescentTyped, Reads DEF Reads
    <3>3. gc.stage # "idle" => \A s \in Runs : gc.tree[s] => s # r
      BY ONLY <2>1, Reads DEF Reads
    <3>4. None \notin gc.doomed /\ gc.listed \subseteq Runs
      BY ONLY Types, DescentTyped, Basics
    <3>5. \A s \in Runs : run'[s].parent = IF s = r THEN parent ELSE run[s].parent
      BY ONLY <2>1
    <3>6. \A s \in Runs : run'[s].life = IF s = r THEN "here" ELSE run[s].life
      BY ONLY <2>1
    <3>7. \A s \in Runs : s # r => run'[s].fork = run[s].fork
      BY ONLY <2>1
    <3> QED
      BY ONLY <2>1, <2>4, <2>5, <3>1, <3>2, <3>3, <3>4, <3>5, <3>6, <3>7, Reads
         DEF Reads, Here, Opens, Stands
  <2> QED
    BY <2>3, <2>6
<1>2. ASSUME NEW c \in Contents, PutBlob(c)
      PROVE  Descent'
  <2>1. DescentStill
    BY <1>2, PutBlobDoes DEF DescentStill, SameKin, PutBlob
  <2> QED
    BY <2>1, DescentKept
<1>3. ASSUME NEW line \in Recordable, AppendLine(line)
      PROVE  Descent'
  <2>1. DescentStill
    BY <1>3, AppendLineDoes DEF DescentStill, SameKin, AppendLine
  <2> QED
    BY <2>1, DescentKept
<1>4. CASE SealRun
  <2>1. DescentStill
    BY <1>4, SealRunDoes DEF DescentStill, SameKin, SealRun
  <2> QED
    BY <2>1, DescentKept
<1>5. CASE RecordingDies
  <2>1. DescentStill
    BY <1>5, RecordingDiesDoes DEF DescentStill, SameKin, RecordingDies
  <2> QED
    BY <2>1, DescentKept
<1>6. CASE RecordingLosesRun
  <2>1. DescentStill
    BY <1>6, RecordingLosesRunDoes DEF DescentStill, SameKin, RecordingLosesRun
  <2> QED
    BY <2>1, DescentKept
<1>7. ASSUME NEW r \in Runs, NEW dry \in BOOLEAN, NEW drop \in BOOLEAN, ScrubStarts(r, dry,
             drop)
      PROVE  Descent'
  <2>1. DescentStill
    BY <1>7, ScrubStartsDoes DEF DescentStill, SameKin, OthersStill
  <2> QED
    BY <2>1, DescentKept
<1>8. ASSUME NEW unread \in SUBSET Contents, ScrubReadsBlobs(unread)
      PROVE  Descent'
  <2>1. DescentStill
    BY <1>8, ScrubReadsBlobsDoes DEF DescentStill, SameKin, OthersStill
  <2> QED
    BY <2>1, DescentKept
<1>9. CASE ScrubReadsEvents
  <2>1. DescentStill
    BY <1>9, ScrubReadsEventsDoes DEF DescentStill, SameKin, OthersStill
  <2> QED
    BY <2>1, DescentKept
<1>10. CASE ScrubLooksAside
  <2>1. DescentStill
    BY <1>10, ScrubLooksAsideDoes DEF DescentStill, SameKin, OthersStill
  <2> QED
    BY <2>1, DescentKept
<1>11. ASSUME NEW c \in Contents, CommitBlob(c)
      PROVE  Descent'
  <2>1. DescentStill
    BY <1>11, CommitBlobDoes DEF DescentStill, SameKin, OthersStill
  <2> QED
    BY <2>1, DescentKept
<1>12. ASSUME NEW c \in Contents, CommitInPlace(c)
      PROVE  Descent'
  <2>1. DescentStill
    BY <1>12, CommitInPlaceDoes DEF DescentStill, SameKin, OthersStill
  <2> QED
    BY <2>1, DescentKept
<1>13. CASE CommitEvents
  <2>1. DescentStill
    BY <1>13, CommitEventsDoes DEF DescentStill, SameKin, OthersStill
  <2> QED
    BY <2>1, DescentKept
<1>14. CASE CommitManifest
  <2>1. DescentStill
    BY <1>14, CommitManifestDoes DEF DescentStill, SameKin, OthersStill
  <2> QED
    BY <2>1, DescentKept
<1>15. ASSUME NEW c \in Contents, UnlinkStale(c)
      PROVE  Descent'
  <2>1. DescentStill
    BY <1>15, UnlinkStaleDoes DEF DescentStill, SameKin, OthersStill
  <2> QED
    BY <2>1, DescentKept
<1>16. CASE ScrubReports
  <2>1. DescentStill
    BY <1>16, ScrubReportsDoes DEF DescentStill, SameKin, OthersStill
  <2> QED
    BY <2>1, DescentKept
<1>17. CASE ScrubExits \/ ScrubDies
  <2>1. DescentStill
    BY <1>17, ScrubEndsDoes DEF DescentStill, SameKin, OthersStill
  <2> QED
    BY <2>1, DescentKept
<1>18. ASSUME NEW floor \in {0} \union {r + 1 : r \in Runs}, GcStarts(floor)
      PROVE  Descent'
  <2>1. /\ run' = run
        /\ gc'.stage = "manifest" /\ gc'.listed = {r \in Runs : Stands(r)}
        /\ gc'.todo = gc'.listed
        /\ \A r \in Runs : ~ gc'.tree[r]
        /\ \A r \in Runs : run[r].manifest \/ ~ Stands(r) => gc'.date[r] = r
    BY <1>18, GcStartsDoes
  <2>3. \A r \in Runs : /\ run[r].life \in {"unborn", "here"} => gc'.date[r] = r
                        /\ Here(r) /\ run[r].parent # None =>
                             gc'.date[run[r].parent] = run[r].parent
    BY ONLY <2>1, Kin DEF Kin, Here, Opens, Stands
  <2>2. Reads'
    BY ONLY <2>1, <2>3 DEF Reads, Here, Stands
  <2> QED
    BY <2>1, <2>2, KinKept
<1>19. CASE GcReadsManifest
  <2>1. /\ run' = run
        /\ gc.stage = "manifest" /\ gc'.stage = "events" /\ At \in Runs /\ At \in gc.todo
        /\ gc'.listed = gc.listed /\ gc'.todo = gc.todo /\ gc'.date = gc.date
        /\ gc'.parent[At] = (IF run[At].manifest /\ run[At].named = "manifest"
                             THEN run[At].parent ELSE None)
        /\ gc'.tree[At] = (run[At].manifest /\ Reclaimable(At))
        /\ \A r \in Runs \ {At} : gc'.parent[r] = gc.parent[r] /\ gc'.tree[r] = gc.tree[r]
    BY <1>19, GcReadsManifestDoes
  <2>3. At' = At
    BY <2>1 DEF At, Newest
  <2>4. run[At].life # "unborn" /\ (gc'.tree[At] => run[At].fork)
    BY <2>1 DEF Order, Listed, Reclaimable
  <2>2. Reads'
    BY ONLY <2>1, <2>3, <2>4, Kin, Reads, Types, DescentTyped DEF Kin, Reads, Here
  <2> QED
    BY <2>1, <2>2, KinKept
<1>20. CASE GcReadsEvents
  <2>1. /\ run' = run
        /\ gc.stage = "events" /\ gc'.stage = "blobs" /\ At \in Runs /\ At \in gc.todo
        /\ gc'.listed = gc.listed /\ gc'.todo = gc.todo /\ gc'.tree = gc.tree
        /\ gc'.date = gc.date
        /\ gc'.parent[At] = (IF gc.parent[At] = None /\ run[At].legible
                             THEN run[At].parent ELSE gc.parent[At])
        /\ \A r \in Runs \ {At} : gc'.parent[r] = gc.parent[r]
    BY <1>20, GcReadsEventsDoes
  <2>3. At' = At
    BY <2>1 DEF At, Newest
  <2>4. Here(At) => gc'.parent[At] = run[At].parent
    BY ONLY <2>1, Kin, Reads, Types, DescentTyped DEF Kin, Reads, Here
  <2>2. Reads'
    BY ONLY <2>1, <2>3, <2>4, Reads, Types, DescentTyped DEF Reads, Here
  <2> QED
    BY <2>1, <2>2, KinKept
<1>21. CASE GcListsBlobs
  <2>1. /\ run' = run
        /\ gc.stage = "blobs" /\ gc'.stage = "manifest" /\ At \in Runs /\ At \in gc.todo
        /\ gc'.listed = gc.listed /\ gc'.todo = gc.todo \ {At} /\ gc'.tree = gc.tree
        /\ gc'.parent = gc.parent /\ gc'.date = gc.date
    BY <1>21, GcListsBlobsDoes
  <2>2. Reads'
    BY ONLY <2>1, Reads, Types, DescentTyped DEF Reads, Here
  <2> QED
    BY <2>1, <2>2, KinKept
<1>22. CASE GcDecides
  <2>1. /\ run' = run
        /\ gc.stage = "manifest" /\ gc'.stage = "remove" /\ gc.todo = {} /\ gc'.date = gc.date
        /\ gc'.doomed \subseteq gc.listed
        /\ \A r \in gc.listed \ gc'.doomed : gc.parent[r] \notin gc'.doomed
        /\ \A r \in Runs : gc'.tree[r] = (r \in gc'.doomed /\ gc.tree[r])
    BY <1>22, GcDecidesDoes
  <2>3. \A r \in Runs \ gc'.doomed : Here(r) => run[r].parent \notin gc'.doomed
    BY ONLY <2>1, Reads, Types, DescentTyped, Basics DEF Reads
  <2>4. \A r \in Runs : gc'.tree[r] => gc.tree[r]
    BY ONLY <2>1
  <2>2. Reads'
    BY ONLY <2>1, <2>3, <2>4, Reads DEF Reads, Here
  <2> QED
    BY <2>1, <2>2, KinKept
<1>23. CASE GcRemovesRun
  <2> DEFINE n == NextDoomed
  <2>1. /\ gc.stage = "remove" /\ gc'.stage = "tree" /\ n \in gc.doomed /\ n \in Runs
        /\ \A r \in gc.doomed : gc.date[r] <= gc.date[n]
        /\ gc'.doomed = gc.doomed /\ gc'.tree = gc.tree /\ gc'.date = gc.date
        /\ \A s \in Runs : /\ run'[s].manifest = run[s].manifest
                           /\ run'[s].legible = run[s].legible /\ run'[s].parent = run[s].parent
                           /\ run'[s].named = run[s].named /\ run'[s].fork = run[s].fork
                           /\ run'[s].tree = run[s].tree
        /\ \A s \in Runs \ {n} : run'[s].life = run[s].life
        /\ run'[n].life = "removed"
    BY <1>23, GcRemovesRunDoes
  <2>2. NextDoomed' = n /\ run[n].life # "unborn"
    BY <2>1 DEF NextDoomed, Newest, Order, Listed
  <2> HIDE DEF n
  <2>3. ASSUME NEW s \in Runs, Here(s), s # n PROVE run[s].parent # n
    <3> SUFFICES ASSUME run[s].parent = n PROVE FALSE
      OBVIOUS
    <3>1. n < s /\ gc.date[s] = s /\ gc.date[n] = n
      BY <2>1, <2>3, Basics DEF Reads, Kin, Here
    <3>2. s \in gc.doomed
      BY <2>1, <2>3 DEF Reads
    <3>3. s <= n
      BY <3>1, <3>2, <2>1
    <3> QED
      BY <3>1, <3>3, <2>1, Basics
  <2>6. run[n].tree = "none" => run[n].fork
    <3>1. n \in Runs /\ run[n].life \in {"here", "ruin", "removed"}
      BY ONLY <2>1, <2>2, Types, DescentTyped
    <3> QED
      BY ONLY <3>1, Kin DEF Kin, Here
  <2>4. Kin'
    BY ONLY <2>1, <2>2, <2>3, <2>6, Kin, Types, DescentTyped DEF Kin, Here, Opens, Stands
  <2>5. Reads'
    BY ONLY <2>1, <2>2, Reads, Types, DescentTyped DEF Reads, Here
  <2> QED
    BY <2>4, <2>5
<1>28. CASE GcRemovesFile
  <2> DEFINE n == NextDoomed
  <2>1. /\ gc.stage = "remove" /\ gc' = gc /\ n \in gc.doomed /\ n \in Runs
        /\ \A r \in gc.doomed : gc.date[r] <= gc.date[n]
        /\ \A s \in Runs \ {n} : run'[s] = run[s]
        /\ run'[n].parent = run[n].parent /\ run'[n].fork = run[n].fork
        /\ run'[n].tree = run[n].tree /\ run'[n].life = "ruin"
    BY <1>28, GcRemovesFileDoes
  <2>2. run[n].life # "unborn"
    BY <2>1 DEF Order, Listed
  <2> HIDE DEF n
  <2>3. ASSUME NEW s \in Runs, Here(s), s # n PROVE run[s].parent # n
    <3> SUFFICES ASSUME run[s].parent = n PROVE FALSE
      OBVIOUS
    <3>1. n < s /\ gc.date[s] = s /\ gc.date[n] = n
      BY <2>1, <2>3, Basics DEF Reads, Kin, Here
    <3>2. s \in gc.doomed
      BY <2>1, <2>3 DEF Reads
    <3>3. s <= n
      BY <3>1, <3>2, <2>1
    <3> QED
      BY <3>1, <3>3, <2>1, Basics
  <2>6. run[n].tree = "none" => run[n].fork
    <3>1. n \in Runs /\ run[n].life \in {"here", "ruin", "removed"}
      BY ONLY <2>1, <2>2, Types, DescentTyped
    <3> QED
      BY ONLY <3>1, Kin DEF Kin, Here
  <2>4. Kin'
    BY ONLY <2>1, <2>2, <2>3, <2>6, Kin, Types, DescentTyped DEF Kin, Here, Opens, Stands
  <2>5. Reads'
    BY ONLY <2>1, <2>2, Reads, Types, DescentTyped DEF Reads, Here
  <2> QED
    BY <2>4, <2>5
<1>24. CASE GcRemovesTree
  <2> DEFINE n == NextDoomed
  <2>1. /\ gc.stage = "tree" /\ gc'.stage = "remove" /\ n \in gc.doomed /\ n \in Runs
        /\ gc'.doomed = gc.doomed \ {n} /\ gc'.tree = gc.tree /\ gc'.date = gc.date
        /\ \A s \in Runs : /\ run'[s].manifest = run[s].manifest
                           /\ run'[s].legible = run[s].legible /\ run'[s].parent = run[s].parent
                           /\ run'[s].named = run[s].named /\ run'[s].fork = run[s].fork
                           /\ run'[s].life = run[s].life
        /\ \A s \in Runs \ {n} : run'[s].tree = run[s].tree
        /\ ~ gc.tree[n] => run'[n].tree = run[n].tree
    BY <1>24, GcRemovesTreeDoes
  <2>2. run[n].life \in {"removed", "ruin"}
    BY <2>1 DEF Reads
  <2>3. gc.tree[n] => run[n].fork
    BY <2>1 DEF Reads
  <2> HIDE DEF n
  <2>4. Kin'
    BY ONLY <2>1, <2>2, <2>3, Kin, Types, DescentTyped DEF Kin, Here, Opens, Stands
  <2>5. Reads'
    BY ONLY <2>1, <2>2, Reads, Types, DescentTyped DEF Reads, Here
  <2> QED
    BY <2>4, <2>5
<1>25. ASSUME NEW r \in Runs, NEW c \in Contents, GcUnlinks(r, c)
      PROVE  Descent'
  <2>1. /\ gc.stage = "remove" /\ gc'.stage = "remove" /\ gc'.doomed = {} /\ gc.doomed = {}
        /\ gc'.tree = gc.tree /\ gc'.date = gc.date /\ \A s \in Runs : SameKin(s)
    BY <1>25, GcUnlinksDoes
  <2>2. Kin'
    BY ONLY <2>1, Kin, Types, DescentTyped DEF Kin, Here, Opens, Stands, SameKin
  <2>3. Reads'
    BY ONLY <2>1, Reads, Types, DescentTyped DEF Reads, Here, SameKin
  <2> QED
    BY <2>2, <2>3
<1>26. CASE GcFinishes \/ GcDies
  <2>1. run' = run /\ gc'.stage = "idle"
    BY <1>26, GcEndsDoes
  <2>2. Reads'
    BY ONLY <2>1 DEF Reads
  <2> QED
    BY <2>1, <2>2, KinKept
<1>27. CASE UNCHANGED storeVars
  <2>1. DescentStill
    BY <1>27 DEF storeVars, DescentStill, SameKin
  <2> QED
    BY <2>1, DescentKept
<1> QED
  BY <1>1, <1>2, <1>3, <1>4, <1>5, <1>6, <1>7, <1>8, <1>9, <1>10, <1>11, <1>12, <1>13, <1>14,
     <1>15, <1>16, <1>17, <1>18, <1>19, <1>20, <1>21, <1>22, <1>23, <1>24, <1>25, <1>26, <1>27,
     <1>28 DEF StoreNext, RecordNext, ScrubNext, GcNext

\* gc never leaves a run without the run it was forked from, its manifest and its
\* events, nor without the directory it ran in, wherever gc is killed, inside the
\* rm of a run included, and whatever ruins it meets; and takes the directory of a
\* fork alone, as long as no run is forked while it is at work.
THEOREM StoreProvenance == ~ Overlap /\ StoreSpec => []Provenance
<1> SUFFICES ASSUME ~ Overlap PROVE StoreSpec => []Provenance
  OBVIOUS
<1>1. Descent => Provenance
  BY DEF Descent, Kin, Provenance, Here
<1> QED
  BY StoreInitTypes, StoreInitOrder, StoreInitDescent, TypesStep, OrderStep, DescentStep, <1>1,
     PTL
     DEF StoreSpec

-----------------------------------------------------------------------------
(* What a scrub that says nothing is left has found and rewritten.          *)

\* A scrub that knows which blobs to rewrite.
Searching == {"events", "aside", "commit", "manifest", "unlink"}

\* Every blob of the run that holds material will be unlinked, and nothing that
\* will be put holds any.
FoundBlobs ==
  scrub.stage \in Searching =>
    /\ \A b \in scrub.puts : ~ Material(b)
    /\ ~ scrub.warned =>
         \A b \in run[scrub.run].blobs \ Binary : Material(b) => b \in scrub.stale
\* Every partial write that holds material will be rewritten in place.
FoundPartial ==
  /\ scrub.stage \in Searching =>
       \A p \in run[scrub.run].partial \ Binary : Material(p) => p \in scrub.inPlace
  /\ scrub.stage \in {"manifest", "unlink"} => scrub.inPlace = {}
CleanLines(lines) == \A i \in DOMAIN lines : ~ Material(lines[i].text)
FoundLines ==
  /\ scrub.stage \in Planned /\ ~ scrub.warned => CleanLines(scrub.lines)
  /\ scrub.stage = "unlink" => ~ Material(run[scrub.run].words)
\* Nothing was found in what a scrub does not rewrite.
FoundBeside ==
  scrub.stage \in {"commit", "manifest", "unlink"} /\ ~ scrub.warned =>
    run[scrub.run].aside # "holds" /\ run[scrub.run].snapshots # "holds"

Clear == FoundBlobs /\ FoundPartial /\ FoundLines /\ FoundBeside /\ ClearMeansClear

LEMMA ScrubbedIsClean ==
  ASSUME NEW c \in Contents
  PROVE  Scrubbed[c] \in Contents /\ ~ Material(Scrubbed[c])
BY Basics DEF Material

LEMMA IdleIsClear ==
  ASSUME scrub'.stage \in {"idle", "blobs"}
  PROVE  Clear'
<1>1. FoundBlobs' /\ FoundPartial'
  BY DEF FoundBlobs, FoundPartial, Searching
<1>2. FoundLines' /\ FoundBeside'
  BY DEF FoundLines, FoundBeside, Planned
<1>3. ClearMeansClear'
  BY DEF ClearMeansClear
<1> QED
  BY <1>1, <1>2, <1>3 DEF Clear

\* A recording or a gc that is at work has no scrub beside it.
LEMMA BesideAnother ==
  ASSUME Order, scrub' = scrub, gc.stage # "idle" \/ rec.run # None \/ scrub.stage = "idle"
  PROVE  Clear'
<1>1. scrub'.stage = "idle"
  BY DEF Order, Alone
<1> QED
  BY <1>1, IdleIsClear

LEMMA StoreInitClear == StoreInit => Clear
<1> SUFFICES ASSUME StoreInit PROVE Clear
  OBVIOUS
<1>1. scrub.stage = "idle"
  BY DEF StoreInit, NoScrub
<1> QED
  BY <1>1 DEF Clear, FoundBlobs, FoundPartial, FoundLines, FoundBeside, ClearMeansClear,
              Searching, Planned

LEMMA ClearStep ==
  ASSUME ~ Overlap, Types, Order, Trust, Clear, [StoreNext]_storeVars
  PROVE  Clear'
<1> USE DEF Clear
<1>1. ASSUME NEW r \in Runs, NEW parent \in Runs \union {None}, StartRun(r, parent)
      PROVE  Clear'
  BY <1>1, BesideAnother DEF StartRun, ScrubIdle
<1>2. ASSUME NEW c \in Contents, PutBlob(c)
      PROVE  Clear'
  BY <1>2, BesideAnother DEF PutBlob, Recording
<1>3. ASSUME NEW line \in Recordable, AppendLine(line)
      PROVE  Clear'
  BY <1>3, BesideAnother DEF AppendLine, Recording
<1>4. CASE SealRun
  BY <1>4, BesideAnother DEF SealRun, Recording
<1>5. CASE RecordingDies
  BY <1>5, BesideAnother DEF RecordingDies, Recording
<1>6. CASE RecordingLosesRun
  BY <1>6, BesideAnother DEF RecordingLosesRun, Recording
<1>7. ASSUME NEW r \in Runs, NEW dry \in BOOLEAN, NEW drop \in BOOLEAN, ScrubStarts(r, dry,
             drop)
      PROVE  Clear'
  BY <1>7, ScrubStartsDoes, IdleIsClear
<1>8. ASSUME NEW unread \in SUBSET Contents, ScrubReadsBlobs(unread)
      PROVE  Clear'
  <2> DEFINE moved == Searched(scrub.run, unread)
  <2>1. /\ scrub.run \in Runs /\ scrub'.stage = "events" /\ scrub'.run = scrub.run /\ run' = run
        /\ scrub'.stale = Stale(moved) /\ scrub'.puts = {Scrubbed[b] : b \in moved}
        /\ scrub'.inPlace = {p \in run[scrub.run].partial : p \notin Binary /\ Material(p)}
        /\ scrub'.warned = (unread # {})
    BY <1>8, ScrubReadsBlobsDoes DEF SameScrub
  <2>2. run[scrub.run].blobs \subseteq Contents
    BY <2>1, FieldsTyped DEF Types
  <2>3. moved \subseteq Contents /\ \A b \in moved : Material(b)
    BY <2>2 DEF Searched
  <2>4. \A b \in scrub'.puts : ~ Material(b)
    BY <2>1, <2>3, ScrubbedIsClean
  <2>5. unread = {} => \A b \in run[scrub.run].blobs \ Binary : Material(b) =>
        b \in Stale(moved)
    <3>1. unread = {} => \A b \in run[scrub.run].blobs \ Binary : Material(b) => b \in moved
      BY DEF Searched
    <3>2. \A b \in moved : b \notin {Scrubbed[c] : c \in moved}
      BY <2>3, ScrubbedIsClean
    <3> QED
      BY ONLY <3>1, <3>2 DEF Stale
  <2> HIDE DEF moved
  <2>6. FoundBlobs'
    BY ONLY <2>1, <2>4, <2>5, ZenonT(60) DEF FoundBlobs, Material
  <2>7. FoundPartial'
    BY ONLY <2>1 DEF FoundPartial, Material
  <2>8. FoundLines' /\ FoundBeside' /\ ClearMeansClear'
    BY ONLY <2>1 DEF FoundLines, FoundBeside, ClearMeansClear, Planned
  <2> QED
    BY <2>6, <2>7, <2>8
<1>9. CASE ScrubReadsEvents
  <2> DEFINE lines == run[scrub.run].lines
  <2>1. /\ scrub.run \in Runs /\ scrub.stage = "events" /\ scrub'.stage = "aside"
        /\ scrub'.run = scrub.run /\ run' = run
        /\ scrub'.puts = scrub.puts /\ scrub'.stale = scrub.stale
        /\ scrub'.inPlace = scrub.inPlace
        /\ scrub'.lines = [i \in DOMAIN lines |-> Retarget(lines[i])]
        /\ ~ scrub'.warned =>
              ~ scrub.warned /\ \A i \in DOMAIN lines : lines[i].text \notin Fragile
    BY <1>9, ScrubReadsEventsDoes DEF SameScrub
  <2>2. lines \in Seq(Line)
    BY <2>1, FieldsTyped DEF Types
  <2>3. \A i \in DOMAIN lines : lines[i].text \in Contents
    <3>1. \A i \in DOMAIN lines : lines[i] \in Line
      BY <2>2
    <3> QED
      BY <3>1 DEF Line
  <2> HIDE DEF lines
  <2>4. ~ scrub'.warned => CleanLines(scrub'.lines)
    <3>1. \A i \in DOMAIN lines : lines[i].text \notin Fragile =>
            Retarget(lines[i]).text = Scrubbed[lines[i].text]
      BY DEF Retarget, Kept
    <3>2. \A i \in DOMAIN lines : lines[i].text \notin Fragile =>
            ~ Material(Retarget(lines[i]).text)
      BY <3>1, <2>3, ScrubbedIsClean
    <3>3. DOMAIN scrub'.lines = DOMAIN lines
          /\ \A i \in DOMAIN lines : scrub'.lines[i] = Retarget(lines[i])
      BY <2>1
    <3> QED
      BY ONLY <2>1, <3>2, <3>3 DEF CleanLines
  <2>5. FoundBlobs' /\ FoundPartial'
    BY ONLY <2>1, FoundBlobs, FoundPartial DEF FoundBlobs, FoundPartial, Searching, Material
  <2>6. FoundLines'
    BY ONLY <2>1, <2>4 DEF FoundLines, CleanLines, Material
  <2>7. FoundBeside' /\ ClearMeansClear'
    BY ONLY <2>1 DEF FoundBeside, ClearMeansClear
  <2> QED
    BY <2>5, <2>6, <2>7
<1>10. CASE ScrubLooksAside
  <2>1. /\ scrub.run \in Runs /\ scrub.stage = "aside" /\ scrub'.run = scrub.run
        /\ \A s \in Runs : /\ SameText(s) /\ SameBlobs(s) /\ run'[s].aside = run[s].aside
        /\ scrub'.dry = scrub.dry /\ (scrub.dry => scrub'.stage = "told")
    BY <1>10, ScrubLooksAsideDoes
  <2>2. CASE scrub.dry
    BY <2>1, <2>2 DEF FoundBlobs, FoundPartial, FoundLines, FoundBeside, ClearMeansClear,
                      Searching, Planned
  <2>3. CASE ~ scrub.dry
    <3>1. /\ scrub'.stage = "commit" /\ scrub'.puts = scrub.puts
          /\ scrub'.stale = scrub.stale /\ scrub'.inPlace = scrub.inPlace
          /\ scrub'.lines = scrub.lines
          /\ ~ scrub'.warned => /\ ~ scrub.warned /\ ~ AsideSuspect(scrub.run)
                                /\ ~ SnapshotsSuspect(run'[scrub.run].snapshots)
      BY <2>3, <1>10, ScrubLooksAsideDoes
    <3>2. FoundBlobs' /\ FoundPartial'
      BY ONLY <2>1, <3>1, FoundBlobs, FoundPartial
         DEF FoundBlobs, FoundPartial, Searching, Material, SameBlobs
    <3>3. FoundLines'
      BY ONLY <2>1, <3>1, FoundLines DEF FoundLines, CleanLines, Material, Planned
    <3>4. FoundBeside'
      BY ONLY <2>1, <3>1 DEF FoundBeside, AsideSuspect, SnapshotsSuspect
    <3>5. ClearMeansClear'
      BY ONLY <3>1 DEF ClearMeansClear
    <3> QED
      BY <3>2, <3>3, <3>4, <3>5
  <2> QED
    BY <2>2, <2>3
<1>11. ASSUME NEW c \in Contents, CommitBlob(c)
      PROVE  Clear'
  <2>1. /\ scrub.run \in Runs /\ scrub.stage = "commit" /\ scrub'.stage = "commit"
        /\ scrub'.run = scrub.run /\ SameBeside(scrub.run)
        /\ run'[scrub.run].partial = run[scrub.run].partial
        /\ run'[scrub.run].blobs = run[scrub.run].blobs \union {c}
        /\ c \in scrub.puts /\ scrub'.puts = scrub.puts \ {c}
        /\ scrub'.stale = scrub.stale /\ scrub'.inPlace = scrub.inPlace
        /\ scrub'.lines = scrub.lines /\ scrub'.warned = scrub.warned
    BY <1>11, CommitBlobDoes DEF SameScrub
  <2>2. FoundBlobs' /\ FoundPartial'
    BY ONLY <2>1, FoundBlobs, FoundPartial DEF FoundBlobs, FoundPartial, Searching, Material
  <2>3. FoundLines'
    BY ONLY <2>1, FoundLines DEF FoundLines, CleanLines, Material, Planned
  <2>4. FoundBeside' /\ ClearMeansClear'
    BY ONLY <2>1, FoundBeside DEF FoundBeside, ClearMeansClear, SameBeside
  <2> QED
    BY <2>2, <2>3, <2>4
<1>12. ASSUME NEW c \in Contents, CommitInPlace(c)
      PROVE  Clear'
  <2>1. /\ scrub.run \in Runs /\ scrub.stage = "commit" /\ scrub'.stage = "commit"
        /\ scrub'.run = scrub.run /\ SameBeside(scrub.run)
        /\ run'[scrub.run].blobs = run[scrub.run].blobs
        /\ run'[scrub.run].partial = (run[scrub.run].partial \ {c}) \union {Scrubbed[c]}
        /\ scrub'.inPlace = scrub.inPlace \ {c}
        /\ scrub'.puts = scrub.puts /\ scrub'.stale = scrub.stale
        /\ scrub'.lines = scrub.lines /\ scrub'.warned = scrub.warned
    BY <1>12, CommitInPlaceDoes DEF SameScrub
  <2>2. ~ Material(Scrubbed[c])
    BY <1>12, ScrubbedIsClean
  <2>3. FoundBlobs'
    BY ONLY <2>1, FoundBlobs DEF FoundBlobs, Searching, Material
  <2>4. FoundPartial'
    BY ONLY <2>1, <2>2, FoundPartial DEF FoundPartial, Searching, Material
  <2>5. FoundLines'
    BY ONLY <2>1, FoundLines DEF FoundLines, CleanLines, Material, Planned
  <2>6. FoundBeside' /\ ClearMeansClear'
    BY ONLY <2>1, FoundBeside DEF FoundBeside, ClearMeansClear, SameBeside
  <2> QED
    BY <2>3, <2>4, <2>5, <2>6
<1>13. CASE CommitEvents
  <2>1. /\ scrub.run \in Runs /\ scrub.stage = "commit" /\ scrub'.stage = "manifest"
        /\ scrub'.run = scrub.run /\ SameBeside(scrub.run) /\ SameBlobs(scrub.run)
        /\ scrub.puts = {} /\ scrub.inPlace = {} /\ scrub'.puts = {} /\ scrub'.inPlace = {}
        /\ scrub'.stale = scrub.stale
        /\ scrub'.lines = scrub.lines /\ scrub'.warned = scrub.warned
    BY <1>13, CommitEventsDoes DEF SameScrub
  <2>2. FoundBlobs' /\ FoundPartial'
    BY ONLY <2>1, FoundBlobs, FoundPartial
       DEF FoundBlobs, FoundPartial, Searching, Material, SameBlobs
  <2>3. FoundLines'
    BY ONLY <2>1, FoundLines DEF FoundLines, CleanLines, Material, Planned
  <2>4. FoundBeside' /\ ClearMeansClear'
    BY ONLY <2>1, FoundBeside DEF FoundBeside, ClearMeansClear, SameBeside
  <2> QED
    BY <2>2, <2>3, <2>4
<1>14. CASE CommitManifest
  <2>1. /\ scrub.run \in Runs /\ scrub.stage = "manifest" /\ scrub'.stage = "unlink"
        /\ scrub'.run = scrub.run /\ SameBeside(scrub.run) /\ SameBlobs(scrub.run)
        /\ run'[scrub.run].words = Scrubbed[scrub.words] /\ scrub.words \in Contents
        /\ scrub'.puts = scrub.puts /\ scrub'.inPlace = scrub.inPlace
        /\ scrub'.stale = scrub.stale
        /\ scrub'.lines = scrub.lines /\ scrub'.warned = scrub.warned
    BY <1>14, CommitManifestDoes DEF SameScrub
  <2>2. ~ Material(Scrubbed[scrub.words])
    BY <2>1, ScrubbedIsClean
  <2>3. FoundBlobs' /\ FoundPartial'
    BY ONLY <2>1, FoundBlobs, FoundPartial
       DEF FoundBlobs, FoundPartial, Searching, Material, SameBlobs
  <2>4. FoundLines'
    BY ONLY <2>1, <2>2, FoundLines DEF FoundLines, CleanLines, Material, Planned
  <2>5. FoundBeside' /\ ClearMeansClear'
    BY ONLY <2>1, FoundBeside DEF FoundBeside, ClearMeansClear, SameBeside
  <2> QED
    BY <2>3, <2>4, <2>5
<1>15. ASSUME NEW c \in Contents, UnlinkStale(c)
      PROVE  Clear'
  <2>1. /\ scrub.run \in Runs /\ scrub.stage = "unlink" /\ scrub'.stage = "unlink"
        /\ scrub'.run = scrub.run /\ SameBeside(scrub.run) /\ SameText(scrub.run)
        /\ run'[scrub.run].partial = run[scrub.run].partial
        /\ run'[scrub.run].blobs = run[scrub.run].blobs \ {c}
        /\ scrub'.stale = scrub.stale \ {c}
        /\ scrub'.puts = scrub.puts /\ scrub'.inPlace = scrub.inPlace
        /\ scrub'.lines = scrub.lines /\ scrub'.warned = scrub.warned
    BY <1>15, UnlinkStaleDoes DEF SameScrub
  <2>2. FoundBlobs' /\ FoundPartial'
    BY ONLY <2>1, FoundBlobs, FoundPartial DEF FoundBlobs, FoundPartial, Searching, Material
  <2>3. FoundLines'
    BY ONLY <2>1, FoundLines DEF FoundLines, CleanLines, Material, Planned, SameText
  <2>4. FoundBeside' /\ ClearMeansClear'
    BY ONLY <2>1, FoundBeside DEF FoundBeside, ClearMeansClear, SameBeside
  <2> QED
    BY <2>2, <2>3, <2>4
<1>16. CASE ScrubReports
  <2>1. /\ scrub.stage = "unlink" /\ scrub.stale = {} /\ scrub'.stage = "told" /\ run' = run
        /\ scrub'.run = scrub.run /\ scrub'.dry = scrub.dry /\ scrub'.warned = scrub.warned
    BY <1>16, ScrubReportsDoes
  <2>2. run[scrub.run].lines = scrub.lines
    BY <2>1 DEF Trust, ScrubPlan
  <2>3. ~ scrub.warned => ~ Holds(scrub.run)
    <3>1. ~ scrub.warned => \A b \in run[scrub.run].blobs \ Binary : ~ Material(b)
      BY ONLY <2>1, FoundBlobs DEF FoundBlobs, Searching
    <3>2. \A p \in run[scrub.run].partial \ Binary : ~ Material(p)
      BY ONLY <2>1, FoundPartial DEF FoundPartial, Searching
    <3>3. ~ Material(run[scrub.run].words)
          /\ (~ scrub.warned => CleanLines(run[scrub.run].lines))
      BY ONLY <2>1, <2>2, FoundLines DEF FoundLines, Planned
    <3>4. ~ scrub.warned => run[scrub.run].aside # "holds" /\ run[scrub.run].snapshots # "holds"
      BY ONLY <2>1, FoundBeside DEF FoundBeside
    <3> QED
      BY ONLY <3>1, <3>2, <3>3, <3>4 DEF Holds, CleanLines
  <2>4. ClearMeansClear'
    BY ONLY <2>1, <2>3 DEF ClearMeansClear, Holds, Material
  <2>5. FoundBlobs' /\ FoundPartial' /\ FoundLines' /\ FoundBeside'
    BY ONLY <2>1 DEF FoundBlobs, FoundPartial, FoundLines, FoundBeside, Searching, Planned
  <2> QED
    BY <2>4, <2>5
<1>17. CASE ScrubExits \/ ScrubDies
  BY <1>17, ScrubEndsDoes, IdleIsClear DEF NoScrub
<1>18. ASSUME NEW floor \in {0} \union {r + 1 : r \in Runs}, GcStarts(floor)
      PROVE  Clear'
  BY <1>18, BesideAnother DEF GcStarts, ScrubIdle
<1>19. CASE GcReadsManifest
  BY <1>19, GcReadsManifestDoes, BesideAnother DEF BesideGcStill
<1>20. CASE GcReadsEvents
  BY <1>20, GcReadsEventsDoes, BesideAnother DEF BesideGcStill
<1>21. CASE GcListsBlobs
  BY <1>21, GcListsBlobsDoes, BesideAnother DEF BesideGcStill
<1>22. CASE GcDecides
  BY <1>22, GcDecidesDoes, BesideAnother DEF BesideGcStill
<1>23. CASE GcRemovesRun
  BY <1>23, GcRemovesRunDoes, BesideAnother DEF BesideGcStill
<1>24. CASE GcRemovesTree
  BY <1>24, GcRemovesTreeDoes, BesideAnother DEF BesideGcStill
<1>28. CASE GcRemovesFile
  BY <1>28, GcRemovesFileDoes, BesideAnother DEF BesideGcStill
<1>25. ASSUME NEW r \in Runs, NEW c \in Contents, GcUnlinks(r, c)
      PROVE  Clear'
  BY <1>25, GcUnlinksDoes, BesideAnother DEF BesideGcStill
<1>26. CASE GcFinishes \/ GcDies
  BY <1>26, GcEndsDoes, BesideAnother DEF GcFinishes, GcDies, GcIdle
<1>27. CASE UNCHANGED storeVars
  <2>1. run' = run /\ scrub' = scrub
    BY <1>27 DEF storeVars
  <2>2. /\ FoundBlobs' = FoundBlobs /\ FoundPartial' = FoundPartial
        /\ FoundLines' = FoundLines /\ FoundBeside' = FoundBeside
        /\ ClearMeansClear' = ClearMeansClear
    BY <2>1 DEF FoundBlobs, FoundPartial, FoundLines, FoundBeside, ClearMeansClear, CleanLines,
                Holds, Stands
  <2> QED
    BY <2>2
<1> QED
  BY <1>1, <1>2, <1>3, <1>4, <1>5, <1>6, <1>7, <1>8, <1>9, <1>10, <1>11, <1>12, <1>13, <1>14,
     <1>15, <1>16, <1>17, <1>18, <1>19, <1>20, <1>21, <1>22, <1>23, <1>24, <1>25, <1>26, <1>27,
     <1>28 DEF StoreNext, RecordNext, ScrubNext, GcNext

\* A scrub that ends by saying nothing is left, left nothing it can search, as
\* long as nothing else was at work in the run: in no line, manifest, text blob,
\* partial write, other file of the run or snapshot.
THEOREM StoreClear == ~ Overlap /\ StoreSpec => []ClearMeansClear
<1> SUFFICES ASSUME ~ Overlap PROVE StoreSpec => []ClearMeansClear
  OBVIOUS
<1>1. Clear => ClearMeansClear
  BY DEF Clear
<1> QED
  BY StoreInitTypes, StoreInitOrder, StoreInitTrust, StoreInitClear,
     TypesStep, OrderStep, TrustStep, ClearStep, <1>1, PTL DEF StoreSpec

=============================================================================
