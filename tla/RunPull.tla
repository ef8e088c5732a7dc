------------------------------- MODULE RunPull -------------------------------
(***************************************************************************)
(* pull: a gateway's copy of a run replaces the local one.  pullCommand,   *)
(* recoverInterruptedSwap, stageRunEntries, swapStagedRun and              *)
(* revertStagedSwap of packages/cli/src/commands/sync.ts, inside the lock  *)
(* of RunLock.                                                             *)
(*                                                                         *)
(* The copy is staged in <run>.incoming, the old run moved to              *)
(* <run>.replaced and the new one into place; the names are shared by all  *)
(* pulls of the run, so that what a killed one left can be finished by the *)
(* next.  A directory maps each block of 256 archive entries to the copy   *)
(* it came from.                                                           *)
(***************************************************************************)
EXTENDS RunLock, Sequences

CONSTANTS
  Local,      \* the copy that was recorded here
  Blocks      \* blocks of 256 entries in an archive

ASSUME PullAssumption ==
  /\ Local \notin Pulls \union {NoOne} /\ Blocks \in Nat \ {0}

VARIABLES
  step,       \* how far a session has come under the lock
  todo,       \* the mutations its recovery still has to make
  existing,   \* the pull found a local run
  moved,      \* it has moved that run aside (movedAside of swapStagedRun)
  block,      \* the block it writes next
  dirs,       \* the three directories
  had,        \* history: there has been a run to lose
  orderly     \* history: nothing was cut short and no two sessions worked at once

sessionVars == <<step, todo, existing, moved, block>>
pullVars == <<lockVars, sessionVars, dirs, had, orderly>>

Names == {"dest", "incoming", "replaced"}
Missing == << >>                           \* a directory that is not there
Empty == [b \in 1..Blocks |-> NoOne]       \* one in which nothing is written
Copies == Pulls \union {Local}
WholeCopy(c) == [b \in 1..Blocks |-> c]
Directories == [1..Blocks -> Copies \union {NoOne}] \union {Missing}
IsWhole(dir) == \E c \in Copies : dir = WholeCopy(c)

There(name) == dirs[name] # Missing

Ended == {"done", "failed", "unclean"}

\* A session at one of the steps, with its lock or without knowing better.
Working(p, label) == at[p] = "in" /\ step[p] = label
To(p, label) == step' = [step EXCEPT ![p] = label]

\* The directories are worked on, the lock and its files are not.
LockAlone == UNCHANGED <<at, lock, aside, litter, stale, touching>>

Put(name, dir) ==
  /\ dirs' = [dirs EXCEPT ![name] = dir]
  /\ had' = (had \/ (name = "dest" /\ dir # Missing))

SameDirs == UNCHANGED <<dirs, had>>
SamePlan == UNCHANGED <<todo, existing, moved, block>>

-----------------------------------------------------------------------------
(* File operations. *)

\* rename() of a directory over a missing or an empty one.
CanRename(from, to) == There(from) /\ dirs[to] \in {Missing, Empty}

Rename(from, to) ==
  /\ CanRename(from, to)
  /\ dirs' = [dirs EXCEPT ![to] = dirs[from], ![from] = Missing]
  /\ had' = (had \/ to = "dest")
  /\ Fine

RenameFails(from, to) ==
  /\ SameDirs
  /\ IF CanRename(from, to) THEN Trouble ELSE Fine

\* rm -r takes one block after the other away, then the directory.
RemoveSome(name) ==
  /\ \E b \in DOMAIN dirs[name] :
       /\ dirs[name][b] # NoOne
       /\ Put(name, [dirs[name] EXCEPT ![b] = NoOne])
  /\ Fine

RemoveLast(name) ==
  /\ dirs[name] \in {Missing, Empty}
  /\ Put(name, Missing)
  /\ Fine

RemoveFails(name) ==
  /\ There(name)
  /\ SameDirs
  /\ Trouble

-----------------------------------------------------------------------------
(* stillHeld(): where a session goes when the lock is its own, and when not. *)

\* The early recovery, before the download, is a session of its own.
AfterRecovery == {"start", "done"}

Probe(p, label, held, lost) ==
  /\ Working(p, label)
  /\ \/ StillHeld(p) /\ To(p, held) /\ Fine
     \/ ~ StillHeld(p) /\ To(p, lost) /\ Fine
     \/ StillHeld(p) /\ To(p, lost) /\ Trouble   \* the lock could not be read
  /\ SamePlan /\ SameDirs
  /\ LockAlone

Asks(p) ==
  \/ \E next \in AfterRecovery : Probe(p, "recover", "look", next)
  \/ Probe(p, "start", "exists", "failed")
  \/ Probe(p, "stage", "mkdir", "revert")
  \/ Probe(p, "more", "write", "revert")
  \/ Probe(p, "swap", IF existing[p] THEN "moveAside" ELSE "install?", "revert")
  \/ Probe(p, "install?", "install", "undo")
  \/ Probe(p, "revert", "remove", "failed")

-----------------------------------------------------------------------------
(* recoverInterruptedSwap. *)

\* Fault: the newest wins, whether anything proves it whole or not.
PlanNewest ==
  IF There("dest") THEN <<"drop incoming", "drop replaced">>
  ELSE IF There("incoming") THEN <<"promote incoming", "drop replaced if installed">>
  ELSE IF There("replaced") THEN <<"promote replaced">>
  ELSE << >>

RecoveryPlan ==
  IF There("dest") THEN <<"drop incoming", "drop replaced">>
  ELSE IF There("incoming") /\ There("replaced")
    THEN <<"promote incoming", "drop replaced if installed">>
  ELSE IF There("replaced") THEN <<"promote replaced">>
  ELSE IF There("incoming") THEN <<"drop incoming">>
  ELSE << >>

\* The three stat() calls of one Promise.all.
Look(p) ==
  /\ Working(p, "look")
  /\ todo' = [todo EXCEPT ![p] = RecoveryPlan]
  /\ To(p, "tidy")
  /\ SameDirs /\ Fine
  /\ LockAlone /\ UNCHANGED <<existing, moved, block>>

Skip(p) == todo' = [todo EXCEPT ![p] = Tail(@)] /\ To(p, "tidy")

\* Each mutation asks for the lock again.
Tidy(p) ==
  /\ Working(p, "tidy")
  /\ IF todo[p] = << >> THEN UNCHANGED todo /\ \E next \in AfterRecovery : To(p, next)
     ELSE IF Head(todo[p]) = "drop replaced if installed" /\ There("dest")
       THEN To(p, "tidy") /\ todo' = [todo EXCEPT ![p] = <<"drop replaced">>]
     ELSE IF StillHeld(p) /\ Head(todo[p]) # "drop replaced if installed"
       THEN To(p, "mutate") /\ UNCHANGED todo
     ELSE Skip(p)
  /\ SameDirs /\ Fine
  /\ LockAlone /\ UNCHANGED <<existing, moved, block>>

Drop(p, name) ==
  \/ RemoveSome(name) /\ UNCHANGED <<todo, step>>
  \/ RemoveLast(name) /\ Skip(p)
  \/ RemoveFails(name) /\ Skip(p)

Promote(p, name) ==
  /\ Rename(name, "dest") \/ RenameFails(name, "dest")
  /\ Skip(p)

Mutate(p) ==
  /\ Working(p, "mutate")
  /\ \/ Head(todo[p]) = "drop incoming" /\ Drop(p, "incoming")
     \/ Head(todo[p]) = "drop replaced" /\ Drop(p, "replaced")
     \/ Head(todo[p]) = "promote incoming" /\ Promote(p, "incoming")
     \/ Head(todo[p]) = "promote replaced" /\ Promote(p, "replaced")
  /\ LockAlone /\ UNCHANGED <<existing, moved, block>>

-----------------------------------------------------------------------------
(* pullCommand and stageRunEntries. *)

Exists(p) ==
  /\ Working(p, "exists")
  /\ existing' = [existing EXCEPT ![p] = There("dest")]
  /\ \E force \in BOOLEAN :
       To(p, IF There("dest") /\ ~ force THEN "failed" ELSE "stage")
  /\ SameDirs /\ Fine
  /\ LockAlone /\ UNCHANGED <<todo, moved, block>>

\* mkdir with recursive: a directory that is there stays as it is.
MakeStaging(p) ==
  /\ Working(p, "mkdir")
  /\ \/ /\ IF There("incoming") THEN SameDirs ELSE Put("incoming", Empty)
        /\ Fine /\ To(p, "write")
     \/ SameDirs /\ Trouble /\ To(p, "revert")
  /\ SamePlan
  /\ LockAlone

\* Fault: the loop runs once too often.
WritePastEnd(p) ==
  /\ Put("incoming", WholeCopy(p))
  /\ Fine
  /\ block' = [block EXCEPT ![p] = @ + 1]
  /\ To(p, IF block[p] > Blocks THEN "verify" ELSE "more")

Write(p) ==
  LET staged == IF There("incoming") THEN dirs["incoming"] ELSE Empty
  IN  /\ Put("incoming", [staged EXCEPT ![block[p]] = p])
      /\ Fine
      /\ block' = [block EXCEPT ![p] = @ + 1]
      /\ To(p, IF block[p] = Blocks THEN "verify" ELSE "more")

Stage(p) ==
  /\ Working(p, "write")
  /\ \/ Write(p)
     \/ SameDirs /\ Trouble /\ UNCHANGED block /\ To(p, "revert")
  /\ LockAlone /\ UNCHANGED <<todo, existing, moved>>

\* verifyStaged throws when the archive was damaged on its way.
Verify(p) ==
  /\ Working(p, "verify")
  /\ \/ Fine /\ To(p, "swap")
     \/ Trouble /\ To(p, "revert")
  /\ SamePlan /\ SameDirs
  /\ LockAlone

-----------------------------------------------------------------------------
(* swapStagedRun, revertStagedSwap and what is left to remove. *)

MoveAside(p) ==
  /\ Working(p, "moveAside")
  /\ \/ /\ Rename("dest", "replaced")
        /\ moved' = [moved EXCEPT ![p] = TRUE]
        /\ To(p, "install?")
     \/ /\ RenameFails("dest", "replaced")
        /\ UNCHANGED moved
        /\ To(p, "revert")
  /\ LockAlone /\ UNCHANGED <<todo, existing, block>>

Install(p) ==
  /\ Working(p, "install")
  /\ \/ Rename("incoming", "dest") /\ To(p, "clean")
     \/ RenameFails("incoming", "dest") /\ To(p, "undo")
  /\ SamePlan
  /\ LockAlone

\* Fault: only what was thrown by the probe is undone by the caller, whose
\* movedAside is still false.
UndoNothing(p) ==
  /\ Working(p, "undo")
  /\ To(p, "revert")
  /\ SamePlan /\ SameDirs /\ Fine
  /\ LockAlone

Undo(p) ==
  /\ Working(p, "undo")
  /\ IF moved[p]
       THEN Rename("replaced", "dest") \/ RenameFails("replaced", "dest")
       ELSE SameDirs /\ Fine
  /\ To(p, "revert")
  /\ SamePlan
  /\ LockAlone

\* The caller's movedAside is never true here: swapStagedRun threw.
Revert(p) ==
  /\ Working(p, "remove")
  /\ \/ RemoveSome("incoming") /\ UNCHANGED step
     \/ RemoveLast("incoming") /\ To(p, "failed")
     \/ RemoveFails("incoming") /\ To(p, "failed")
  /\ SamePlan
  /\ LockAlone

\* Fault: the old copy could not be removed, and nobody is told.
CleanQuietly(p) ==
  /\ Working(p, "clean")
  /\ \/ RemoveSome("replaced") /\ UNCHANGED step
     \/ (RemoveLast("replaced") \/ RemoveFails("replaced")) /\ To(p, "done")
  /\ SamePlan
  /\ LockAlone

\* The last rm asks for no lock, and its failure fails a pull that is done.
Clean(p) ==
  /\ Working(p, "clean")
  /\ \/ RemoveSome("replaced") /\ UNCHANGED step
     \/ RemoveLast("replaced") /\ To(p, "done")
     \/ RemoveFails("replaced") /\ To(p, "unclean")
  /\ SamePlan
  /\ LockAlone

-----------------------------------------------------------------------------

Store(d, i, r) ==
  [n \in Names |-> IF n = "dest" THEN d ELSE IF n = "incoming" THEN i ELSE r]

Tidied == {Store(d, Missing, Missing) : d \in {Missing, WholeCopy(Local)}}

Parts(c) == {[b \in 1..Blocks |-> IF b <= n THEN c ELSE NoOne] : n \in 0..Blocks}

\* What a pull killed at any of its steps leaves of a tidy store.
LeftBy(p) ==
  Tidied
    \union {Store(d, i, Missing) : d \in {Missing, WholeCopy(Local)}, i \in Parts(p)}
    \union {Store(Missing, WholeCopy(p), WholeCopy(Local))}
    \union {Store(WholeCopy(p), Missing, r) : r \in Parts(Local) \union {Missing}}

PullInit ==
  /\ LockInit
  /\ step = [p \in Pulls |-> "recover"]
  /\ todo = [p \in Pulls |-> << >>]
  /\ existing = [p \in Pulls |-> FALSE]
  /\ moved = [p \in Pulls |-> FALSE]
  /\ block = [p \in Pulls |-> 1]
  /\ dirs \in IF lock = NoOne THEN Tidied ELSE LeftBy(lock)
  /\ had = (There("dest") \/ There("replaced"))
  /\ orderly = TRUE

\* withRunLock releases once the work under it returned or threw.
Leave(p) ==
  /\ step[p] \in Ended
  /\ Release(p)
  /\ UNCHANGED <<sessionVars, dirs, had>>

Locking(p) ==
  /\ LockStep(p)
  /\ UNCHANGED <<sessionVars, dirs, had>>

PullStep(p) ==
  \/ Asks(p) \/ Look(p) \/ Tidy(p) \/ Mutate(p) \/ Exists(p)
  \/ MakeStaging(p) \/ Stage(p) \/ Verify(p)
  \/ MoveAside(p) \/ Install(p) \/ Undo(p) \/ Revert(p) \/ Clean(p)

\* A recovery went on without what it had found to do, or a failed pull could
\* not put the old run back.
CutShort(p) ==
  /\ at[p] = "in"
  /\ \/ step[p] = "recover" /\ step'[p] \in AfterRecovery
     \/ step[p] = "tidy" /\ Len(todo'[p]) < Len(todo[p])
     \/ step[p] = "mutate" /\ Len(todo'[p]) < Len(todo[p]) /\ trouble' # trouble
     \/ step[p] = "undo" /\ moved[p] /\ trouble' # trouble

UnderLock == {p \in Pulls : at[p] = "in" /\ step[p] \notin Ended}

PullNext ==
  /\ \E p \in Pulls : Locking(p) \/ Leave(p) \/ PullStep(p)
  /\ orderly' = (/\ orderly
                 /\ \A p \in Pulls : ~ CutShort(p)
                 /\ \A p, q \in UnderLock' : p = q)

PullSpec == PullInit /\ [][PullNext]_pullVars

-----------------------------------------------------------------------------
(* Properties. *)

Steps ==
  {"recover", "look", "tidy", "mutate", "start", "exists", "stage", "mkdir",
   "write", "more", "verify", "swap", "moveAside", "install?", "install",
   "undo", "revert", "remove", "clean"} \union Ended

PullTypeOK ==
  /\ LockTypeOK
  /\ step \in [Pulls -> Steps]
  /\ existing \in [Pulls -> BOOLEAN]
  /\ moved \in [Pulls -> BOOLEAN]
  /\ block \in [Pulls -> 1..(Blocks + 1)]
  /\ dirs \in [Names -> Directories]
  /\ had \in BOOLEAN
  /\ orderly \in BOOLEAN

\* What the next pull's recovery will leave as the run.
Recoverable ==
  IF There("dest") THEN dirs["dest"]
  ELSE IF ~ There("replaced") THEN Missing
  ELSE IF There("incoming") THEN dirs["incoming"]
  ELSE dirs["replaced"]

(***************************************************************************)
(* Once there is a run, whatever is killed or fails and at whatever point, *)
(* recovery finds one whole copy of it.                                    *)
(***************************************************************************)
RunSurvives == orderly /\ had => IsWhole(Recoverable)

(***************************************************************************)
(* What stands at <run> is one copy, complete: never a blend of two pulls  *)
(* and never a part of one.                                                *)
(***************************************************************************)
InstalledWhole == There("dest") => IsWhole(dirs["dest"])

(***************************************************************************)
(* "the caller is about to be told the pull did not happen, and that has   *)
(* to be true of the store as well as of the message".                     *)
(***************************************************************************)
FailureIsTrue ==
  orderly => \A p \in Pulls : step[p] = "failed" => dirs["dest"] # WholeCopy(p)

(***************************************************************************)
(* A pull that reports success installed its own copy and left no scratch  *)
(* directory of its own behind.                                            *)
(***************************************************************************)
SuccessIsTrue ==
  [][\A p \in Pulls :
       orderly' /\ step[p] = "clean" /\ step'[p] = "done" =>
         dirs'["dest"] = WholeCopy(p) /\ dirs'["replaced"] = Missing]_pullVars

=============================================================================
