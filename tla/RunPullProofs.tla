---------------------------- MODULE RunPullProofs ----------------------------
(***************************************************************************)
(* Theorems about runs that travel and the gateway they travel to: the     *)
(* lock file of a run and the pulls that work under it, for any number of  *)
(* sessions, any size of archive and any amount of trouble (RunPull); what *)
(* a push and a scrub that meet leave of a run (RunExchange); and where    *)
(* keys, calls and runs go (Gateway).                                      *)
(*                                                                         *)
(* LockInv is inductive: a file is held aside by exactly the sessions that *)
(* are claiming one, a session that has not created its lock has no file,  *)
(* and no file is in two places.  What the work under the lock does leaves *)
(* the lock files alone, so for them it is enough to look at RunLock.      *)
(*                                                                         *)
(* RunInv is inductive with it and speaks of the directories: in any       *)
(* history a session keeps to its plan, and in an orderly one, where one   *)
(* session works at a time, the directories stand as the step it is about  *)
(* to take expects them, and without it as any next session may find them. *)
(***************************************************************************)
EXTENDS RunPull, RunExchange, Gateway, FiniteSetTheorems, SequenceTheorems, TLAPS

LockInv == LockTypeOK /\ AsideWhileClaiming /\ NoFileYet /\ OnePlace

\* The steps of a session on the lock file.
Handles(p) == LockStep(p) \/ Release(p)

USE LockAssumption

-----------------------------------------------------------------------------
(* The lock file. *)

\* What goes wrong stays within MaxTrouble.
LEMMA TroubleBounded ==
  ASSUME LockTypeOK, NEW p \in Pulls, Handles(p)
  PROVE  trouble' \in 0..MaxTrouble
<1>1. trouble \in 0..MaxTrouble
  BY DEF LockTypeOK
<1>2. Fine \/ Trouble
  BY DEF Handles, LockStep, Create, FindStale, GiveUp, Claim, ClaimAndGo, Judge,
     Restore, PutBack, LeaveAside, RemoveAside, Keep, Inspect, BeatAsks,
     BeatTouches, Ages, Kill, Release, Fine
<1> QED
  BY <1>1, <1>2 DEF Fine, Trouble

\* Each step of RunLock keeps the types.
LEMMA LockTypeKept ==
  ASSUME LockTypeOK, AsideWhileClaiming, NEW p \in Pulls, Handles(p)
  PROVE  LockTypeOK'
<1> USE DEF LockTypeOK, AsideWhileClaiming, Claiming, Stages, Outside, Go
<1>1. trouble' \in 0..MaxTrouble
  BY TroubleBounded
<1>2. CASE Create(p) \/ FindStale(p) \/ GiveUp(p)
  BY <1>1, <1>2 DEF Create, FindStale, GiveUp
<1>3. CASE Claim(p)
  BY <1>1, <1>3 DEF Claim, ClaimAndGo
<1>4. CASE Judge(p)
  BY <1>1, <1>4 DEF Judge, RemoveAside, LeaveAside, Keep
<1>5. CASE Restore(p)
  BY <1>1, <1>5 DEF Restore, PutBack, LeaveAside
<1>6. CASE Inspect(p)
  BY <1>1, <1>6 DEF Inspect, RemoveAside, LeaveAside, Keep
<1>7. CASE BeatAsks(p) \/ BeatTouches(p) \/ Ages(p) \/ Kill(p)
  BY <1>1, <1>7 DEF BeatAsks, BeatTouches, Ages, Kill
<1>8. CASE Release(p)
  BY <1>1, <1>8 DEF Release, Keep
<1> QED
  BY <1>2, <1>3, <1>4, <1>5, <1>6, <1>7, <1>8 DEF Handles, LockStep

\* Each step of RunLock keeps the rest of the invariant: the claim moves the
\* file, the decision removes, leaves or links it back.
LEMMA LockPlacesKept ==
  ASSUME LockInv, NEW p \in Pulls, Handles(p)
  PROVE  (AsideWhileClaiming /\ NoFileYet /\ OnePlace)'
<1> USE DEF LockInv, LockTypeOK, AsideWhileClaiming, NoFileYet, OnePlace, Claiming,
            Waiting, FileExists, Go
<1>2. CASE Create(p) \/ FindStale(p) \/ GiveUp(p)
  BY <1>2 DEF Create, FindStale, GiveUp
<1>3. CASE Claim(p)
  BY <1>3 DEF Claim, ClaimAndGo
<1>4. CASE Judge(p)
  BY <1>4 DEF Judge, RemoveAside, LeaveAside, Keep
<1>5. CASE Restore(p)
  BY <1>5 DEF Restore, PutBack, LeaveAside
<1>6. CASE Inspect(p)
  BY <1>6 DEF Inspect, RemoveAside, LeaveAside, Keep
<1>7. CASE BeatAsks(p) \/ BeatTouches(p) \/ Ages(p) \/ Kill(p)
  BY <1>7 DEF BeatAsks, BeatTouches, Ages, Kill
<1>8. CASE Release(p)
  BY <1>8 DEF Release, Keep
<1> QED
  BY <1>2, <1>3, <1>4, <1>5, <1>6, <1>7, <1>8 DEF Handles, LockStep

\* A step of RunLock loses no young file that another session made.
LEMMA LiveFileKept ==
  ASSUME LockInv, NEW p \in Pulls, Handles(p), NEW r \in Pulls,
         FileExists(r) \/ r \in litter, ~ (FileExists(r) \/ r \in litter)'
  PROVE  r \in stale \/ (at[r] = "inspecting" /\ at'[r] = "left")
<1> USE DEF LockInv, LockTypeOK, AsideWhileClaiming, NoFileYet, OnePlace, Claiming,
            Waiting, FileExists, Go
<1>2. CASE Create(p) \/ FindStale(p) \/ GiveUp(p)
  BY <1>2 DEF Create, FindStale, GiveUp
<1>3. CASE Claim(p)
  BY <1>3 DEF Claim, ClaimAndGo
<1>4. CASE Judge(p)
  BY <1>4 DEF Judge, RemoveAside, LeaveAside, Keep
<1>5. CASE Restore(p)
  BY <1>5 DEF Restore, PutBack, LeaveAside
<1>6. CASE Inspect(p)
  BY <1>6 DEF Inspect, RemoveAside, LeaveAside, Keep
<1>7. CASE BeatAsks(p) \/ BeatTouches(p) \/ Ages(p) \/ Kill(p)
  BY <1>7 DEF BeatAsks, BeatTouches, Ages, Kill
<1>8. CASE Release(p)
  BY <1>8 DEF Release, Keep
<1> QED
  BY <1>2, <1>3, <1>4, <1>5, <1>6, <1>7, <1>8 DEF Handles, LockStep

-----------------------------------------------------------------------------
(* The work under the lock. *)

\* What a session does under its lock touches no lock file.
LEMMA WorkLeavesLocks ==
  ASSUME NEW p \in Pulls, PullStep(p)
  PROVE  LockAlone /\ (Fine \/ Trouble)
<1> USE DEF Fine
<1>1. CASE Asks(p)
  BY <1>1 DEF Asks, Probe
<1>2. CASE Look(p) \/ Tidy(p) \/ Exists(p) \/ MakeStaging(p) \/ Verify(p)
  BY <1>2 DEF Look, Tidy, Exists, MakeStaging, Verify
<1>3. CASE Mutate(p)
  BY <1>3 DEF Mutate, Drop, Promote, RemoveSome, RemoveLast, RemoveFails, Rename, RenameFails
<1>4. CASE Stage(p)
  BY <1>4 DEF Stage, Write
<1>5. CASE MoveAside(p) \/ Install(p) \/ Undo(p)
  BY <1>5 DEF MoveAside, Install, Undo, Rename, RenameFails
<1>6. CASE Revert(p) \/ Clean(p)
  BY <1>6 DEF Revert, Clean, RemoveSome, RemoveLast, RemoveFails
<1> QED
  BY <1>1, <1>2, <1>3, <1>4, <1>5, <1>6 DEF PullStep

LEMMA LockInvInit ==
  ASSUME LockInit
  PROVE  LockInv
BY DEF LockInit, LockInv, LockTypeOK, AsideWhileClaiming, NoFileYet, OnePlace, Claiming,
       Waiting, FileExists, Stages, Outside

LEMMA LockInvAlone ==
  ASSUME LockInv, LockAlone, trouble' \in 0..MaxTrouble
  PROVE  LockInv'
BY DEF LockAlone, LockInv, LockTypeOK, AsideWhileClaiming, NoFileYet, OnePlace, FileExists

\* One step of any session, or none.
LEMMA LockInvNext ==
  ASSUME LockInv, [PullNext]_pullVars
  PROVE  LockInv'
<1>1. CASE UNCHANGED pullVars
  BY <1>1, LockInvAlone DEF pullVars, lockVars, LockAlone, LockInv, LockTypeOK
<1>2. ASSUME NEW p \in Pulls, Handles(p)
      PROVE  LockInv'
  BY <1>2, LockTypeKept, LockPlacesKept DEF LockInv
<1>3. ASSUME NEW p \in Pulls, PullStep(p)
      PROVE  LockInv'
  <2>1. LockAlone /\ (Fine \/ Trouble)
    BY <1>3, WorkLeavesLocks
  <2>2. trouble' \in 0..MaxTrouble
    BY <2>1 DEF Fine, Trouble, LockInv, LockTypeOK
  <2> QED
    BY <2>1, <2>2, LockInvAlone
<1> QED
  BY <1>1, <1>2, <1>3 DEF PullNext, Locking, Leave, Handles

(***************************************************************************)
(* A file of withRunLock is in one place: no two sessions ever hold the    *)
(* same file aside, and none that was linked back is held aside as well.   *)
(***************************************************************************)
THEOREM OnePlaceAlways == PullSpec => []OnePlace
<1>1. PullInit => LockInv
  BY LockInvInit DEF PullInit
<1>2. LockInv => OnePlace
  BY DEF LockInv
<1> QED
  BY <1>1, <1>2, LockInvNext, PTL DEF PullSpec

(***************************************************************************)
(* breakStaleRunLock and releaseRunLock never remove a lock file that is   *)
(* younger than STALE_LOCK_MS, except the releasing session its own.       *)
(***************************************************************************)
THEOREM LiveLockIsKept == PullSpec => LiveLockKept
<1> DEFINE Step ==
      \A p \in Pulls :
        (FileExists(p) \/ p \in litter) /\ ~ (FileExists(p) \/ p \in litter)'
          => p \in stale \/ (at[p] = "inspecting" /\ at'[p] = "left")
<1>1. PullInit => LockInv
  BY LockInvInit DEF PullInit
<1>2. ASSUME LockInv, [PullNext]_pullVars
      PROVE  [Step]_lockVars
  <2>1. CASE UNCHANGED pullVars
    BY <2>1 DEF pullVars
  <2>2. ASSUME NEW p \in Pulls, Handles(p)
        PROVE  Step
    BY <1>2, <2>2, LiveFileKept
  <2>3. ASSUME NEW p \in Pulls, PullStep(p)
        PROVE  Step
    BY <2>3, WorkLeavesLocks DEF LockAlone, FileExists
  <2> QED
    BY <1>2, <2>1, <2>2, <2>3 DEF PullNext, Locking, Leave, Handles
<1> QED
  BY <1>1, <1>2, LockInvNext, PTL DEF PullSpec, LiveLockKept

-----------------------------------------------------------------------------
(* The directories. *)

\* Until the last block is written there is one to write.
Unwritten ==
  {"recover", "look", "tidy", "mutate", "start", "exists", "stage", "mkdir", "write", "more"}
BlockLeft == \A p \in Pulls : step[p] \in Unwritten => block[p] <= Blocks

DirsOK == dirs \in [Names -> Directories] /\ had \in BOOLEAN

PullInv == LockInv /\ PullTypeOK /\ BlockLeft

\* What an operation on a directory puts in its place is a directory.
LEMMA DirectoryKinds ==
  /\ Missing \in Directories /\ Empty \in Directories
  /\ \A c \in Copies : WholeCopy(c) \in Directories
  /\ \A d \in Directories : DOMAIN d \subseteq 1..Blocks
  /\ \A d \in Directories, b \in 1..Blocks, c \in Copies \union {NoOne} :
       b \in DOMAIN d => [d EXCEPT ![b] = c] \in Directories
  /\ \A b \in 1..Blocks, c \in Copies : [Empty EXCEPT ![b] = c] \in Directories
<1>1. DOMAIN Missing = {}
  BY DEF Missing
<1> QED
  BY <1>1 DEF Directories, Missing, Empty, WholeCopy, Copies

LEMMA DirsKept ==
  ASSUME DirsOK
  PROVE  /\ SameDirs => DirsOK'
         /\ \A name, to \in Names : Rename(name, to) => DirsOK'
         /\ \A name \in Names : RemoveSome(name) => DirsOK'
         /\ \A name \in Names : RemoveLast(name) => DirsOK'
         /\ \A name \in Names, dir \in Directories : Put(name, dir) => DirsOK'
<1> USE DEF DirsOK
<1>1. SameDirs => DirsOK'
  BY DEF SameDirs
<1>2. ASSUME NEW name \in Names, NEW to \in Names, Rename(name, to)
      PROVE  DirsOK'
  BY <1>2, DirectoryKinds DEF Rename
<1>3. ASSUME NEW name \in Names, NEW dir \in Directories, Put(name, dir)
      PROVE  DirsOK'
  BY <1>3 DEF Put
<1>4. ASSUME NEW name \in Names, RemoveSome(name)
      PROVE  DirsOK'
  <2>1. PICK b \in DOMAIN dirs[name] : Put(name, [dirs[name] EXCEPT ![b] = NoOne])
    BY <1>4 DEF RemoveSome
  <2>2. [dirs[name] EXCEPT ![b] = NoOne] \in Directories
    BY <2>1, DirectoryKinds
  <2> QED
    BY <1>3, <2>1, <2>2
<1>5. ASSUME NEW name \in Names, RemoveLast(name)
      PROVE  DirsOK'
  BY <1>3, <1>5, DirectoryKinds DEF RemoveLast
<1> QED
  BY <1>1, <1>2, <1>3, <1>4, <1>5

\* Every step under the lock changes the directories by one such operation.
LEMMA WorkKeepsDirs ==
  ASSUME PullTypeOK, BlockLeft, NEW p \in Pulls, PullStep(p)
  PROVE  DirsOK'
<1>0. "dest" \in Names /\ "incoming" \in Names /\ "replaced" \in Names
  BY DEF Names
<1> DirsOK
  BY DEF PullTypeOK, DirsOK
<1>1. CASE Asks(p) \/ Look(p) \/ Tidy(p) \/ Exists(p) \/ Verify(p)
  BY <1>1, DirsKept DEF Asks, Probe, Look, Tidy, Exists, Verify
<1>2. CASE Mutate(p)
  BY <1>0, <1>2, DirsKept DEF Mutate, Drop, Promote, RemoveFails, RenameFails
<1>3. CASE MakeStaging(p)
  BY <1>0, <1>3, DirsKept, DirectoryKinds DEF MakeStaging
<1>4. CASE Stage(p)
  <2>1. CASE SameDirs
    BY <2>1, DirsKept
  <2>2. CASE Write(p)
    <3> DEFINE staged == IF There("incoming") THEN dirs["incoming"] ELSE Empty
               after == [staged EXCEPT ![block[p]] = p]
    <3>1. block[p] \in 1..Blocks
      BY <1>4, PullAssumption DEF Stage, Working, PullTypeOK, BlockLeft, Unwritten
    <3>2. staged \in [1..Blocks -> Copies \union {NoOne}]
      BY <1>0 DEF There, DirsOK, Directories, Empty
    <3>3. after \in Directories
      BY <3>1, <3>2 DEF Directories, Copies
    <3>4. Put("incoming", after)
      BY <2>2 DEF Write
    <3> HIDE DEF after
    <3> QED
      BY <1>0, <3>3, <3>4, DirsKept
  <2> QED
    BY <1>4, <2>1, <2>2 DEF Stage
<1>5. CASE MoveAside(p) \/ Install(p) \/ Undo(p)
  BY <1>0, <1>5, DirsKept DEF MoveAside, Install, Undo, RenameFails
<1>6. CASE Revert(p) \/ Clean(p)
  BY <1>0, <1>6, DirsKept DEF Revert, Clean, RemoveFails
<1> QED
  BY <1>1, <1>2, <1>3, <1>4, <1>5, <1>6 DEF PullStep

\* Every step under the lock leaves each session at a step of the pull, with a
\* block left to write if it is to write one.
LEMMA WorkKeepsPlans ==
  ASSUME PullTypeOK, BlockLeft, NEW p \in Pulls, PullStep(p)
  PROVE  /\ step' \in [Pulls -> Steps]
         /\ existing' \in [Pulls -> BOOLEAN]
         /\ moved' \in [Pulls -> BOOLEAN]
         /\ block' \in [Pulls -> 1..(Blocks + 1)]
         /\ BlockLeft'
<1> USE PullAssumption
    DEF PullTypeOK, BlockLeft, Unwritten, Steps, Ended, Working, To, SamePlan, AfterRecovery
<1>1. CASE Asks(p)
  BY <1>1 DEF Asks, Probe
<1>2. CASE Look(p) \/ Exists(p) \/ MakeStaging(p) \/ Verify(p)
  BY <1>2 DEF Look, Exists, There, MakeStaging, Verify
<1>7. CASE Tidy(p)
  BY <1>7 DEF Tidy, Skip
<1>3. CASE Mutate(p)
  BY <1>3 DEF Mutate, Drop, Promote, Skip
<1>4. CASE Stage(p)
  BY <1>4 DEF Stage, Write
<1>5. CASE MoveAside(p) \/ Install(p) \/ Undo(p)
  BY <1>5 DEF MoveAside, Install, Undo
<1>6. CASE Revert(p) \/ Clean(p)
  BY <1>6 DEF Revert, Clean
<1> QED
  BY <1>1, <1>2, <1>3, <1>4, <1>5, <1>6, <1>7 DEF PullStep

\* A pull begins in a store that is tidy or that a killed pull has left.
LEMMA StoreKinds ==
  ASSUME PullInit
  PROVE  dirs \in [Names -> Directories]
<1>1. \A d, i, r \in Directories : Store(d, i, r) \in [Names -> Directories]
  BY DEF Store
<1>2. Local \in Copies /\ (lock # NoOne => lock \in Copies)
  BY DEF PullInit, LockInit, Copies
<1>3. \A c \in Copies : Parts(c) \subseteq Directories
  BY DEF Parts, Directories
<1>4. Tidied \subseteq [Names -> Directories]
  BY <1>1, <1>2, DirectoryKinds DEF Tidied
<1>5. ASSUME NEW c \in Copies
      PROVE  LeftBy(c) \subseteq [Names -> Directories]
  <2>1. \A d \in {Missing, WholeCopy(Local)}, i \in Parts(c) :
          Store(d, i, Missing) \in [Names -> Directories]
    BY <1>1, <1>2, <1>3, DirectoryKinds
  <2>2. Store(Missing, WholeCopy(c), WholeCopy(Local)) \in [Names -> Directories]
    BY <1>1, <1>2, DirectoryKinds
  <2>3. \A r \in Parts(Local) \union {Missing} :
          Store(WholeCopy(c), Missing, r) \in [Names -> Directories]
    BY <1>1, <1>2, <1>3, DirectoryKinds
  <2> QED
    BY <1>4, <2>1, <2>2, <2>3 DEF LeftBy
<1> QED
  BY <1>2, <1>4, <1>5 DEF PullInit

LEMMA PullInvInit ==
  ASSUME PullInit
  PROVE  PullInv
<1>1. LockInv
  BY LockInvInit DEF PullInit
<1>2. dirs \in [Names -> Directories]
  BY StoreKinds
<1> QED
  BY <1>1, <1>2, PullAssumption
     DEF PullInit, PullInv, LockInv, PullTypeOK, BlockLeft, Unwritten, Steps, Ended

LEMMA PullInvNext ==
  ASSUME PullInv, [PullNext]_pullVars
  PROVE  PullInv'
<1>1. LockInv'
  BY LockInvNext DEF PullInv
<1>2. CASE UNCHANGED pullVars
  BY <1>1, <1>2 DEF PullInv, PullTypeOK, BlockLeft, LockInv, pullVars, sessionVars
<1>3. ASSUME NEW p \in Pulls, PullNext, Locking(p) \/ Leave(p)
      PROVE  PullInv'
  BY <1>1, <1>3 DEF PullInv, PullTypeOK, BlockLeft, LockInv, Locking, Leave, sessionVars,
     PullNext
<1>4. ASSUME NEW p \in Pulls, PullNext, PullStep(p)
      PROVE  PullInv'
  <2>1. dirs' \in [Names -> Directories] /\ had' \in BOOLEAN
    BY <1>4, WorkKeepsDirs DEF PullInv, DirsOK
  <2>2. orderly' \in BOOLEAN
    BY <1>4 DEF PullNext
  <2> QED
    BY <1>1, <1>4, <2>1, <2>2, WorkKeepsPlans DEF PullInv, PullTypeOK, LockInv
<1> QED
  BY <1>2, <1>3, <1>4 DEF PullNext

(***************************************************************************)
(* Types of the lock and of the pulls: among them, that stageRunEntries    *)
(* writes no block the archive does not have.                              *)
(***************************************************************************)
THEOREM PullTypeAlways == PullSpec => []PullTypeOK
<1>1. PullInv => PullTypeOK
  BY DEF PullInv
<1> QED
  BY <1>1, PullInvInit, PullInvNext, PTL DEF PullSpec

-----------------------------------------------------------------------------
(***************************************************************************)
(* The run.  Where history was orderly one session works at a time, so     *)
(* that what it found is what is there: Fits says, for each step, how the  *)
(* directories stand when a session is about to take it.  Standing is what any *)
(* of these steps may leave to the next session, should it be the last     *)
(* one: the run itself, or the run moved aside with nothing else beside it *)
(* but a whole successor.  Honest follows the copies of those who have not *)
(* installed theirs.                                                       *)
(***************************************************************************)
Dest == dirs["dest"]
Incoming == dirs["incoming"]
Replaced == dirs["replaced"]

Standing ==
  /\ Dest # Missing => IsWhole(Dest)
  /\ Dest = Missing /\ Replaced # Missing =>
       IsWhole(Replaced) /\ (Incoming # Missing => IsWhole(Incoming))
  /\ had => Dest # Missing \/ Replaced # Missing

Bare == Incoming = Missing /\ Replaced = Missing
StagedTo(p, n) ==
  /\ Incoming = [b \in 1..Blocks |-> IF b < n THEN p ELSE NoOne]
  /\ Replaced = Missing
StagedAll(p) == Incoming = WholeCopy(p) /\ Replaced = Missing
FoundRun(p) == existing[p] <=> Dest # Missing

\* The plans recovery makes, and what is left of them as it goes along.
DropBoth == <<"drop incoming", "drop replaced">>
DropReplaced == <<"drop replaced">>
FinishSwap == <<"promote incoming", "drop replaced if installed">>
DropIfInstalled == <<"drop replaced if installed">>
PutOldBack == <<"promote replaced">>
DropIncoming == <<"drop incoming">>
Plans ==
  {<< >>, DropBoth, DropReplaced, FinishSwap, DropIfInstalled, PutOldBack, DropIncoming}

PlanFits(p) ==
  \/ todo[p] = << >> /\ Bare
  \/ todo[p] = DropBoth /\ Dest # Missing
  \/ todo[p] = DropReplaced /\ Dest # Missing /\ Incoming = Missing
  \/ todo[p] = FinishSwap /\ Dest = Missing /\ Incoming # Missing /\ Replaced # Missing
  \/ todo[p] = DropIfInstalled /\ Dest # Missing /\ Incoming = Missing
  \/ todo[p] = PutOldBack /\ Dest = Missing /\ Incoming = Missing /\ Replaced # Missing
  \/ todo[p] = DropIncoming /\ Dest = Missing /\ Replaced = Missing

Swapping == {"install?", "install", "undo"}

Fits(p) ==
  /\ step[p] \in {"tidy", "mutate"} => PlanFits(p)
  /\ step[p] = "mutate" => todo[p] \notin {<< >>, DropIfInstalled}
  /\ step[p] \in {"start", "exists"} => Bare
  /\ step[p] \in {"stage", "mkdir"} => Bare /\ FoundRun(p)
  /\ step[p] \in {"write", "more"} => StagedTo(p, block[p]) /\ FoundRun(p)
  /\ step[p] \in {"verify", "swap"} => StagedAll(p) /\ FoundRun(p)
  /\ step[p] = "moveAside" => StagedAll(p) /\ Dest # Missing
  /\ step[p] \in Swapping =>
       Dest = Missing /\ Incoming = WholeCopy(p) /\ (moved[p] <=> Replaced # Missing)
  /\ step[p] \in {"revert", "remove"} => Replaced = Missing
  /\ step[p] = "clean" => Dest = WholeCopy(p) /\ Incoming = Missing

\* One that has not installed its copy, and may still come to say so.
Uninstalled(p) ==
  /\ step[p] \notin {"clean", "done", "unclean"}
  /\ at[p] # "dead" \/ step[p] = "failed"

NotItsCopy(p) ==
  /\ Dest # WholeCopy(p)
  /\ Dest = Missing /\ Replaced # Missing =>
       /\ Replaced # WholeCopy(p)
       /\ Incoming = WholeCopy(p) => at[p] = "in" /\ step[p] \in Swapping

Honest == \A p \in Pulls : Uninstalled(p) => NotItsCopy(p)

InOrder ==
  /\ Standing /\ Honest
  /\ \A p, q \in UnderLock : p = q
  /\ \A p \in UnderLock : Fits(p)

\* What a session has not done yet, in any history.
Before == {"recover", "look", "tidy", "mutate", "start", "exists", "stage", "mkdir"}
Staging == Before \union {"write", "more", "verify", "swap", "moveAside"}
Ahead(p) ==
  /\ todo[p] \in Plans
  /\ at[p] \in {"trying", "breaking", "judging", "restoring"} => step[p] = "recover"
  /\ step[p] = "mutate" => todo[p] # << >>
  /\ step[p] \in Before => block[p] = 1
  /\ step[p] \in Staging => ~ moved[p]

RunInv ==
  /\ DOMAIN todo = Pulls /\ \A p \in Pulls : Ahead(p)
  /\ orderly => InOrder

\* The operations, as they show on the three directories.
Alike == Dest' = Dest /\ Incoming' = Incoming /\ Replaced' = Replaced

LEMMA ThereIs ==
  /\ There("dest") <=> Dest # Missing
  /\ There("incoming") <=> Incoming # Missing
  /\ There("replaced") <=> Replaced # Missing
BY DEF There, Dest, Incoming, Replaced

LEMMA WholeCopies ==
  /\ \A c \in Copies : WholeCopy(c) # Missing /\ IsWhole(WholeCopy(c))
  /\ \A c, d \in Copies : WholeCopy(c) = WholeCopy(d) => c = d
  /\ \A p \in Pulls : p \in Copies
<1>1. 1 \in 1..Blocks
  BY PullAssumption
<1>2. \A c : DOMAIN WholeCopy(c) = 1..Blocks /\ WholeCopy(c)[1] = c
  BY <1>1 DEF WholeCopy
<1>3. DOMAIN Missing = {}
  BY DEF Missing
<1> QED BY <1>1, <1>2, <1>3 DEF IsWhole, Copies

LEMMA PutShows ==
  ASSUME DirsOK
  PROVE  /\ \A d : Put("incoming", d) =>
              /\ Incoming' = d /\ Dest' = Dest /\ Replaced' = Replaced
              /\ had' => had
         /\ \A d : Put("replaced", d) =>
              /\ Replaced' = d /\ Dest' = Dest /\ Incoming' = Incoming
              /\ had' => had
<1> USE DEF DirsOK, Names, Dest, Incoming, Replaced
<1>1. ASSUME NEW d, Put("incoming", d)
      PROVE  /\ Incoming' = d /\ Dest' = Dest /\ Replaced' = Replaced
             /\ had' => had
  BY <1>1 DEF Put
<1>2. ASSUME NEW d, Put("replaced", d)
      PROVE  /\ Replaced' = d /\ Dest' = Dest /\ Incoming' = Incoming
             /\ had' => had
  BY <1>2 DEF Put
<1> QED BY <1>1, <1>2

LEMMA RemoveShows ==
  ASSUME DirsOK
  PROVE  /\ RemoveSome("incoming") => Dest' = Dest /\ Replaced' = Replaced /\ (had' => had)
         /\ RemoveSome("replaced") => Dest' = Dest /\ Incoming' = Incoming /\ (had' => had)
         /\ RemoveLast("incoming") =>
              /\ Dest' = Dest /\ Replaced' = Replaced /\ Incoming' = Missing
              /\ had' => had
         /\ RemoveLast("replaced") =>
              /\ Dest' = Dest /\ Incoming' = Incoming /\ Replaced' = Missing
              /\ had' => had
BY PutShows DEF RemoveSome, RemoveLast

LEMMA RenameShows ==
  ASSUME DirsOK
  PROVE  /\ Rename("dest", "replaced") =>
              /\ Dest # Missing /\ Dest' = Missing /\ Replaced' = Dest
              /\ Incoming' = Incoming /\ (had' => had)
         /\ Rename("incoming", "dest") =>
              /\ Incoming # Missing /\ Incoming' = Missing /\ Dest' = Incoming
              /\ Replaced' = Replaced
         /\ Rename("replaced", "dest") =>
              /\ Replaced # Missing /\ Replaced' = Missing /\ Dest' = Replaced
              /\ Incoming' = Incoming
<1> USE DEF DirsOK, Names, Dest, Incoming, Replaced, Rename, CanRename, There
<1>1. CASE Rename("dest", "replaced")
  BY <1>1
<1>2. CASE Rename("incoming", "dest")
  BY <1>2
<1>3. CASE Rename("replaced", "dest")
  BY <1>3
<1> QED BY <1>1, <1>2, <1>3

LEMMA SameShows ==
  /\ SameDirs => Alike /\ (had' => had)
  /\ \A from, to : RenameFails(from, to) => Alike /\ (had' => had)
  /\ \A name : RemoveFails(name) => Alike /\ (had' => had) /\ Trouble
  /\ RenameFails("dest", "replaced") /\ Dest # Missing /\ Replaced = Missing => Trouble
  /\ RenameFails("incoming", "dest") /\ Incoming # Missing /\ Dest = Missing => Trouble
  /\ RenameFails("replaced", "dest") /\ Replaced # Missing /\ Dest = Missing => Trouble
<1> USE DEF SameDirs, Alike, Dest, Incoming, Replaced
<1>1. SameDirs => Alike /\ (had' => had)
  OBVIOUS
<1>2. \A from, to : RenameFails(from, to) => SameDirs
  BY DEF RenameFails
<1>3. \A name : RemoveFails(name) => SameDirs /\ Trouble
  BY DEF RemoveFails
<1>4. /\ RenameFails("dest", "replaced") /\ Dest # Missing /\ Replaced = Missing => Trouble
      /\ RenameFails("incoming", "dest") /\ Incoming # Missing /\ Dest = Missing => Trouble
      /\ RenameFails("replaced", "dest") /\ Replaced # Missing /\ Dest = Missing => Trouble
  BY DEF RenameFails, CanRename, There
<1> QED BY <1>1, <1>2, <1>3, <1>4

LEMMA TroubleShows == ASSUME LockTypeOK, Trouble PROVE trouble' # trouble
BY DEF LockTypeOK, Trouble

-----------------------------------------------------------------------------
(* Whose copy it is: what each kind of step leaves true of the copies of   *)
(* sessions that have not installed theirs.                                *)

\* A step of p's own, that does not take back what it has said.
OnlyOf(p) ==
  /\ at' = at /\ \A q \in Pulls : q # p => step'[q] = step[q]
  /\ step[p] = "clean" => step'[p] \in {"clean", "done", "unclean"}
  /\ step[p] \notin Ended

LEMMA StaysUninstalled ==
  ASSUME NEW p \in Pulls, OnlyOf(p), NEW q \in Pulls, Uninstalled(q)'
  PROVE  Uninstalled(q) \/ (q = p /\ at[p] = "dead" /\ step'[p] = "failed")
BY DEF OnlyOf, Uninstalled, Ended

LEMMA HonestKept ==
  ASSUME Honest, NEW p \in Pulls, at[p] = "in", OnlyOf(p),
         \/ Dest' = Dest /\ (Dest # Missing \/ Replaced' = Missing)
         \/ Alike /\ (step[p] \in Swapping => step'[p] \in Swapping)
  PROVE  Honest'
<1> SUFFICES ASSUME NEW q \in Pulls, Uninstalled(q)' PROVE NotItsCopy(q)'
  BY DEF Honest
<1>1. Uninstalled(q)
  BY StaysUninstalled
<1>2. NotItsCopy(q)
  BY <1>1 DEF Honest
<1>3. CASE Dest' = Dest /\ (Dest # Missing \/ Replaced' = Missing)
  BY <1>2, <1>3 DEF NotItsCopy, WholeCopy
<1>4. CASE Alike /\ (step[p] \in Swapping => step'[p] \in Swapping)
  BY <1>2, <1>4 DEF NotItsCopy, Alike, OnlyOf, WholeCopy
<1> QED BY <1>3, <1>4

LEMMA HonestPromoted ==
  ASSUME Honest, NEW p \in Pulls, at[p] = "in", OnlyOf(p), step[p] \notin Swapping,
         \A r, q \in UnderLock : r = q,
         Dest = Missing, Replaced # Missing,
         Dest' = Incoming \/ Dest' = Replaced, Dest' # Missing
  PROVE  Honest'
<1> SUFFICES ASSUME NEW q \in Pulls, Uninstalled(q)' PROVE NotItsCopy(q)'
  BY DEF Honest
<1>1. NotItsCopy(q)
  BY StaysUninstalled DEF Honest
<1>2. p \in UnderLock
  BY DEF UnderLock, OnlyOf
<1>3. Incoming # WholeCopy(q)
  <2> SUFFICES ASSUME Incoming = WholeCopy(q) PROVE FALSE
    OBVIOUS
  <2>1. at[q] = "in" /\ step[q] \in Swapping
    BY <1>1 DEF NotItsCopy
  <2>2. q \in UnderLock
    BY <2>1 DEF UnderLock, Swapping, Ended
  <2> QED BY <1>2, <2>1, <2>2
<1>4. Replaced # WholeCopy(q)
  BY <1>1 DEF NotItsCopy
<1> QED BY <1>3, <1>4 DEF NotItsCopy, WholeCopy

LEMMA HonestUndone ==
  ASSUME Honest, NEW p \in Pulls, at[p] = "in", OnlyOf(p),
         Dest = Missing, Replaced # Missing, Dest' = Replaced
  PROVE  Honest'
<1> SUFFICES ASSUME NEW q \in Pulls, Uninstalled(q)' PROVE NotItsCopy(q)'
  BY DEF Honest
<1>1. NotItsCopy(q)
  BY StaysUninstalled DEF Honest
<1> QED BY <1>1 DEF NotItsCopy, WholeCopy

LEMMA HonestInstalled ==
  ASSUME Honest, NEW p \in Pulls, at[p] = "in", OnlyOf(p),
         step'[p] = "clean", Dest' = WholeCopy(p)
  PROVE  Honest'
<1> SUFFICES ASSUME NEW q \in Pulls, Uninstalled(q)' PROVE NotItsCopy(q)'
  BY DEF Honest
<1>1. q # p
  BY DEF Uninstalled
<1>2. WholeCopy(q)' = WholeCopy(q) /\ WholeCopy(p) # WholeCopy(q) /\ WholeCopy(p) # Missing
  BY <1>1, WholeCopies DEF WholeCopy
<1> QED BY <1>2 DEF NotItsCopy

LEMMA HonestAside ==
  ASSUME Honest, NEW p \in Pulls, at[p] = "in", OnlyOf(p),
         step'[p] \in Swapping, Dest' = Missing, Replaced' = Dest,
         Incoming = WholeCopy(p), Incoming' = Incoming
  PROVE  Honest'
<1> SUFFICES ASSUME NEW q \in Pulls, Uninstalled(q)' PROVE NotItsCopy(q)'
  BY DEF Honest
<1>1. NotItsCopy(q)
  BY StaysUninstalled DEF Honest
<1>2. /\ WholeCopy(q)' = WholeCopy(q) /\ WholeCopy(q) # Missing
      /\ WholeCopy(p) = WholeCopy(q) => p = q
  BY WholeCopies DEF WholeCopy
<1> QED BY <1>1, <1>2 DEF NotItsCopy, OnlyOf

-----------------------------------------------------------------------------
(* One step of the session at work.                                         *)

\* What is known when it takes the step, and what is to be shown of it.
Ready(p) ==
  /\ PullTypeOK /\ BlockLeft /\ DOMAIN todo = Pulls /\ InOrder
  /\ \A q \in Pulls : Ahead(q)
  /\ p \in UnderLock
LeavesFit(p) == Standing' /\ Fits(p)' /\ Honest'

LEMMA ReadyFacts ==
  ASSUME NEW p \in Pulls, Ready(p)
  PROVE  /\ DirsOK /\ LockTypeOK /\ Standing /\ Honest /\ Fits(p) /\ Ahead(p)
         /\ at[p] = "in" /\ step[p] \notin Ended
         /\ step \in [Pulls -> Steps] /\ DOMAIN todo = Pulls
         /\ block \in [Pulls -> 1..(Blocks + 1)]
         /\ existing \in [Pulls -> BOOLEAN] /\ moved \in [Pulls -> BOOLEAN]
         /\ \A r, q \in UnderLock : r = q
BY DEF Ready, PullTypeOK, DirsOK, InOrder, UnderLock

LEMMA ToShows ==
  ASSUME NEW p \in Pulls, step \in [Pulls -> Steps], NEW label, To(p, label)
  PROVE  step'[p] = label /\ \A q \in Pulls : q # p => step'[q] = step[q]
BY DEF To

\* A step to a label that is not at the end of an installed pull.
LEMMA OwnStep ==
  ASSUME NEW p \in Pulls, Ready(p), NEW label, To(p, label), LockAlone,
         step[p] # "clean" \/ label \in {"clean", "done", "unclean"}
  PROVE  OnlyOf(p)
BY ReadyFacts, ToShows DEF OnlyOf, LockAlone

LEMMA KeptAlike ==
  ASSUME Standing, Alike, had' => had
  PROVE  Standing'
BY DEF Standing, Alike, IsWhole, WholeCopy, Copies, Missing

\* The directories are as they were, and so is what the session knows of them.
LEMMA LooksOn ==
  ASSUME NEW p \in Pulls, Ready(p), NEW label, To(p, label), LockAlone,
         Alike, had' => had, step[p] # "clean",
         step[p] \in Swapping => label \in Swapping \/ Replaced = Missing
  PROVE  Standing' /\ Honest'
<1>1. OnlyOf(p) /\ step'[p] = label
  BY OwnStep, ReadyFacts, ToShows
<1>2. Standing'
  BY ReadyFacts, KeptAlike
<1>3. Alike /\ Replaced = Missing => Dest' = Dest /\ Replaced' = Missing
  BY DEF Alike
<1> QED BY <1>1, <1>2, <1>3, ReadyFacts, HonestKept

LEMMA PlanParts ==
  /\ Head(DropBoth) = "drop incoming" /\ Tail(DropBoth) = DropReplaced
  /\ Head(DropReplaced) = "drop replaced" /\ Tail(DropReplaced) = << >>
  /\ Head(FinishSwap) = "promote incoming" /\ Tail(FinishSwap) = DropIfInstalled
  /\ Head(DropIfInstalled) = "drop replaced if installed" /\ Tail(DropIfInstalled) = << >>
  /\ Head(PutOldBack) = "promote replaced" /\ Tail(PutOldBack) = << >>
  /\ Head(DropIncoming) = "drop incoming" /\ Tail(DropIncoming) = << >>
  /\ Len(DropBoth) = 2 /\ Len(DropReplaced) = 1 /\ Len(FinishSwap) = 2
  /\ Len(DropIfInstalled) = 1 /\ Len(PutOldBack) = 1 /\ Len(DropIncoming) = 1
  /\ Len(<< >>) = 0
<1>1. \A e, f : Head(<<e, f>>) = e /\ Len(<<e, f>>) = 2
  OBVIOUS
<1>2. \A e, f : Tail(<<e, f>>) = <<f>>
  <2> SUFFICES ASSUME NEW e, NEW f PROVE Tail(<<e, f>>) = <<f>>
    OBVIOUS
  <2>1. <<e, f>> \in Seq({e, f}) /\ <<e, f>> # << >> /\ Len(<<e, f>>) = 2
    OBVIOUS
  <2>2. Tail(<<e, f>>) \in Seq({e, f}) /\ Len(Tail(<<e, f>>)) = 1
    BY <2>1
  <2>3. Tail(<<e, f>>)[1] = f
    BY <2>1
  <2> QED BY <2>2, <2>3
<1>3. \A e : Head(<<e>>) = e /\ Tail(<<e>>) = << >> /\ Len(<<e>>) = 1
  OBVIOUS
<1>4. /\ Head(DropReplaced) = "drop replaced" /\ Tail(DropReplaced) = << >>
      /\ Head(DropIfInstalled) = "drop replaced if installed" /\ Tail(DropIfInstalled) = << >>
      /\ Head(PutOldBack) = "promote replaced" /\ Tail(PutOldBack) = << >>
      /\ Head(DropIncoming) = "drop incoming" /\ Tail(DropIncoming) = << >>
      /\ Len(DropReplaced) = 1 /\ Len(DropIfInstalled) = 1 /\ Len(PutOldBack) = 1
      /\ Len(DropIncoming) = 1
  BY <1>3 DEF DropReplaced, DropIfInstalled, PutOldBack, DropIncoming
<1>5. /\ Head(DropBoth) = "drop incoming" /\ Tail(DropBoth) = DropReplaced
      /\ Len(DropBoth) = 2
  BY <1>1, <1>2 DEF DropBoth, DropReplaced
<1>6. /\ Head(FinishSwap) = "promote incoming" /\ Tail(FinishSwap) = DropIfInstalled
      /\ Len(FinishSwap) = 2
  BY <1>1, <1>2 DEF FinishSwap, DropIfInstalled
<1>7. Len(<< >>) = 0
  OBVIOUS
<1> QED BY <1>4, <1>5, <1>6, <1>7

\* A plan is the shorter for being gone on with.
LEMMA PlanShrinks ==
  ASSUME NEW steps \in Plans, steps # << >>
  PROVE  Len(Tail(steps)) < Len(steps) /\ Tail(steps) \in Plans
<1>0. 0 < 1 /\ 1 < 2
  OBVIOUS
<1>1. << >> \in Plans /\ DropReplaced \in Plans /\ DropIfInstalled \in Plans
  BY DEF Plans
<1>2. \/ Tail(steps) = << >> /\ Len(steps) = 1
      \/ Tail(steps) = DropReplaced /\ Len(steps) = 2
      \/ Tail(steps) = DropIfInstalled /\ Len(steps) = 2
  BY PlanParts, Zenon DEF Plans
<1>3. Len(<< >>) = 0 /\ Len(DropReplaced) = 1 /\ Len(DropIfInstalled) = 1
  BY PlanParts
<1>4. CASE Tail(steps) = << >> /\ Len(steps) = 1
  <2>1. Len(Tail(steps)) = 0
    BY <1>3, <1>4, Zenon
  <2> QED BY <1>0, <1>1, <1>4, <2>1, Zenon
<1>5. CASE Tail(steps) \in {DropReplaced, DropIfInstalled} /\ Len(steps) = 2
  <2>1. Len(Tail(steps)) = 1
    BY <1>3, <1>5, Zenon
  <2> QED BY <1>0, <1>1, <1>5, <2>1, Zenon
<1> QED BY <1>2, <1>4, <1>5

\* No two plans are alike.
LEMMA PlansDiffer ==
  /\ << >> \notin
       {DropBoth, DropReplaced, FinishSwap, DropIfInstalled, PutOldBack, DropIncoming}
  /\ DropBoth \notin {DropReplaced, FinishSwap, DropIfInstalled, PutOldBack, DropIncoming}
  /\ DropReplaced \notin {FinishSwap, DropIfInstalled, PutOldBack, DropIncoming}
  /\ FinishSwap \notin {DropIfInstalled, PutOldBack, DropIncoming}
  /\ DropIfInstalled \notin {PutOldBack, DropIncoming}
  /\ PutOldBack # DropIncoming
<1> USE DEF DropBoth, DropReplaced, FinishSwap, DropIfInstalled, PutOldBack, DropIncoming
<1>1. << >> \notin
        {DropBoth, DropReplaced, FinishSwap, DropIfInstalled, PutOldBack, DropIncoming}
  OBVIOUS
<1>2. DropBoth \notin {DropReplaced, FinishSwap, DropIfInstalled, PutOldBack, DropIncoming}
  OBVIOUS
<1>3. DropReplaced \notin {FinishSwap, DropIfInstalled, PutOldBack, DropIncoming}
  OBVIOUS
<1>4. FinishSwap \notin {DropIfInstalled, PutOldBack, DropIncoming}
  OBVIOUS
<1>5. DropIfInstalled \notin {PutOldBack, DropIncoming} /\ PutOldBack # DropIncoming
  OBVIOUS
<1> QED BY <1>1, <1>2, <1>3, <1>4, <1>5

LEMMA AsksFits ==
  ASSUME NEW p \in Pulls, Ready(p), Asks(p), ~ CutShort(p)
  PROVE  LeavesFit(p)
<1>0. /\ step \in [Pulls -> Steps] /\ Fits(p) /\ Ahead(p)
      /\ existing[p] \in BOOLEAN /\ at[p] = "in"
  BY ReadyFacts
<1>1. SameDirs /\ SamePlan /\ LockAlone /\ Alike /\ (had' => had)
  BY SameShows DEF Asks, Probe
<1>2. PICK label \in Steps : To(p, label)
  BY DEF Asks, Probe, AfterRecovery, Steps, Ended
<1>3. step'[p] = label
  BY <1>0, <1>2, ToShows
<1>4. \/ step[p] = "recover" /\ label = "look"
      \/ step[p] = "start" /\ label \in {"exists", "failed"}
      \/ step[p] = "stage" /\ label \in {"mkdir", "revert"}
      \/ step[p] = "more" /\ label \in {"write", "revert"}
      \/ step[p] = "swap" /\ existing[p] /\ label \in {"moveAside", "revert"}
      \/ step[p] = "swap" /\ ~ existing[p] /\ label \in {"install?", "revert"}
      \/ step[p] = "install?" /\ label \in {"install", "undo"}
      \/ step[p] = "revert" /\ label \in {"remove", "failed"}
  <2>1. \A next \in AfterRecovery : Probe(p, "recover", "look", next)
          => step[p] = "recover" /\ step'[p] \in {"look", next}
    BY <1>0, ToShows DEF Probe, Working
  <2>2. \A from, found, lost : Probe(p, from, found, lost)
          => step[p] = from /\ step'[p] \in {found, lost}
    BY <1>0, ToShows DEF Probe, Working
  <2>3. ~ (step[p] = "recover" /\ step'[p] \in AfterRecovery)
    BY <1>0 DEF CutShort
  <2> QED BY <1>0, <1>3, <2>1, <2>2, <2>3 DEF Asks, AfterRecovery
<1>5. Standing' /\ Honest'
  BY <1>1, <1>2, <1>4, LooksOn DEF Swapping
<1>6. /\ todo'[p] = todo[p] /\ existing'[p] = existing[p] /\ moved'[p] = moved[p]
      /\ block'[p] = block[p]
  BY <1>1 DEF SamePlan
<1>7. Fits(p)'
  <2>1. CASE step[p] = "recover" \/ step[p] = "install?" \/ step[p] = "revert"
    BY <1>0, <1>1, <1>3, <1>4, <1>6, <2>1 DEF Fits, Alike, Swapping, WholeCopy, Missing
  <2>2. CASE step[p] = "start" \/ step[p] = "stage"
    BY <1>0, <1>1, <1>3, <1>4, <1>6, <2>2
       DEF Fits, Alike, Swapping, Bare, FoundRun, Missing
  <2>3. CASE step[p] = "more"
    BY <1>0, <1>1, <1>3, <1>4, <1>6, <2>3
       DEF Fits, Alike, Swapping, StagedTo, FoundRun, Missing
  <2>4. CASE step[p] = "swap"
    BY <1>0, <1>1, <1>3, <1>4, <1>6, <2>4
       DEF Fits, Alike, Swapping, StagedAll, FoundRun, WholeCopy, Missing, Ahead, Staging
  <2> QED BY <1>4, <2>1, <2>2, <2>3, <2>4
<1> QED BY <1>5, <1>7 DEF LeavesFit

LEMMA LookFits ==
  ASSUME NEW p \in Pulls, Ready(p), Look(p)
  PROVE  LeavesFit(p)
<1>0. step \in [Pulls -> Steps] /\ DOMAIN todo = Pulls
  BY ReadyFacts
<1>1. /\ step[p] = "look" /\ LockAlone /\ To(p, "tidy") /\ Alike /\ (had' => had)
      /\ todo' = [todo EXCEPT ![p] = RecoveryPlan]
  BY SameShows DEF Look, Working
<1>2. step'[p] = "tidy" /\ todo'[p] = RecoveryPlan
  BY <1>0, <1>1, ToShows
<1>3. Standing' /\ Honest'
  BY <1>1, LooksOn DEF Swapping
<1>4. \/ RecoveryPlan = << >> /\ Bare
      \/ RecoveryPlan = DropBoth /\ Dest # Missing
      \/ RecoveryPlan = FinishSwap /\ Dest = Missing /\ Incoming # Missing /\ Replaced # Missing
      \/ RecoveryPlan = PutOldBack /\ Dest = Missing /\ Incoming = Missing /\ Replaced # Missing
      \/ RecoveryPlan = DropIncoming /\ Dest = Missing /\ Replaced = Missing
  BY ThereIs DEF RecoveryPlan, Bare, DropBoth, FinishSwap, PutOldBack, DropIncoming
<1>5. PlanFits(p)'
  BY <1>1, <1>2, <1>4
     DEF PlanFits, Alike, Bare, DropBoth, DropReplaced, FinishSwap, DropIfInstalled,
         PutOldBack, DropIncoming, Missing
<1>6. Fits(p)'
  BY <1>2, <1>5 DEF Fits, Swapping
<1> QED BY <1>3, <1>6 DEF LeavesFit

LEMMA TidyFits ==
  ASSUME NEW p \in Pulls, Ready(p), Tidy(p), ~ CutShort(p)
  PROVE  LeavesFit(p)
<1>0. /\ step \in [Pulls -> Steps] /\ DOMAIN todo = Pulls /\ Fits(p) /\ at[p] = "in"
      /\ Ahead(p)
  BY ReadyFacts
<1>1. step[p] = "tidy" /\ LockAlone /\ Alike /\ (had' => had)
  BY SameShows DEF Tidy, Working
<1>2. PlanFits(p)
  BY <1>0, <1>1 DEF Fits
<1>3. ~ Len(todo'[p]) < Len(todo[p])
  BY <1>0, <1>1 DEF CutShort
<1>4. CASE todo[p] = << >>
  <2>1. PICK next \in AfterRecovery : To(p, next)
    BY <1>4 DEF Tidy
  <2>2. step'[p] = next
    BY <1>0, <2>1, ToShows
  <2>3. Standing' /\ Honest'
    BY <1>1, <2>1, LooksOn DEF Swapping, AfterRecovery
  <2>4. Bare
    BY <1>2, <1>4 DEF PlanFits, DropBoth, DropReplaced, FinishSwap, DropIfInstalled,
       PutOldBack, DropIncoming
  <2>5. Fits(p)'
    BY <1>1, <2>2, <2>4 DEF Fits, Swapping, AfterRecovery, Bare, Alike, Missing
  <2> QED BY <2>3, <2>5 DEF LeavesFit
<1>5. CASE todo[p] # << >> /\ todo'[p] = todo[p] /\ step'[p] = "mutate"
            /\ Head(todo[p]) # "drop replaced if installed" /\ To(p, "mutate")
  <2>1. Standing' /\ Honest'
    BY <1>1, <1>5, LooksOn DEF Swapping
  <2>2. PlanFits(p)'
    BY <1>1, <1>2, <1>5 DEF PlanFits, Alike, Bare, DropBoth, DropReplaced, FinishSwap,
       DropIfInstalled, PutOldBack, DropIncoming, Missing
  <2>3. todo[p] # DropIfInstalled
    BY <1>5, PlanParts
  <2>4. todo'[p] \notin {<< >>, DropIfInstalled}'
    BY <1>5, <2>3 DEF DropIfInstalled
  <2>5. Fits(p)'
    BY <1>5, <2>2, <2>4 DEF Fits, Swapping
  <2> QED BY <2>1, <2>5 DEF LeavesFit
<1>6. CASE todo'[p] = DropReplaced /\ step'[p] = "tidy" /\ To(p, "tidy")
            /\ todo[p] # << >> /\ Head(todo[p]) = "drop replaced if installed"
  <2>1. Standing' /\ Honest'
    BY <1>1, <1>6, LooksOn DEF Swapping
  <2>2. todo[p] = DropIfInstalled /\ Dest # Missing /\ Incoming = Missing
    BY <1>2, <1>6, PlanParts DEF PlanFits
  <2>3. PlanFits(p)'
    BY <1>1, <1>6, <2>2 DEF PlanFits, Alike, DropReplaced, Missing
  <2>4. Fits(p)'
    BY <1>6, <2>3 DEF Fits, Swapping
  <2> QED BY <2>1, <2>4 DEF LeavesFit
<1>7. todo[p] # << >> => ~ Skip(p)
  <2> SUFFICES ASSUME todo[p] # << >>, Skip(p) PROVE FALSE
    OBVIOUS
  <2>1. todo'[p] = Tail(todo[p])
    BY <1>0 DEF Skip
  <2>2. Len(Tail(todo[p])) < Len(todo[p])
    BY <1>0, PlanShrinks DEF Ahead
  <2> QED BY <1>3, <2>1, <2>2
<1>8. todo[p] # << >> =>
        \/ /\ To(p, "tidy") /\ Head(todo[p]) = "drop replaced if installed"
           /\ todo' = [todo EXCEPT ![p] = <<"drop replaced">>]
        \/ /\ To(p, "mutate") /\ todo' = todo
           /\ Head(todo[p]) # "drop replaced if installed"
  BY <1>7 DEF Tidy
<1> QED BY <1>0, <1>4, <1>5, <1>6, <1>8, ToShows DEF DropReplaced

LEMMA KeptStill ==
  ASSUME Standing, had' => had, Dest' = Dest,
         Dest # Missing \/ (Replaced = Missing /\ Replaced' = Missing)
  PROVE  Standing'
BY DEF Standing, IsWhole, WholeCopy, Copies, Missing

LEMMA KeptWhole ==
  ASSUME NEW d, IsWhole(d), Dest' = d
  PROVE  Standing' /\ d # Missing
<1>1. d # Missing
  BY WholeCopies DEF IsWhole
<1>2. IsWhole(Dest)'
  BY DEF IsWhole, WholeCopy, Copies
<1> QED BY <1>1, <1>2 DEF Standing, Missing

LEMMA OwnStill ==
  ASSUME NEW p \in Pulls, Ready(p), step' = step, LockAlone
  PROVE  OnlyOf(p)
BY ReadyFacts DEF OnlyOf, LockAlone

\* A removal under the lock, as long as the run stands or was never there.
LEMMA RemovesOn ==
  ASSUME NEW p \in Pulls, Ready(p), OnlyOf(p), had' => had, Dest' = Dest,
         Dest # Missing \/ (Replaced = Missing /\ Replaced' = Missing)
  PROVE  Standing' /\ Honest'
<1>1. Standing /\ Honest /\ at[p] = "in"
  BY ReadyFacts
<1>2. Standing'
  BY <1>1, KeptStill
<1> QED BY <1>1, <1>2, HonestKept

\* What a mutation leaves of the plan.
LEMMA SkipShows ==
  ASSUME NEW p \in Pulls, Ready(p), step[p] = "mutate", todo[p] # << >>,
         Skip(p), ~ CutShort(p)
  PROVE  /\ todo'[p] = Tail(todo[p]) /\ To(p, "tidy") /\ step'[p] = "tidy"
         /\ ~ Trouble
<1>0. /\ step \in [Pulls -> Steps] /\ DOMAIN todo = Pulls /\ Ahead(p) /\ at[p] = "in"
      /\ LockTypeOK
  BY ReadyFacts
<1>1. todo'[p] = Tail(todo[p]) /\ To(p, "tidy")
  BY <1>0 DEF Skip
<1>2. Len(Tail(todo[p])) < Len(todo[p])
  BY <1>0, PlanShrinks DEF Ahead
<1>3. trouble' = trouble
  BY <1>0, <1>1, <1>2 DEF CutShort
<1>4. step'[p] = "tidy"
  BY <1>0, <1>1, ToShows
<1> QED BY <1>0, <1>1, <1>3, <1>4, TroubleShows

LEMMA DropFits ==
  ASSUME NEW p \in Pulls, Ready(p), step[p] = "mutate", LockAlone, ~ CutShort(p),
         NEW name \in {"incoming", "replaced"}, Drop(p, name), PlanFits(p),
         \/ todo[p] \in {DropBoth, DropIncoming} /\ name = "incoming"
         \/ todo[p] = DropReplaced /\ name = "replaced"
  PROVE  LeavesFit(p)
<1>0. /\ DirsOK /\ step \in [Pulls -> Steps] /\ DOMAIN todo = Pulls /\ Fits(p)
      /\ todo[p] # << >>
  BY ReadyFacts, PlansDiffer
<1>1. \/ todo[p] = DropBoth /\ Dest # Missing
      \/ todo[p] = DropReplaced /\ Dest # Missing /\ Incoming = Missing
      \/ todo[p] = DropIncoming /\ Dest = Missing /\ Replaced = Missing
  BY PlansDiffer, Zenon DEF PlanFits
<1>2. RemoveSome(name) \/ RemoveLast(name) =>
        /\ Dest' = Dest /\ (had' => had)
        /\ name = "incoming" => Replaced' = Replaced
        /\ name = "replaced" => Incoming' = Incoming
        /\ RemoveLast(name) /\ name = "incoming" => Incoming' = Missing
        /\ RemoveLast(name) /\ name = "replaced" => Replaced' = Missing
  BY <1>0, RemoveShows
<1>3. name = "replaced" => Dest # Missing
  BY <1>1, PlansDiffer
<1>4. \/ todo[p] = DropBoth /\ name = "incoming"
      \/ todo[p] = DropReplaced /\ name = "replaced"
      \/ todo[p] = DropIncoming /\ name = "incoming"
  OBVIOUS
<1>5. CASE RemoveSome(name) /\ todo' = todo /\ step' = step
  <2>1. Standing' /\ Honest'
    BY <1>1, <1>2, <1>3, <1>5, OwnStill, RemovesOn
  <2>2. PlanFits(p)'
    BY <1>1, <1>2, <1>5, PlanParts
       DEF PlanFits, DropBoth, DropReplaced, DropIncoming, Missing
  <2>3. Fits(p)'
    BY <1>0, <1>5, <2>2 DEF Fits, Swapping, DropIfInstalled
  <2> QED BY <2>1, <2>3 DEF LeavesFit
<1>6. CASE RemoveLast(name) /\ Skip(p)
  <2>1. todo'[p] = Tail(todo[p]) /\ To(p, "tidy") /\ step'[p] = "tidy"
    BY <1>0, <1>6, SkipShows
  <2>2. OnlyOf(p)
    BY <2>1, OwnStep
  <2>3. Standing' /\ Honest'
    BY <1>1, <1>2, <1>3, <1>6, <2>2, RemovesOn
  <2>4. ASSUME todo[p] = DropBoth, name = "incoming"
        PROVE  PlanFits(p)'
    <3>1. todo'[p] = DropReplaced /\ Dest' # Missing /\ Incoming' = Missing
      BY <1>1, <1>2, <1>6, <2>1, <2>4, PlanParts, PlansDiffer
    <3> QED BY <3>1 DEF PlanFits, DropReplaced, Missing
  <2>5. ASSUME todo[p] = DropReplaced, name = "replaced"
        PROVE  PlanFits(p)'
    <3>1. todo'[p] = << >> /\ Incoming' = Missing /\ Replaced' = Missing
      BY <1>1, <1>2, <1>6, <2>1, <2>5, PlanParts, PlansDiffer
    <3> QED BY <3>1 DEF PlanFits, Bare, Missing
  <2>6. ASSUME todo[p] = DropIncoming, name = "incoming"
        PROVE  PlanFits(p)'
    <3>1. todo'[p] = << >> /\ Incoming' = Missing /\ Replaced' = Missing
      BY <1>1, <1>2, <1>6, <2>1, <2>6, PlanParts, PlansDiffer
    <3> QED BY <3>1 DEF PlanFits, Bare, Missing
  <2>7. PlanFits(p)'
    BY <1>4, <2>4, <2>5, <2>6
  <2>8. Fits(p)'
    BY <2>1, <2>7 DEF Fits, Swapping
  <2> QED BY <2>3, <2>8 DEF LeavesFit
<1>7. ~ (RemoveFails(name) /\ Skip(p))
  BY <1>0, SkipShows, SameShows
<1> QED BY <1>5, <1>6, <1>7 DEF Drop

LEMMA PromoteFits ==
  ASSUME NEW p \in Pulls, Ready(p), step[p] = "mutate", LockAlone, ~ CutShort(p),
         NEW name \in {"incoming", "replaced"}, Promote(p, name), PlanFits(p),
         \/ todo[p] = FinishSwap /\ name = "incoming"
         \/ todo[p] = PutOldBack /\ name = "replaced"
  PROVE  LeavesFit(p)
<1>0. /\ DirsOK /\ Standing /\ Honest /\ at[p] = "in" /\ todo[p] # << >>
      /\ \A r, q \in UnderLock : r = q
  BY ReadyFacts, PlansDiffer
<1>1. /\ todo'[p] = Tail(todo[p]) /\ To(p, "tidy") /\ step'[p] = "tidy"
      /\ ~ Trouble
  BY <1>0, SkipShows DEF Promote
<1>2. /\ Dest = Missing /\ Replaced # Missing
      /\ todo[p] = FinishSwap => Incoming # Missing
      /\ todo[p] = PutOldBack => Incoming = Missing
  BY PlansDiffer, Zenon DEF PlanFits
<1>3. Rename(name, "dest")
  BY <1>1, <1>2, SameShows, PlanParts DEF Promote
<1>4. /\ name = "incoming" => /\ Dest' = Incoming /\ Incoming' = Missing
                              /\ IsWhole(Incoming) /\ todo'[p] = DropIfInstalled
      /\ name = "replaced" => /\ Dest' = Replaced /\ Incoming' = Missing
                              /\ Replaced' = Missing
                              /\ IsWhole(Replaced) /\ todo'[p] = << >>
  BY <1>0, <1>1, <1>2, <1>3, RenameShows, PlanParts DEF Standing
<1>5. Standing' /\ Dest' # Missing
  BY <1>4, KeptWhole
<1>6. OnlyOf(p)
  BY <1>1, OwnStep
<1>7. Honest'
  BY <1>0, <1>2, <1>4, <1>5, <1>6, HonestPromoted DEF Swapping
<1>8. PlanFits(p)'
  BY <1>4, <1>5 DEF PlanFits, Bare, DropIfInstalled, Missing
<1>9. Fits(p)'
  BY <1>1, <1>8 DEF Fits, Swapping
<1> QED BY <1>5, <1>7, <1>9 DEF LeavesFit

LEMMA MutateFits ==
  ASSUME NEW p \in Pulls, Ready(p), Mutate(p), ~ CutShort(p)
  PROVE  LeavesFit(p)
<1>1. /\ step[p] = "mutate" /\ LockAlone
      /\ PlanFits(p) /\ todo[p] \notin {<< >>, DropIfInstalled}
  BY ReadyFacts DEF Mutate, Working, Fits
<1>2. todo[p] \in {DropBoth, DropReplaced, FinishSwap, PutOldBack, DropIncoming}
  BY <1>1, ReadyFacts DEF Ahead, Plans
<1>3. \/ todo[p] \in {DropBoth, DropIncoming} /\ Head(todo[p]) = "drop incoming"
      \/ todo[p] = DropReplaced /\ Head(todo[p]) = "drop replaced"
      \/ todo[p] = FinishSwap /\ Head(todo[p]) = "promote incoming"
      \/ todo[p] = PutOldBack /\ Head(todo[p]) = "promote replaced"
  BY <1>2, PlanParts
<1>4. CASE Head(todo[p]) = "drop incoming"
  <2>1. Drop(p, "incoming")
    BY <1>4 DEF Mutate
  <2> QED BY <1>1, <1>3, <1>4, <2>1, DropFits
<1>5. CASE Head(todo[p]) = "drop replaced"
  <2>1. Drop(p, "replaced")
    BY <1>5 DEF Mutate
  <2> QED BY <1>1, <1>3, <1>5, <2>1, DropFits
<1>6. CASE Head(todo[p]) = "promote incoming"
  <2>1. Promote(p, "incoming")
    BY <1>6 DEF Mutate
  <2> QED BY <1>1, <1>3, <1>6, <2>1, PromoteFits
<1>7. CASE Head(todo[p]) = "promote replaced"
  <2>1. Promote(p, "replaced")
    BY <1>7 DEF Mutate
  <2> QED BY <1>1, <1>3, <1>7, <2>1, PromoteFits
<1> QED BY <1>3, <1>4, <1>5, <1>6, <1>7

LEMMA ExistsFits ==
  ASSUME NEW p \in Pulls, Ready(p), Exists(p)
  PROVE  LeavesFit(p)
<1>0. /\ step \in [Pulls -> Steps] /\ existing \in [Pulls -> BOOLEAN] /\ Fits(p)
  BY ReadyFacts
<1>1. /\ step[p] = "exists" /\ LockAlone /\ Alike /\ (had' => had)
      /\ existing' = [existing EXCEPT ![p] = There("dest")]
  BY SameShows DEF Exists, Working
<1>2. PICK label \in {"failed", "stage"} : To(p, label)
  BY DEF Exists
<1>3. step'[p] \in {"failed", "stage"}
  BY <1>0, <1>2, ToShows
<1>4. Standing' /\ Honest'
  BY <1>1, <1>2, LooksOn DEF Swapping
<1>5. existing'[p] <=> Dest # Missing
  BY <1>0, <1>1, ThereIs
<1>6. Fits(p)'
  BY <1>0, <1>1, <1>3, <1>5 DEF Fits, Swapping, Bare, FoundRun, Alike, Missing
<1> QED BY <1>4, <1>6 DEF LeavesFit

LEMMA MakeStagingFits ==
  ASSUME NEW p \in Pulls, Ready(p), MakeStaging(p)
  PROVE  LeavesFit(p)
<1>0. /\ step \in [Pulls -> Steps] /\ Fits(p) /\ Ahead(p) /\ DirsOK
      /\ block \in [Pulls -> 1..(Blocks + 1)]
  BY ReadyFacts
<1>1. /\ step[p] = "mkdir" /\ LockAlone /\ SamePlan
      /\ Bare /\ FoundRun(p) /\ block[p] = 1
  BY <1>0 DEF MakeStaging, Working, Fits, Ahead, Before
<1>2. CASE Put("incoming", Empty) /\ To(p, "write")
  <2>1. step'[p] = "write" /\ OnlyOf(p)
    BY <1>0, <1>1, <1>2, ToShows, OwnStep
  <2>2. /\ Incoming' = Empty /\ Dest' = Dest /\ Replaced' = Missing /\ Replaced = Missing
        /\ had' => had
    BY <1>0, <1>1, <1>2, PutShows DEF Bare
  <2>3. Standing' /\ Honest'
    BY <2>1, <2>2, RemovesOn
  <2>4. block'[p] = 1 /\ existing'[p] = existing[p]
    BY <1>1 DEF SamePlan
  <2>5. Empty = [b \in 1..Blocks |-> IF b < 1 THEN p ELSE NoOne]
    BY DEF Empty
  <2>6. StagedTo(p, block[p])'
    BY <2>2, <2>4, <2>5 DEF StagedTo, Missing
  <2>7. FoundRun(p)'
    BY <1>1, <2>2, <2>4 DEF FoundRun, Missing
  <2>8. Fits(p)'
    BY <2>1, <2>6, <2>7 DEF Fits, Swapping
  <2> QED BY <2>3, <2>8 DEF LeavesFit
<1>3. CASE SameDirs /\ To(p, "revert")
  <2>1. step'[p] = "revert" /\ Alike /\ (had' => had)
    BY <1>0, <1>3, ToShows, SameShows
  <2>2. Standing' /\ Honest'
    BY <1>1, <1>3, <2>1, LooksOn DEF Swapping
  <2>3. Fits(p)'
    BY <1>1, <2>1 DEF Fits, Swapping, Bare, Alike, Missing
  <2> QED BY <2>2, <2>3 DEF LeavesFit
<1>4. Incoming = Missing
  BY <1>1 DEF Bare
<1> QED BY <1>2, <1>3, <1>4, ThereIs DEF MakeStaging

LEMMA WriteFits ==
  ASSUME NEW p \in Pulls, Ready(p), step[p] = "write", LockAlone,
         existing' = existing, Write(p)
  PROVE  LeavesFit(p)
<1> DEFINE n == block[p]
           after == [b \in 1..Blocks |-> IF b < n + 1 THEN p ELSE NoOne]
<1>0. /\ step \in [Pulls -> Steps] /\ DirsOK /\ block \in [Pulls -> 1..(Blocks + 1)]
      /\ n \in Nat /\ n <= Blocks /\ Blocks \in Nat \ {0}
      /\ Incoming = [b \in 1..Blocks |-> IF b < n THEN p ELSE NoOne]
      /\ Replaced = Missing /\ FoundRun(p)
  <2>1. /\ step \in [Pulls -> Steps] /\ DirsOK /\ block \in [Pulls -> 1..(Blocks + 1)]
        /\ Fits(p) /\ BlockLeft
    BY ReadyFacts DEF Ready
  <2>2. StagedTo(p, block[p]) /\ FoundRun(p)
    BY <2>1 DEF Fits
  <2>3. block[p] \in 1..(Blocks + 1) /\ block[p] <= Blocks /\ Blocks \in Nat \ {0}
    BY <2>1, PullAssumption DEF BlockLeft, Unwritten
  <2> QED BY <2>1, <2>2, <2>3 DEF StagedTo
<1>1. There("incoming")
  <2>1. DOMAIN Incoming = 1..Blocks /\ DOMAIN Missing = {} /\ 1 \in 1..Blocks
    BY <1>0 DEF Missing
  <2> QED BY <2>1, ThereIs
<1>2. Put("incoming", [Incoming EXCEPT ![n] = p])
  BY <1>1 DEF Write, Incoming
<1>3. [Incoming EXCEPT ![n] = p] = after
  BY <1>0
<1>4. n = Blocks => after = WholeCopy(p)
  BY <1>0 DEF WholeCopy
<1>5. block' = [block EXCEPT ![p] = @ + 1]
  BY DEF Write
<1>6. block'[p] = n + 1
  BY <1>0, <1>5
<1>7. To(p, IF n = Blocks THEN "verify" ELSE "more")
  BY DEF Write
<1>8. step'[p] = IF n = Blocks THEN "verify" ELSE "more"
  BY <1>0, <1>7, ToShows
<1>9. OnlyOf(p)
  BY <1>7, OwnStep
<1>10. /\ Incoming' = after /\ Dest' = Dest /\ Replaced' = Missing
       /\ had' => had
  BY <1>0, <1>2, <1>3, PutShows
<1>11. Standing' /\ Honest'
  BY <1>0, <1>9, <1>10, RemovesOn
<1>12. StagedTo(p, block[p])'
  BY <1>6, <1>10 DEF StagedTo, Missing
<1>13. n = Blocks => StagedAll(p)'
  BY <1>4, <1>10 DEF StagedAll, Missing, WholeCopy
<1>14. FoundRun(p)'
  BY <1>0, <1>10 DEF FoundRun, Missing
<1> HIDE DEF n, after
<1>15. Fits(p)'
  BY <1>8, <1>12, <1>13, <1>14 DEF Fits, Swapping
<1> QED BY <1>11, <1>15 DEF LeavesFit

LEMMA StageFits ==
  ASSUME NEW p \in Pulls, Ready(p), Stage(p)
  PROVE  LeavesFit(p)
<1>0. step \in [Pulls -> Steps] /\ Fits(p)
  BY ReadyFacts
<1>1. step[p] = "write" /\ LockAlone /\ existing' = existing /\ Replaced = Missing
  BY <1>0 DEF Stage, Working, Fits, StagedTo
<1>2. CASE SameDirs /\ To(p, "revert")
  <2>1. step'[p] = "revert" /\ Alike /\ (had' => had)
    BY <1>0, <1>2, ToShows, SameShows
  <2>2. Standing' /\ Honest'
    BY <1>1, <1>2, <2>1, LooksOn DEF Swapping
  <2>3. Fits(p)'
    BY <1>1, <2>1 DEF Fits, Swapping, Alike, Missing
  <2> QED BY <2>2, <2>3 DEF LeavesFit
<1> QED BY <1>1, <1>2, WriteFits DEF Stage

LEMMA VerifyFits ==
  ASSUME NEW p \in Pulls, Ready(p), Verify(p)
  PROVE  LeavesFit(p)
<1>0. step \in [Pulls -> Steps] /\ Fits(p)
  BY ReadyFacts
<1>1. /\ step[p] = "verify" /\ LockAlone /\ SamePlan /\ Alike /\ (had' => had)
      /\ StagedAll(p) /\ FoundRun(p)
  BY <1>0, SameShows DEF Verify, Working, Fits
<1>2. PICK label \in {"swap", "revert"} : To(p, label)
  BY DEF Verify
<1>3. step'[p] \in {"swap", "revert"} /\ existing'[p] = existing[p]
  BY <1>0, <1>1, <1>2, ToShows DEF SamePlan
<1>4. Standing' /\ Honest'
  BY <1>1, <1>2, LooksOn DEF Swapping
<1>5. Fits(p)'
  BY <1>1, <1>3 DEF Fits, Swapping, StagedAll, FoundRun, Alike, Missing, WholeCopy
<1> QED BY <1>4, <1>5 DEF LeavesFit

LEMMA MoveAsideFits ==
  ASSUME NEW p \in Pulls, Ready(p), MoveAside(p)
  PROVE  LeavesFit(p)
<1>0. /\ step \in [Pulls -> Steps] /\ Fits(p) /\ DirsOK /\ Standing /\ Honest /\ at[p] = "in"
      /\ moved \in [Pulls -> BOOLEAN]
  BY ReadyFacts
<1>1. /\ step[p] = "moveAside" /\ LockAlone
      /\ Incoming = WholeCopy(p) /\ Replaced = Missing /\ Dest # Missing
  BY <1>0 DEF MoveAside, Working, Fits, StagedAll
<1>2. CASE /\ Rename("dest", "replaced") /\ moved' = [moved EXCEPT ![p] = TRUE]
           /\ To(p, "install?")
  <2>1. step'[p] = "install?" /\ OnlyOf(p) /\ moved'[p] = TRUE
    BY <1>0, <1>1, <1>2, ToShows, OwnStep
  <2>2. /\ Dest' = Missing /\ Replaced' = Dest /\ Incoming' = Incoming
        /\ had' => had
    BY <1>0, <1>2, RenameShows
  <2>3. IsWhole(Dest) /\ IsWhole(Incoming)
    BY <1>0, <1>1, WholeCopies DEF Standing
  <2>4. Standing'
    BY <1>1, <2>2, <2>3 DEF Standing, IsWhole, WholeCopy, Copies, Missing
  <2>5. Honest'
    BY <1>0, <1>1, <2>1, <2>2, HonestAside DEF Swapping
  <2>6. Fits(p)'
    BY <1>1, <2>1, <2>2 DEF Fits, Swapping, Missing, WholeCopy
  <2> QED BY <2>4, <2>5, <2>6 DEF LeavesFit
<1>3. CASE RenameFails("dest", "replaced") /\ To(p, "revert")
  <2>1. step'[p] = "revert" /\ Alike /\ (had' => had)
    BY <1>0, <1>3, ToShows, SameShows
  <2>2. Standing' /\ Honest'
    BY <1>1, <1>3, <2>1, LooksOn DEF Swapping
  <2>3. Fits(p)'
    BY <1>1, <2>1 DEF Fits, Swapping, Alike, Missing
  <2> QED BY <2>2, <2>3 DEF LeavesFit
<1> QED BY <1>2, <1>3 DEF MoveAside

LEMMA InstallFits ==
  ASSUME NEW p \in Pulls, Ready(p), Install(p)
  PROVE  LeavesFit(p)
<1>0. /\ step \in [Pulls -> Steps] /\ Fits(p) /\ DirsOK /\ Honest /\ at[p] = "in"
  BY ReadyFacts
<1>1. /\ step[p] = "install" /\ LockAlone /\ SamePlan
      /\ Incoming = WholeCopy(p) /\ Dest = Missing
      /\ moved[p] <=> Replaced # Missing
  BY <1>0 DEF Install, Working, Fits, Swapping
<1>2. CASE Rename("incoming", "dest") /\ To(p, "clean")
  <2>1. step'[p] = "clean" /\ OnlyOf(p)
    BY <1>0, <1>1, <1>2, ToShows, OwnStep
  <2>2. Dest' = WholeCopy(p) /\ Incoming' = Missing
    BY <1>0, <1>1, <1>2, RenameShows
  <2>3. Standing'
    BY <2>2, WholeCopies, KeptWhole
  <2>4. Honest'
    BY <1>0, <2>1, <2>2, HonestInstalled
  <2>5. Fits(p)'
    BY <2>1, <2>2 DEF Fits, Swapping, WholeCopy, Missing
  <2> QED BY <2>3, <2>4, <2>5 DEF LeavesFit
<1>3. CASE RenameFails("incoming", "dest") /\ To(p, "undo")
  <2>1. step'[p] = "undo" /\ Alike /\ (had' => had)
    BY <1>0, <1>3, ToShows, SameShows
  <2>2. Standing' /\ Honest'
    BY <1>1, <1>3, <2>1, LooksOn DEF Swapping
  <2>3. moved'[p] = moved[p]
    BY <1>1 DEF SamePlan
  <2>4. Fits(p)'
    BY <1>1, <2>1, <2>3 DEF Fits, Swapping, Alike, Missing, WholeCopy
  <2> QED BY <2>2, <2>4 DEF LeavesFit
<1> QED BY <1>2, <1>3 DEF Install

LEMMA UndoFits ==
  ASSUME NEW p \in Pulls, Ready(p), Undo(p), ~ CutShort(p)
  PROVE  LeavesFit(p)
<1>0. /\ step \in [Pulls -> Steps] /\ Fits(p) /\ DirsOK /\ LockTypeOK /\ Standing /\ Honest
      /\ at[p] = "in"
  BY ReadyFacts
<1>1. /\ step[p] = "undo" /\ LockAlone /\ SamePlan /\ To(p, "revert")
      /\ Dest = Missing /\ (moved[p] <=> Replaced # Missing)
  BY <1>0 DEF Undo, Working, Fits, Swapping
<1>2. step'[p] = "revert"
  BY <1>0, <1>1, ToShows
<1>3. CASE moved[p] /\ Rename("replaced", "dest")
  <2>1. Dest' = Replaced /\ Replaced' = Missing /\ IsWhole(Replaced)
    BY <1>0, <1>1, <1>3, RenameShows DEF Standing
  <2>2. Standing'
    BY <2>1, KeptWhole
  <2>3. OnlyOf(p)
    BY <1>1, OwnStep
  <2>4. Honest'
    BY <1>0, <1>1, <1>3, <2>1, <2>3, HonestUndone
  <2>5. Fits(p)'
    BY <1>2, <2>1 DEF Fits, Swapping, Missing
  <2> QED BY <2>2, <2>4, <2>5 DEF LeavesFit
<1>4. CASE ~ moved[p] /\ SameDirs
  <2>1. Alike /\ (had' => had)
    BY <1>4, SameShows
  <2>2. Standing' /\ Honest'
    BY <1>1, <1>4, <2>1, LooksOn
  <2>3. Fits(p)'
    BY <1>1, <1>2, <1>4, <2>1 DEF Fits, Swapping, Alike, Missing
  <2> QED BY <2>2, <2>3 DEF LeavesFit
<1>5. ~ (moved[p] /\ RenameFails("replaced", "dest"))
  BY <1>0, <1>1, SameShows, TroubleShows DEF CutShort
<1> QED BY <1>3, <1>4, <1>5 DEF Undo

LEMMA RevertFits ==
  ASSUME NEW p \in Pulls, Ready(p), Revert(p)
  PROVE  LeavesFit(p)
<1>0. step \in [Pulls -> Steps] /\ Fits(p) /\ DirsOK
  BY ReadyFacts
<1>1. step[p] = "remove" /\ LockAlone /\ Replaced = Missing
  BY <1>0 DEF Revert, Working, Fits
<1>2. CASE RemoveSome("incoming") /\ step' = step
  <2>1. Dest' = Dest /\ Replaced' = Missing /\ (had' => had) /\ step'[p] = "remove"
    BY <1>0, <1>1, <1>2, RemoveShows
  <2>2. Standing' /\ Honest'
    BY <1>1, <1>2, <2>1, OwnStill, RemovesOn
  <2>3. Fits(p)'
    BY <2>1 DEF Fits, Swapping, Missing
  <2> QED BY <2>2, <2>3 DEF LeavesFit
<1>3. CASE /\ RemoveLast("incoming") \/ RemoveFails("incoming")
           /\ To(p, "failed")
  <2>1. Dest' = Dest /\ Replaced' = Missing /\ (had' => had) /\ step'[p] = "failed"
    BY <1>0, <1>1, <1>3, RemoveShows, SameShows, ToShows DEF Alike
  <2>2. Standing' /\ Honest'
    BY <1>1, <1>3, <2>1, OwnStep, RemovesOn
  <2>3. Fits(p)'
    BY <2>1 DEF Fits, Swapping
  <2> QED BY <2>2, <2>3 DEF LeavesFit
<1> QED BY <1>2, <1>3 DEF Revert

LEMMA CleanFits ==
  ASSUME NEW p \in Pulls, Ready(p), Clean(p)
  PROVE  LeavesFit(p)
<1>0. step \in [Pulls -> Steps] /\ Fits(p) /\ DirsOK
  BY ReadyFacts
<1>1. /\ step[p] = "clean" /\ LockAlone /\ Dest = WholeCopy(p) /\ Incoming = Missing
      /\ Dest # Missing
  BY <1>0, WholeCopies DEF Clean, Working, Fits
<1>2. CASE RemoveSome("replaced") /\ step' = step
  <2>1. Dest' = Dest /\ Incoming' = Incoming /\ (had' => had) /\ step'[p] = "clean"
    BY <1>0, <1>1, <1>2, RemoveShows
  <2>2. Standing' /\ Honest'
    BY <1>1, <1>2, <2>1, OwnStill, RemovesOn
  <2>3. Fits(p)'
    BY <1>1, <2>1 DEF Fits, Swapping, Missing, WholeCopy
  <2> QED BY <2>2, <2>3 DEF LeavesFit
<1>3. CASE /\ RemoveLast("replaced") \/ RemoveFails("replaced")
           /\ To(p, "done") \/ To(p, "unclean")
  <2>1. Dest' = Dest /\ (had' => had) /\ step'[p] \in {"done", "unclean"} /\ OnlyOf(p)
    BY <1>0, <1>1, <1>3, RemoveShows, SameShows, ToShows, OwnStep DEF Alike
  <2>2. Standing' /\ Honest'
    BY <1>1, <2>1, RemovesOn
  <2>3. Fits(p)'
    BY <2>1 DEF Fits, Swapping
  <2> QED BY <2>2, <2>3 DEF LeavesFit
<1> QED BY <1>2, <1>3 DEF Clean

LEMMA StepFits ==
  ASSUME NEW p \in Pulls, Ready(p), PullStep(p), ~ CutShort(p)
  PROVE  LeavesFit(p)
BY AsksFits, LookFits, TidyFits, MutateFits, ExistsFits, MakeStagingFits, StageFits,
   VerifyFits, MoveAsideFits, InstallFits, UndoFits, RevertFits, CleanFits DEF PullStep

-----------------------------------------------------------------------------
(* Any step of any session. *)

\* How a step under the lock moves its own session, and that it moves no other.
MovesOn(p) ==
  /\ at[p] = "in" /\ step[p] \notin Ended
  /\ DOMAIN todo' = Pulls
  /\ \A q \in Pulls : q # p =>
       /\ step'[q] = step[q] /\ todo'[q] = todo[q]
       /\ block'[q] = block[q] /\ moved'[q] = moved[q]
  /\ step'[p] \in Before => step[p] \in Before /\ block'[p] = block[p]
  /\ step'[p] \in Staging => step[p] \in Staging /\ moved'[p] = moved[p]
  /\ step'[p] = "mutate" => todo'[p] = todo[p] /\ (step[p] = "mutate" \/ todo[p] # << >>)
  /\ \/ todo'[p] = todo[p]
     \/ todo'[p] = RecoveryPlan
     \/ todo'[p] = DropReplaced
     \/ todo'[p] = Tail(todo[p]) /\ (step[p] = "mutate" \/ todo[p] # << >>)

LEMMA WorkMoves ==
  ASSUME PullTypeOK, DOMAIN todo = Pulls, NEW p \in Pulls, PullStep(p)
  PROVE  MovesOn(p)
<1> USE DEF MovesOn, Working, To, SamePlan, Ended, Before, Staging
<1>0. /\ step \in [Pulls -> Steps] /\ block \in [Pulls -> 1..(Blocks + 1)]
      /\ moved \in [Pulls -> BOOLEAN]
  BY DEF PullTypeOK
<1>1. CASE Asks(p)
  <2>1. UNCHANGED <<todo, block, moved>> /\ DOMAIN todo' = Pulls
    BY <1>1 DEF Asks, Probe
  <2> QED BY <1>0, <1>1, <2>1 DEF Asks, Probe, AfterRecovery
<1>2. CASE Look(p)
  BY <1>0, <1>2 DEF Look
<1>3. CASE Tidy(p)
  BY <1>0, <1>3 DEF Tidy, Skip, AfterRecovery, DropReplaced
<1>4. CASE Mutate(p)
  BY <1>0, <1>4 DEF Mutate, Drop, Promote, Skip
<1>5. CASE Exists(p) \/ MakeStaging(p) \/ Verify(p)
  BY <1>0, <1>5 DEF Exists, MakeStaging, Verify
<1>6. CASE Stage(p)
  BY <1>0, <1>6 DEF Stage, Write
<1>7. CASE MoveAside(p) \/ Install(p) \/ Undo(p)
  BY <1>0, <1>7 DEF MoveAside, Install, Undo
<1>8. CASE Revert(p) \/ Clean(p)
  BY <1>0, <1>8 DEF Revert, Clean
<1> QED BY <1>1, <1>2, <1>3, <1>4, <1>5, <1>6, <1>7, <1>8 DEF PullStep

LEMMA PlansMade == RecoveryPlan \in Plans /\ DropReplaced \in Plans
BY DEF RecoveryPlan, Plans, DropBoth, FinishSwap, PutOldBack, DropIncoming

LEMMA AheadKept ==
  ASSUME PullTypeOK, DOMAIN todo = Pulls, \A q \in Pulls : Ahead(q),
         NEW p \in Pulls, PullStep(p)
  PROVE  DOMAIN todo' = Pulls /\ \A q \in Pulls : Ahead(q)'
<1>1. MovesOn(p) /\ at' = at
  BY WorkMoves, WorkLeavesLocks DEF LockAlone
<1>2. ASSUME NEW q \in Pulls, q # p
      PROVE  Ahead(q)'
  BY <1>1, <1>2 DEF MovesOn, Ahead, Plans, DropBoth, DropReplaced, FinishSwap,
     DropIfInstalled, PutOldBack, DropIncoming
<1>3. Ahead(p)'
  <2>1. Ahead(p)
    OBVIOUS
  <2>2. todo'[p] \in Plans
    BY <1>1, <2>1, PlansMade, PlanShrinks DEF MovesOn, Ahead
  <2>3. Plans' = Plans
    BY DEF Plans, DropBoth, DropReplaced, FinishSwap, DropIfInstalled, PutOldBack,
       DropIncoming
  <2> QED BY <1>1, <2>1, <2>2, <2>3 DEF MovesOn, Ahead
<1> QED BY <1>1, <1>2, <1>3 DEF MovesOn

\* How a step on the lock file moves the sessions.
LEMMA LockMoves ==
  ASSUME LockTypeOK, NEW p \in Pulls, Handles(p), NEW q \in Pulls
  PROVE  /\ at'[q] = "in" => at[q] \in {"in", "trying"}
         /\ at[q] = "dead" => at'[q] = "dead"
         /\ at'[q] = "dead" \/ at'[q] = at[q] \/ at[q] # "in" \/ (q = p /\ Release(p))
         /\ at'[q] \in {"trying", "breaking", "judging", "restoring"} =>
              at[q] \in {"trying", "breaking", "judging", "restoring"}
<1> USE DEF LockTypeOK, Go
<1>1. CASE Create(p) \/ FindStale(p) \/ GiveUp(p)
  BY <1>1 DEF Create, FindStale, GiveUp
<1>2. CASE Claim(p)
  BY <1>2 DEF Claim, ClaimAndGo
<1>3. CASE Judge(p)
  BY <1>3 DEF Judge, RemoveAside, LeaveAside, Keep
<1>4. CASE Restore(p)
  BY <1>4 DEF Restore, PutBack, LeaveAside
<1>5. CASE Inspect(p)
  BY <1>5 DEF Inspect, RemoveAside, LeaveAside, Keep
<1>6. CASE BeatAsks(p) \/ BeatTouches(p) \/ Ages(p) \/ Kill(p)
  BY <1>6 DEF BeatAsks, BeatTouches, Ages, Kill
<1>7. CASE Release(p)
  BY <1>7 DEF Release, Keep
<1> QED BY <1>1, <1>2, <1>3, <1>4, <1>5, <1>6, <1>7 DEF Handles, LockStep

\* A session leaves its work by its release or is killed.
LEMMA KeepsIn ==
  ASSUME LockTypeOK, NEW p \in Pulls, LockStep(p), at[p] = "in"
  PROVE  at'[p] \in {"in", "dead"}
<1>1. BeatAsks(p) \/ BeatTouches(p) \/ Ages(p) \/ Kill(p)
  BY DEF LockStep, Create, FindStale, GiveUp, Claim, ClaimAndGo, Judge, Restore, Inspect
<1> QED BY <1>1 DEF BeatAsks, BeatTouches, Ages, Kill, Go, LockTypeOK

DirsStand == UNCHANGED <<step, todo, existing, moved, block, dirs, had>>

LEMMA StandingStill ==
  ASSUME DirsStand
  PROVE  /\ Alike
         /\ Standing => Standing'
         /\ \A q \in Pulls : Fits(q) => Fits(q)'
<1>1. Alike /\ had' = had
  BY DEF DirsStand, Alike, Dest, Incoming, Replaced
<1>2. Standing => Standing'
  BY <1>1, KeptAlike
<1>3. ASSUME NEW q \in Pulls, Fits(q)
      PROVE  Fits(q)'
  <2>1. PlanFits(q) => PlanFits(q)'
    BY <1>1 DEF DirsStand, Alike, PlanFits, Bare, DropBoth, DropReplaced, FinishSwap,
       DropIfInstalled, PutOldBack, DropIncoming, Missing
  <2>2. /\ Bare => Bare'
        /\ FoundRun(q) => FoundRun(q)'
        /\ StagedTo(q, block[q]) => StagedTo(q, block[q])'
        /\ StagedAll(q) => StagedAll(q)'
    BY <1>1 DEF DirsStand, Alike, Bare, FoundRun, StagedTo, StagedAll, Missing, WholeCopy
  <2>3. DropIfInstalled' = DropIfInstalled /\ Missing' = Missing
        /\ WholeCopy(q)' = WholeCopy(q) /\ Swapping' = Swapping
    BY DEF DropIfInstalled, Missing, WholeCopy, Swapping
  <2>4. /\ step' = step /\ todo' = todo /\ moved' = moved
    BY DEF DirsStand
  <2> QED BY <1>1, <1>3, <2>1, <2>2, <2>3, <2>4 DEF Fits, Alike
<1> QED BY <1>1, <1>2, <1>3

LEMMA AheadStands ==
  ASSUME LockTypeOK, NEW p \in Pulls, Handles(p), DirsStand, NEW q \in Pulls, Ahead(q)
  PROVE  Ahead(q)'
<1>1. Plans' = Plans
  BY DEF Plans, DropBoth, DropReplaced, FinishSwap, DropIfInstalled, PutOldBack,
     DropIncoming
<1>2. step' = step /\ todo' = todo /\ moved' = moved /\ block' = block
  BY DEF DirsStand
<1> QED BY <1>1, <1>2, LockMoves DEF Ahead, Before, Staging

\* The lock file changes hands, the directories stand.
LEMMA HandsOver ==
  ASSUME LockTypeOK, InOrder, \A q \in Pulls : Ahead(q),
         NEW p \in Pulls, Handles(p), DirsStand,
         Release(p) => step[p] \in Ended,
         \A r, q \in UnderLock' : r = q
  PROVE  InOrder'
<1>1. Standing' /\ Alike
  BY StandingStill DEF InOrder
<1>2. ASSUME NEW q \in UnderLock'
      PROVE  Fits(q)'
  <2>1. q \in Pulls /\ at'[q] = "in" /\ step[q] \notin Ended /\ step'[q] = step[q]
    BY <1>2 DEF UnderLock, DirsStand, Ended
  <2>2. at[q] = "in" \/ at[q] = "trying"
    BY <2>1, LockMoves
  <2>3. CASE at[q] = "in"
    <3>1. q \in UnderLock
      BY <2>1, <2>3 DEF UnderLock
    <3> QED BY <2>1, <3>1, StandingStill DEF InOrder
  <2>4. CASE at[q] = "trying"
    <3>1. step'[q] = "recover"
      BY <2>1, <2>4 DEF Ahead
    <3> QED BY <3>1 DEF Fits, Swapping
  <2> QED BY <2>2, <2>3, <2>4
<1>3. Honest'
  <2> SUFFICES ASSUME NEW q \in Pulls, Uninstalled(q)' PROVE NotItsCopy(q)'
    BY DEF Honest
  <2>1. step'[q] = step[q]
    BY DEF DirsStand
  <2>2. at[q] = "dead" => at'[q] = "dead"
    BY LockMoves
  <2>3. NotItsCopy(q)
    BY <2>1, <2>2 DEF InOrder, Honest, Uninstalled
  <2>4. at[q] = "in" /\ step[q] \in Swapping => at'[q] = "in"
    BY <2>1, LockMoves DEF Uninstalled, Swapping, Ended
  <2>5. WholeCopy(q)' = WholeCopy(q) /\ Missing' = Missing
    BY DEF WholeCopy, Missing
  <2> QED BY <1>1, <2>1, <2>3, <2>4, <2>5 DEF NotItsCopy, Alike, Swapping
<1> QED BY <1>1, <1>2, <1>3 DEF InOrder

\* The session at work takes its step.
LEMMA WorksOn ==
  ASSUME PullTypeOK, BlockLeft, DOMAIN todo = Pulls, \A q \in Pulls : Ahead(q), InOrder,
         NEW p \in Pulls, PullStep(p), ~ CutShort(p),
         \A r, q \in UnderLock' : r = q
  PROVE  InOrder'
<1>1. MovesOn(p) /\ at' = at
  BY WorkMoves, WorkLeavesLocks DEF LockAlone
<1>2. p \in UnderLock
  BY <1>1 DEF MovesOn, UnderLock
<1>3. LeavesFit(p)
  BY <1>2, StepFits DEF Ready
<1>4. ASSUME NEW q \in UnderLock'
      PROVE  q = p
  BY <1>1, <1>2, <1>4 DEF UnderLock, MovesOn, InOrder, Ended
<1> QED BY <1>3, <1>4 DEF LeavesFit, InOrder

LEMMA StoreShows ==
  ASSUME NEW d, NEW i, NEW r, dirs = Store(d, i, r)
  PROVE  Dest = d /\ Incoming = i /\ Replaced = r
BY DEF Store, Dest, Incoming, Replaced, Names

\* What a pull begins with: a tidy store, or what one killed pull has left.
LEMMA FirstStore ==
  ASSUME PullInit
  PROVE  /\ Standing
         /\ Dest \in {Missing, WholeCopy(Local), WholeCopy(lock)}
         /\ Dest = WholeCopy(lock) => lock # NoOne
         /\ Dest = Missing /\ Replaced # Missing =>
              /\ lock # NoOne
              /\ Replaced = WholeCopy(Local) /\ Incoming = WholeCopy(lock)
<1>0. /\ Local \in Copies /\ (lock # NoOne => lock \in Copies)
      /\ IsWhole(WholeCopy(Local)) /\ WholeCopy(Local) # Missing
      /\ lock # NoOne => IsWhole(WholeCopy(lock)) /\ WholeCopy(lock) # Missing
  <2>1. Local \in Copies /\ (lock # NoOne => lock \in Copies)
    BY DEF PullInit, LockInit, Copies
  <2> QED BY <2>1, WholeCopies
<1>1. had = (Dest # Missing \/ Replaced # Missing)
  BY ThereIs DEF PullInit
<1>2. \/ \E d \in {Missing, WholeCopy(Local)} : dirs = Store(d, Missing, Missing)
      \/ \E d \in {Missing, WholeCopy(Local)}, i \in Parts(lock) :
           lock # NoOne /\ dirs = Store(d, i, Missing)
      \/ lock # NoOne /\ dirs = Store(Missing, WholeCopy(lock), WholeCopy(Local))
      \/ \E r \in Parts(Local) \union {Missing} :
           lock # NoOne /\ dirs = Store(WholeCopy(lock), Missing, r)
  BY DEF PullInit, Tidied, LeftBy
<1>3. \/ Dest \in {Missing, WholeCopy(Local)} /\ Replaced = Missing
      \/ /\ lock # NoOne /\ Dest = Missing
         /\ Replaced = WholeCopy(Local) /\ Incoming = WholeCopy(lock)
      \/ lock # NoOne /\ Dest = WholeCopy(lock)
  BY <1>2, StoreShows
<1>4. WholeCopy(NoOne) # Missing
  <2>1. DOMAIN WholeCopy(NoOne) = 1..Blocks /\ 1 \in 1..Blocks /\ DOMAIN Missing = {}
    BY PullAssumption DEF WholeCopy, Missing
  <2> QED BY <2>1
<1>5. Dest = WholeCopy(lock) /\ Dest = WholeCopy(Local) => lock = Local
  <2>1. 1 \in 1..Blocks
    BY PullAssumption
  <2> QED BY <2>1 DEF WholeCopy
<1>6. Local # NoOne
  BY PullAssumption
<1> QED BY <1>0, <1>1, <1>3, <1>4, <1>5, <1>6 DEF Standing

LEMMA RunInvInit ==
  ASSUME PullInit
  PROVE  RunInv
<1>1. /\ step = [p \in Pulls |-> "recover"] /\ todo = [p \in Pulls |-> << >>]
      /\ block = [p \in Pulls |-> 1] /\ moved = [p \in Pulls |-> FALSE]
      /\ at = [p \in Pulls |-> IF p = lock THEN "dead" ELSE "trying"]
  BY DEF PullInit, LockInit
<1>2. DOMAIN todo = Pulls /\ \A p \in Pulls : Ahead(p)
  BY <1>1 DEF Ahead, Plans, Before
<1>3. UnderLock = {}
  BY <1>1 DEF UnderLock
<1>4. ASSUME NEW p \in Pulls, Uninstalled(p)
      PROVE  NotItsCopy(p)
  <2>1. p # lock /\ p # Local
    BY <1>1, <1>4, PullAssumption DEF Uninstalled
  <2>2. p \in Copies /\ Local \in Copies /\ (lock # NoOne => lock \in Copies)
    BY DEF PullInit, LockInit, Copies
  <2>3. /\ WholeCopy(p) # WholeCopy(Local) /\ WholeCopy(p) # Missing
        /\ lock # NoOne => WholeCopy(p) # WholeCopy(lock)
    BY <2>1, <2>2, WholeCopies
  <2> QED BY <2>3, FirstStore DEF NotItsCopy
<1>5. InOrder
  BY <1>3, <1>4, FirstStore DEF InOrder, Honest
<1> QED BY <1>2, <1>5 DEF RunInv

LEMMA RunInvNext ==
  ASSUME PullInv, RunInv, [PullNext]_pullVars
  PROVE  RunInv'
<1>0. LockTypeOK /\ PullTypeOK /\ BlockLeft
  BY DEF PullInv, PullTypeOK
<1>1. CASE UNCHANGED pullVars
  <2>1. DirsStand /\ at' = at /\ orderly' = orderly
    BY <1>1 DEF pullVars, lockVars, sessionVars, DirsStand
  <2>2. \A q \in Pulls : Ahead(q)'
    BY <2>1 DEF RunInv, DirsStand, Ahead, Before, Staging, Plans, DropBoth, DropReplaced,
       FinishSwap, DropIfInstalled, PutOldBack, DropIncoming
  <2>3. ASSUME InOrder
        PROVE  InOrder'
    <3>1. Standing' /\ Alike /\ (\A q \in Pulls : Fits(q) => Fits(q)')
      BY <2>1, <2>3, StandingStill DEF InOrder
    <3>2. UnderLock' = UnderLock /\ UnderLock \subseteq Pulls
      BY <2>1 DEF UnderLock, DirsStand, Ended
    <3>3. Honest'
      BY <2>1, <2>3, <3>1 DEF InOrder, Honest, Uninstalled, NotItsCopy, Alike, DirsStand,
         Swapping, WholeCopy, Missing
    <3> QED BY <2>3, <3>1, <3>2, <3>3 DEF InOrder
  <2> QED BY <2>1, <2>2, <2>3 DEF RunInv, DirsStand
<1>2. ASSUME NEW p \in Pulls, Locking(p) \/ Leave(p), PullNext
      PROVE  RunInv'
  <2>1. Handles(p) /\ DirsStand /\ (Release(p) => step[p] \in Ended \/ Locking(p))
    BY <1>2 DEF Locking, Leave, Handles, DirsStand, sessionVars
  <2>2. Locking(p) => ~ Release(p)
    BY <1>0, KeepsIn DEF Locking, Release, Keep, Go, LockTypeOK
  <2>3. \A q \in Pulls : Ahead(q)'
    BY <1>0, <2>1, AheadStands DEF RunInv
  <2>4. orderly' => orderly /\ \A r, q \in UnderLock' : r = q
    BY <1>2 DEF PullNext
  <2>5. orderly' => InOrder'
    BY <1>0, <2>1, <2>2, <2>4, HandsOver DEF RunInv
  <2> QED BY <2>1, <2>3, <2>5 DEF RunInv, DirsStand
<1>3. ASSUME NEW p \in Pulls, PullStep(p), PullNext
      PROVE  RunInv'
  <2>1. orderly' => orderly /\ ~ CutShort(p) /\ \A r, q \in UnderLock' : r = q
    BY <1>3 DEF PullNext
  <2>2. DOMAIN todo' = Pulls /\ \A q \in Pulls : Ahead(q)'
    BY <1>0, <1>3, AheadKept DEF RunInv
  <2>3. orderly' => InOrder'
    BY <1>0, <1>3, <2>1, WorksOn DEF RunInv
  <2> QED BY <2>2, <2>3 DEF RunInv
<1> QED BY <1>1, <1>2, <1>3 DEF PullNext

\* The invariant in the form the temporal step needs.
WholeInv == PullInv /\ RunInv

LEMMA WholeInvHolds == PullSpec => []WholeInv
<1>1. PullInit => WholeInv
  BY PullInvInit, RunInvInit DEF WholeInv
<1>2. WholeInv /\ [PullNext]_pullVars => WholeInv'
  BY PullInvNext, RunInvNext DEF WholeInv
<1> QED BY <1>1, <1>2, PTL DEF PullSpec

(***************************************************************************)
(* Wherever pulls are killed or fail in an orderly history, swapStagedRun  *)
(* and recoverInterruptedSwap between them leave one whole copy of the run *)
(* for the next recovery to find.                                          *)
(***************************************************************************)
THEOREM RunAlwaysSurvives == PullSpec => []RunSurvives
<1>1. WholeInv => RunSurvives
  <2> SUFFICES ASSUME RunInv, orderly, had PROVE IsWhole(Recoverable)
    BY DEF WholeInv, RunSurvives
  <2>1. Standing
    BY DEF RunInv, InOrder
  <2>2. Recoverable = IF Dest # Missing THEN Dest
                      ELSE IF Replaced = Missing THEN Missing
                      ELSE IF Incoming # Missing THEN Incoming ELSE Replaced
    BY ThereIs DEF Recoverable, Dest, Incoming, Replaced
  <2> QED BY <2>1, <2>2 DEF Standing
<1> QED BY <1>1, WholeInvHolds, PTL

(***************************************************************************)
(* In an orderly history what stands at <run> is one copy, complete: only  *)
(* two sessions that work at once, or a recovery cut short, can leave a    *)
(* blend there.                                                            *)
(***************************************************************************)
OrderlyWhole == orderly => InstalledWhole

THEOREM OrderlyRunIsWhole == PullSpec => []OrderlyWhole
<1>1. WholeInv => OrderlyWhole
  BY ThereIs DEF WholeInv, OrderlyWhole, InstalledWhole, RunInv, InOrder, Standing, Dest
<1> QED BY <1>1, WholeInvHolds, PTL

(***************************************************************************)
(* A pull that reports failure has not installed its copy, and no later    *)
(* recovery installs it for it (revertStagedSwap: "the caller is about to  *)
(* be told the pull did not happen").                                      *)
(***************************************************************************)
THEOREM FailuresAreTrue == PullSpec => []FailureIsTrue
<1>1. WholeInv => FailureIsTrue
  BY DEF WholeInv, FailureIsTrue, RunInv, InOrder, Honest, Uninstalled, NotItsCopy, Dest
<1> QED BY <1>1, WholeInvHolds, PTL

(***************************************************************************)
(* A pull that reports success installed its own copy and has removed the  *)
(* one it replaced.                                                        *)
(***************************************************************************)
THEOREM SuccessesAreTrue == PullSpec => SuccessIsTrue
<1> DEFINE Step ==
      \A p \in Pulls :
        orderly' /\ step[p] = "clean" /\ step'[p] = "done" =>
          dirs'["dest"] = WholeCopy(p) /\ dirs'["replaced"] = Missing
<1>1. ASSUME WholeInv, [PullNext]_pullVars
      PROVE  [Step]_pullVars
  <2> SUFFICES ASSUME PullNext, NEW p \in Pulls, orderly', step[p] = "clean",
                      step'[p] = "done"
               PROVE  dirs'["dest"] = WholeCopy(p) /\ dirs'["replaced"] = Missing
    BY <1>1
  <2>1. PICK q \in Pulls : Locking(q) \/ Leave(q) \/ PullStep(q)
    BY DEF PullNext
  <2>2. PullStep(q)
    BY <2>1 DEF Locking, Leave, sessionVars
  <2>3. PullTypeOK /\ DOMAIN todo = Pulls /\ DirsOK /\ InOrder
    BY <1>1 DEF WholeInv, PullInv, RunInv, PullNext, PullTypeOK, DirsOK
  <2>4. q = p /\ at[p] = "in"
    BY <2>2, <2>3, WorkMoves DEF MovesOn
  <2>5. Fits(p)
    BY <2>3, <2>4 DEF InOrder, UnderLock, Ended
  <2>6. Dest = WholeCopy(p)
    BY <2>5 DEF Fits
  <2>7. Clean(p)
    <3>1. step \in [Pulls -> Steps]
      BY <2>3 DEF PullTypeOK
    <3> QED BY <2>2, <2>4, <3>1
         DEF PullStep, Asks, Probe, AfterRecovery, Look, Tidy, Mutate, Exists, MakeStaging,
             Stage, Verify, MoveAside, Install, Undo, Revert, Working
  <2>8. RemoveLast("replaced")
    <3>1. ~ (To(p, "unclean")) /\ step' # step
      BY <2>3, ToShows DEF PullTypeOK
    <3> QED BY <2>7, <3>1 DEF Clean
  <2>9. Dest' = Dest /\ Replaced' = Missing
    BY <2>3, <2>8, RemoveShows
  <2> QED BY <2>6, <2>9 DEF Dest, Replaced
<1> QED BY <1>1, WholeInvHolds, PTL DEF PullSpec, SuccessIsTrue

-----------------------------------------------------------------------------
(* The exchange of a run: its inductive invariant. *)

\* What a file of a run can hold, and a run directory or a copy of it.
Seals == {SealedAs(root) : root \in AllEvents \union {Absent}}
Holds(f, content) ==
  /\ f = EventsFile => content \in AllEvents
  /\ f = Manifest => content \in Seals
  /\ f \notin {EventsFile, Manifest} => content = "content"
IsCopy(files) ==
  /\ DOMAIN files \subseteq Files /\ files = [f \in DOMAIN files |-> files[f]]
  /\ \A f \in DOMAIN files : Holds(f, files[f])

\* The run on the pushing machine: its events are whole and refer to blobs it has.
RunStands ==
  /\ IsCopy(mine) /\ {EventsFile, Manifest} \subseteq DOMAIN mine
  /\ mine[EventsFile].whole
  /\ Referred[mine[EventsFile].version] \subseteq DOMAIN mine

Scrubs == writer = "scrub"
Target == IF Scrubs THEN "scrubbed" ELSE "raw"
RawOnly == Referred["raw"] \ Referred["scrubbed"]
ScrubbedEvents == Edit(EventsFile, Events("scrubbed"))

\* What is still to be written: each file once, a blob before the events that refer to it
\* and, if it goes, after those that do not.
StillTo ==
  /\ edits \in Seq({edits[i] : i \in 1..Len(edits)})
  /\ \A i \in 1..Len(edits) : edits[i] = Edit(edits[i].file, edits[i].to) /\ edits[i].file \in Files
  /\ \A i, j \in 1..Len(edits) : edits[i].file = edits[j].file => i = j
  /\ \A i \in 1..Len(edits) :
       \/ edits[i].to = Absent /\ Scrubs /\ edits[i].file \in RawOnly
            /\ (mine[EventsFile].version = "scrubbed" \/ \E j \in 1..(i - 1) : edits[j] = ScrubbedEvents)
       \/ edits[i] = Edit(EventsFile, Events(Target))
            /\ \A f \in Referred[Target] : f \in DOMAIN mine \/ \E j \in 1..(i - 1) : edits[j] = Edit(f, "content")
       \/ /\ edits[i].file # EventsFile /\ edits[i].to # Absent
          /\ Holds(edits[i].file, edits[i].to) /\ (Scrubs => edits[i].file \notin RawOnly)
  /\ Scrubs => \A f \in DOMAIN mine : HoldsRaw(f, mine[f]) =>
       \E i \in 1..Len(edits) : edits[i] = IF f = EventsFile THEN ScrubbedEvents ELSE Edit(f, Absent)

\* What a file was when the push began, it is or has been edited since.
Same(f) ==
  /\ f \in DOMAIN mine <=> f \in DOMAIN push.found
  /\ f \in DOMAIN mine => mine[f] = push.found[f]

PushSteps == {"start", "walk", "failed", "send", "refused", "done"}
PushShape ==
  /\ push = [step |-> push.step, fs |-> push.fs, todo |-> push.todo, inside |-> push.inside,
             got |-> push.got, zip |-> push.zip, found |-> push.found, quiet |-> push.quiet,
             scrubbed |-> push.scrubbed]
  /\ push.step \in PushSteps /\ push.fs \in BOOLEAN
  /\ push.todo \subseteq Shipped(push.fs)
  /\ push.inside \subseteq {f \in Files : Head(f) \in Shipped(push.fs) \intersect {"blobs", "fs"}}
  /\ \A f \in push.inside : Head(f) \notin push.todo
  /\ push.step = "start" => push.inside = {} /\ DOMAIN push.got = {}
  /\ IsCopy(push.got) /\ IsCopy(push.found)
  /\ \A f \in DOMAIN push.got : Head(f) \in Shipped(push.fs)
  /\ EventsFile \in DOMAIN push.got => push.got[EventsFile].whole

\* The walk: what did not change since it began has been read as it was then, is listed,
\* or is still to be listed.
Walked ==
  push.step = "walk" => \A f \in Files :
    /\ ~ Same(f) => \A i \in 1..Len(edits) : edits[i].file # f
    /\ Same(f) =>
         /\ f \in DOMAIN push.got => f \in DOMAIN push.found /\ push.got[f] = push.found[f]
         /\ f \in push.inside => f \in DOMAIN push.found
         /\ f \in DOMAIN push.found /\ Head(f) \in Shipped(push.fs) =>
              Head(f) \in push.todo \/ f \in push.inside \/ f \in DOMAIN push.got

NothingRaw ==
  push.scrubbed =>
    /\ Scrubs /\ edits = << >>
    /\ \A f \in DOMAIN push.got : ~ HoldsRaw(f, push.got[f])

Packed ==
  /\ push.step = "send" =>
       push.zip = Zip(Entries(push.got)) /\ Len(Entries(push.got)) <= MaxEntries
  /\ push.step \in {"send", "refused", "done"} /\ push.quiet =>
       /\ DOMAIN push.got = {f \in DOMAIN push.found : Head(f) \in Shipped(push.fs)}
       /\ EventsFile \in DOMAIN push.got
       /\ Referred[push.got[EventsFile].version] \subseteq DOMAIN push.got

\* The gateway's copy has what was packed, and vouches for its events only if they are
\* whole or it says that they are not.
Vouched(files, truncated) ==
  {EventsFile, Manifest} \subseteq DOMAIN files /\ files[Manifest].root # Absent
    /\ files[EventsFile] = files[Manifest].root /\ ~ truncated => files[EventsFile].whole
Stored ==
  /\ push.step = "done" /\ DOMAIN held.files = DOMAIN push.got
  /\ IsCopy(held.files) /\ Vouched(held.files, held.truncated)

\* A local copy that is sealed holds the events it was sealed over.
SealHolds(files) ==
  RootOf(files) # Absent => EventsFile \in DOMAIN files /\ files[EventsFile] = RootOf(files)

PullSteps == {"start", "failed", "unpack", "verify", "done"}
Fetched ==
  /\ pull = [step |-> pull.step, force |-> pull.force, zip |-> pull.zip, from |-> pull.from,
             staged |-> pull.staged, warned |-> pull.warned, before |-> pull.before,
             said |-> pull.said]
  /\ pull.step \in PullSteps
  /\ pull.step \in {"unpack", "verify", "done"} =>
       held # Absent /\ pull.from = held.files /\ pull.warned = held.truncated
  /\ pull.step = "unpack" =>
       \E directories \in BOOLEAN : pull.zip \in Damaged(Exported(held, directories))
  /\ pull.step = "verify" => pull.staged = held.files
  /\ pull.step = "done" => theirs = held.files
  /\ SealHolds(theirs)

ExchangeBooks ==
  /\ RunStands /\ StillTo
  /\ PushShape /\ Walked /\ NothingRaw /\ Packed
  /\ (held # Absent \/ push.step = "done") => Stored
  /\ Fetched /\ ReportIsTrue
-----------------------------------------------------------------------------
(* Lists of files, and the archive. *)

LEMMA NamedFiles ==
  /\ Head(Manifest) = "manifest.json" /\ Head(EventsFile) = "events.jsonl"
  /\ Head(Ledger) = "redactions.json"
  /\ Manifest # EventsFile /\ Ledger \notin {Manifest, EventsFile}
  /\ \A name : Head(<<name>>) = name
  /\ BlobFiles \subseteq Files /\ BlobFiles \intersect {Manifest, EventsFile, Ledger} = {}
<1>1. \A name : Head(<<name>>) = name
  OBVIOUS
<1>2. /\ Head(Manifest) = "manifest.json" /\ Head(EventsFile) = "events.jsonl"
      /\ Head(Ledger) = "redactions.json"
  BY <1>1 DEF Manifest, EventsFile, Ledger
<1> QED
  BY <1>1, <1>2 DEF BlobFiles

\* Where an element stands among those of a set.
UpTo(S, x) == {y \in S : y <= x}
Rank(S, x) == Cardinality(UpTo(S, x))

LEMMA RankIs ==
  ASSUME NEW S \in SUBSET Nat, IsFiniteSet(S)
  PROVE  /\ \A i \in 1..Cardinality(S) : \E x \in S : Rank(S, x) = i
         /\ \A x \in S : Rank(S, x) \in 1..Cardinality(S)
         /\ \A x, y \in S : Rank(S, x) = Rank(S, y) => x = y
<1> DEFINE f == [x \in S |-> Rank(S, x)]
           n == Cardinality(S)
<1>0. n \in Nat
  BY FS_CardinalityType
<1>1. ASSUME NEW x \in S PROVE Rank(S, x) \in 1..n
  <2>1. UpTo(S, x) \in SUBSET S /\ x \in UpTo(S, x)
    BY DEF UpTo
  <2>2. IsFiniteSet(UpTo(S, x)) /\ Rank(S, x) <= n
    BY <2>1, FS_Subset DEF Rank
  <2>3. Rank(S, x) \in Nat /\ Rank(S, x) # 0
    BY <2>1, <2>2, FS_CardinalityType, FS_EmptySet DEF Rank
  <2> QED
    BY <1>0, <2>2, <2>3
<1>2. ASSUME NEW x \in S, NEW y \in S, x < y PROVE Rank(S, x) # Rank(S, y)
  <2>1. UpTo(S, x) \in SUBSET UpTo(S, y) /\ y \in UpTo(S, y) /\ y \notin UpTo(S, x)
    <3>1. x \in Nat /\ y \in Nat /\ S \subseteq Nat
      OBVIOUS
    <3>2. y <= y /\ ~ (y <= x) /\ \A z \in S : z <= x => z <= y
      BY <3>1, <1>2
    <3> QED
      BY <3>2 DEF UpTo
  <2>2. IsFiniteSet(UpTo(S, y))
    BY FS_Subset DEF UpTo
  <2> QED
    BY <2>1, <2>2, FS_Subset DEF Rank
<1>3. f \in [S -> 1..n] /\ \A x, y \in S : f[x] = f[y] => x = y
  <2>1. ASSUME NEW x \in S, NEW y \in S, x # y PROVE Rank(S, x) # Rank(S, y)
    <3>1. x < y \/ y < x
      BY <2>1
    <3> QED
      BY <3>1, <1>2
  <2> HIDE DEF n
  <2> QED
    BY <1>1, <2>1
<1>4. IsFiniteSet(1..n) /\ Cardinality(1..n) = n
  BY <1>0, FS_Interval
<1>5. f \in Injection(S, 1..n)
  <2> HIDE DEF f, n
  <2> QED
    BY <1>3 DEF Injection, IsInjective
<1>6. f \in Surjection(S, 1..n)
  <2> HIDE DEF f
  <2> QED
    BY <1>4, <1>5, FS_Injection
<1>7. \A i \in 1..n : \E x \in S : f[x] = i
  <2> HIDE DEF f, n
  <2> QED
    BY <1>6 DEF Surjection
<1>8. \A x \in S : f[x] = Rank(S, x)
  OBVIOUS
<1> HIDE DEF f
<1> QED
  BY <1>1, <1>3, <1>7, <1>8

\* A list of some of the files names each of them, once.
LEMMA SortedIs ==
  ASSUME NEW S
  PROVE  /\ Sorted(S) \in Seq(S \intersect Files)
         /\ \A f \in S \intersect Files : \E n \in 1..Len(Sorted(S)) : Sorted(S)[n] = f
         /\ \A m, n \in 1..Len(Sorted(S)) : Sorted(S)[m] = Sorted(S)[n] => m = n
<1> DEFINE places == {i \in 1..Len(Order) : Order[i] \in S}
           c == Cardinality(places)
           pick(n) == CHOOSE i \in places : Rank(places, i) = n
<1>1. Len(Order) \in Nat
  BY ExchangeAssumption, LenProperties DEF ExchangeAssumption
<1>2. places \in SUBSET Nat /\ places \in SUBSET (1..Len(Order))
  BY <1>1
<1>3. IsFiniteSet(1..Len(Order))
  BY <1>1, FS_Interval
<1>4. IsFiniteSet(places) /\ c \in Nat
  BY <1>2, <1>3, FS_Subset, FS_CardinalityType
<1>5. Sorted(S) = [n \in 1..c |-> Order[pick(n)]]
  BY DEF Sorted, Rank, UpTo
<1>6. \A i \in places : Order[i] \in S \intersect Files
  BY DEF Files
<1>7. \A f \in S \intersect Files : \E i \in places : Order[i] = f
  BY DEF Files
<1>8. \A i, j \in places : Order[i] = Order[j] => i = j
  BY ExchangeAssumption DEF ExchangeAssumption
<1> HIDE DEF places
<1>9. ASSUME NEW n \in 1..c PROVE pick(n) \in places /\ Rank(places, pick(n)) = n
  BY <1>2, <1>4, RankIs
<1>10. ASSUME NEW i \in places PROVE Rank(places, i) \in 1..c /\ pick(Rank(places, i)) = i
  BY <1>2, <1>4, RankIs
<1> HIDE DEF pick, c
<1>11. \A n \in 1..c : Order[pick(n)] \in S \intersect Files
  BY <1>6, <1>9
<1>12. Sorted(S) \in Seq(S \intersect Files)
  BY <1>4, <1>5, <1>11, IsASeq
<1>13. Len(Sorted(S)) = c
  BY <1>4, <1>5, <1>12, LenProperties
<1>14. ASSUME NEW f \in S \intersect Files PROVE \E n \in 1..c : Sorted(S)[n] = f
  <2>1. PICK i \in places : Order[i] = f
    BY <1>7
  <2> QED
    BY <2>1, <1>5, <1>10
<1>15. ASSUME NEW m \in 1..c, NEW n \in 1..c, Sorted(S)[m] = Sorted(S)[n] PROVE m = n
  <2>1. Order[pick(m)] = Order[pick(n)]
    BY <1>5, <1>15
  <2>2. pick(m) = pick(n)
    BY <2>1, <1>8, <1>9
  <2> QED
    BY <2>2, <1>9
<1> QED
  BY <1>12, <1>13, <1>14, <1>15

\* What an archive lists of a copy.
Lists(entries, files) ==
  /\ entries \in Seq({entries[i] : i \in 1..Len(entries)})
  /\ \A i \in 1..Len(entries) : "intact" \in DOMAIN entries[i]
  /\ \A i \in 1..Len(entries) : ~ entries[i].directory =>
       entries[i].file \in DOMAIN files /\ entries[i].content = files[entries[i].file]
  /\ \A f \in DOMAIN files : \E i \in 1..Len(entries) : ~ entries[i].directory /\ entries[i].file = f

LEMMA UnpacksTo ==
  ASSUME NEW files, IsCopy(files), NEW entries, Lists(entries, files)
  PROVE  Unpacked(entries) = files
<1> DEFINE nodes == {i \in 1..Len(entries) : ~ entries[i].directory}
           place(f) == CHOOSE i \in nodes : entries[i].file = f
<1>1. {entries[i].file : i \in nodes} = DOMAIN files
  <2>1. \A i \in nodes : entries[i].file \in DOMAIN files
    BY DEF Lists
  <2>2. \A f \in DOMAIN files : \E i \in nodes : entries[i].file = f
    BY DEF Lists
  <2> HIDE DEF nodes
  <2> QED
    BY <2>1, <2>2
<1>2. Unpacked(entries) = [f \in {entries[i].file : i \in nodes} |-> entries[place(f)].content]
  BY DEF Unpacked
<1>3. \A f \in DOMAIN files : place(f) \in nodes /\ entries[place(f)].file = f
  BY <1>1
<1> HIDE DEF place
<1>4. \A f \in DOMAIN files : entries[place(f)].content = files[f]
  BY <1>3 DEF Lists
<1> HIDE DEF nodes
<1> QED
  BY <1>1, <1>2, <1>4 DEF IsCopy

LEMMA EntriesAre ==
  ASSUME NEW files, IsCopy(files)
  PROVE  /\ Lists(Entries(files), files)
         /\ \A i \in 1..Len(Entries(files)) :
              Entries(files)[i].intact /\ ~ Entries(files)[i].directory
<1> DEFINE names == Sorted(DOMAIN files)
           listed(i) == Entry(names[i], files[names[i]])
<1>1. DOMAIN files \intersect Files = DOMAIN files
  BY DEF IsCopy
<1>2. /\ names \in Seq(DOMAIN files)
      /\ \A f \in DOMAIN files : \E n \in 1..Len(names) : names[n] = f
  BY <1>1, SortedIs
<1> HIDE DEF names
<1>3. Len(names) \in Nat
  BY <1>2, LenProperties
<1>4. Entries(files) = [i \in 1..Len(names) |-> listed(i)]
  BY DEF Entries, names
<1>5. \A i \in 1..Len(names) : names[i] \in DOMAIN files
  BY <1>2, ElementOfSeq
<1>6. \A i \in 1..Len(names) :
        /\ Entries(files)[i].file = names[i] /\ Entries(files)[i].content = files[names[i]]
        /\ ~ Entries(files)[i].directory /\ Entries(files)[i].intact
        /\ "intact" \in DOMAIN Entries(files)[i]
  BY <1>4 DEF Entry
<1>7. Entries(files) \in Seq({listed(i) : i \in 1..Len(names)})
  BY <1>3, <1>4, IsASeq
<1>8. Len(Entries(files)) = Len(names) /\ \A i \in 1..Len(names) : Entries(files)[i] = listed(i)
  BY <1>3, <1>4, <1>7, LenProperties
<1>9. {listed(i) : i \in 1..Len(names)} = {Entries(files)[i] : i \in 1..Len(Entries(files))}
  BY <1>8
<1>10. Entries(files) \in Seq({Entries(files)[i] : i \in 1..Len(Entries(files))})
  BY <1>7, <1>9
<1> HIDE DEF listed
<1>11. \A f \in DOMAIN files : \E i \in 1..Len(Entries(files)) :
         ~ Entries(files)[i].directory /\ Entries(files)[i].file = f
  BY <1>2, <1>6, <1>8
<1>12. \A i \in 1..Len(Entries(files)) :
         /\ Entries(files)[i].file \in DOMAIN files
         /\ Entries(files)[i].content = files[Entries(files)[i].file]
         /\ "intact" \in DOMAIN Entries(files)[i]
  BY <1>5, <1>6, <1>8
<1>13. Lists(Entries(files), files)
  BY <1>10, <1>11, <1>12, Zenon DEF Lists
<1> QED
  BY <1>6, <1>8, <1>13

\* What the gateway makes of an archive that was not too large for its trailer.
LEMMA ReadsBack ==
  ASSUME NEW files, IsCopy(files), Len(Entries(files)) <= MaxEntries
  PROVE  /\ ReadArchive(Zip(Entries(files))) = Entries(files)
         /\ Unpacked(ReadArchive(Zip(Entries(files)))) = files
<1> DEFINE e == Entries(files)
           n == Len(e)
<1>1. e \in Seq({e[i] : i \in 1..n}) /\ \A i \in 1..n : e[i].intact
  <2>1. Lists(e, files) /\ \A i \in 1..Len(e) : e[i].intact
    BY EntriesAre
  <2> HIDE DEF e
  <2> QED
    BY <2>1, Zenon DEF Lists
<1>2. n \in Nat
  BY <1>1, LenProperties
<1>3. Counter \in Nat /\ Counter > 1 /\ n <= Counter - 2
  BY ExchangeAssumption DEF ExchangeAssumption, MaxEntries
<1>4. n % Counter = n /\ n # Sentinel
  <2> HIDE DEF n
  <2> QED
    BY <1>2, <1>3 DEF Sentinel
<1>5. /\ Zip(e).entries = e /\ Zip(e).count = n /\ Zip(e).trailer
  BY <1>4 DEF Zip
<1>6. SubSeq(e, 1, n) = e
  BY <1>1, SubSeqFull
<1>7. ReadArchive(Zip(e)) = e
  BY <1>1, <1>4, <1>5, <1>6 DEF ReadArchive
<1> QED
  BY <1>7, EntriesAre, UnpacksTo

\* A pull reads what the gateway exported, or nothing.
LEMMA ArrivesOrNot ==
  ASSUME NEW copy, IsCopy(copy.files), NEW directories \in BOOLEAN,
         NEW zip \in Damaged(Exported(copy, directories)), ReadArchive(zip) # Absent
  PROVE  Unpacked(ReadArchive(zip)) = copy.files
<1> DEFINE own == Entries(copy.files)
           dir == [Entry(<<"blobs">>, Absent) EXCEPT !.directory = TRUE]
           e == (IF directories THEN <<dir>> ELSE << >>) \o own
           n == Len(e)
           sent == [entries |-> e, trailer |-> TRUE, count |-> IF n < Sentinel THEN n ELSE Sentinel]
           T == {own[i] : i \in 1..Len(own)} \union {dir}
<1>1. Exported(copy, directories) = sent
  BY DEF Exported
<1>2. own \in Seq({own[i] : i \in 1..Len(own)}) /\ Lists(own, copy.files)
  <2>1. Lists(own, copy.files)
    BY EntriesAre
  <2> HIDE DEF own
  <2> QED
    BY <2>1, Zenon DEF Lists
<1>3. own \in Seq(T) /\ <<dir>> \in Seq(T) /\ << >> \in Seq(T)
  <2>1. {own[i] : i \in 1..Len(own)} \subseteq T /\ dir \in T
    OBVIOUS
  <2> HIDE DEF T, own, dir
  <2> QED
    BY <1>2, <2>1, SeqMonotonic
<1>4. dir.directory /\ "intact" \in DOMAIN dir
  BY DEF Entry
<1> HIDE DEF T, dir, own
<1>5. Len(own) \in Nat
  BY <1>3, LenProperties
<1>6. e \in Seq(T) /\ n \in Nat /\ Lists(e, copy.files)
  <2>1. CASE ~ directories
    <3>1. e = own
      BY <1>3, <2>1, ConcatEmptySeq
    <3> QED
      BY <1>2, <1>3, <1>5, <3>1
  <2>2. CASE directories
    <3>1. e = <<dir>> \o own
      BY <2>2
    <3>2. Len(<<dir>>) = 1 /\ <<dir>>[1] = dir
      OBVIOUS
    <3>3. /\ e \in Seq(T) /\ n = 1 + Len(own)
          /\ \A i \in 1..(1 + Len(own)) : e[i] = IF i <= 1 THEN <<dir>>[i] ELSE own[i - 1]
      <4> HIDE DEF e
      <4> QED
        BY <1>3, <3>1, <3>2, ConcatProperties, Zenon DEF n
    <3> HIDE DEF e, n
    <3>4. e[1] = dir /\ \A i \in 1..Len(own) : i + 1 \in 1..n /\ e[i + 1] = own[i]
      BY <1>5, <3>2, <3>3
    <3>5. \A i \in 1..n : i = 1 \/ (i - 1 \in 1..Len(own) /\ e[i] = own[i - 1])
      BY <1>5, <3>3
    <3>10. /\ \A i \in 1..Len(own) : "intact" \in DOMAIN own[i]
           /\ \A i \in 1..Len(own) : ~ own[i].directory =>
                own[i].file \in DOMAIN copy.files /\ own[i].content = copy.files[own[i].file]
           /\ \A f \in DOMAIN copy.files :
                \E i \in 1..Len(own) : ~ own[i].directory /\ own[i].file = f
      BY <1>2, Zenon DEF Lists
    <3>6. \A i \in 1..n : /\ "intact" \in DOMAIN e[i]
                          /\ ~ e[i].directory =>
                               /\ e[i].file \in DOMAIN copy.files
                               /\ e[i].content = copy.files[e[i].file]
      <4> TAKE i \in 1..n
      <4>1. CASE i = 1
        BY <1>4, <3>4, <4>1
      <4>2. CASE i # 1
        <5>1. i - 1 \in 1..Len(own) /\ e[i] = own[i - 1]
          BY <3>5, <4>2
        <5> QED
          BY <3>10, <5>1
      <4> QED
        BY <4>1, <4>2
    <3>7. \A f \in DOMAIN copy.files : \E i \in 1..n : ~ e[i].directory /\ e[i].file = f
      BY <3>4, <3>10
    <3>8. n \in Nat
      BY <1>5, <3>3
    <3>9. e \in Seq({e[i] : i \in 1..n})
      <4>1. e = [i \in 1..n |-> e[i]]
        BY <3>3, LenProperties DEF n
      <4>2. [i \in 1..n |-> e[i]] \in Seq({e[i] : i \in 1..n})
        BY <3>8, IsASeq
      <4> QED
        BY <4>1, <4>2
    <3> QED
      BY <3>3, <3>6, <3>7, <3>8, <3>9 DEF Lists, n
  <2> QED
    BY <2>1, <2>2
<1> HIDE DEF e, n
<1>7. Sentinel \in Nat
  BY ExchangeAssumption DEF ExchangeAssumption, Sentinel
<1>8. zip.entries = e \/ \E i \in 1..n : zip = [sent EXCEPT !.entries[i].intact = FALSE]
  <2>1. sent.entries = e /\ zip \in Damaged(sent)
    BY <1>1
  <2>2. [sent EXCEPT !.trailer = FALSE].entries = e
    OBVIOUS
  <2> HIDE DEF sent
  <2>3. \/ zip = sent \/ zip = [sent EXCEPT !.trailer = FALSE]
        \/ \E i \in 1..Len(sent.entries) : zip = [sent EXCEPT !.entries[i].intact = FALSE]
    BY <2>1 DEF Damaged
  <2> QED
    BY <2>1, <2>2, <2>3 DEF n
<1>9. zip.count = (IF n < Sentinel THEN n ELSE Sentinel)
  BY <1>1 DEF Damaged
<1>10. zip.count # Sentinel /\ \A i \in 1..zip.count : zip.entries[i].intact
  BY DEF ReadArchive
<1>11. zip.count = n
  BY <1>6, <1>7, <1>9, <1>10
<1>15. \A i \in 1..n : "intact" \in DOMAIN e[i]
  BY <1>6, Zenon DEF Lists, n
<1>12. zip.entries = e
  <2>1. ASSUME NEW i \in 1..n, zip = [sent EXCEPT !.entries[i].intact = FALSE] PROVE FALSE
    <3>1. zip.entries = [e EXCEPT ![i].intact = FALSE]
      BY <2>1
    <3>2. DOMAIN e = 1..n
      BY <1>6, LenProperties DEF n
    <3>3. zip.entries[i] = [e[i] EXCEPT !.intact = FALSE]
      BY <3>1, <3>2
    <3> QED
      BY <1>10, <1>11, <1>15, <3>3
  <2> QED
    BY <1>8, <2>1
<1>13. SubSeq(e, 1, n) = e
  BY <1>6, SubSeqFull DEF n
<1>14. ReadArchive(zip) = e
  BY <1>10, <1>11, <1>12, <1>13 DEF ReadArchive
<1> QED
  BY <1>6, <1>14, UnpacksTo

-----------------------------------------------------------------------------
(* A run that was recorded, and what is still to be written of it. *)

Versions == {"begun", "raw", "scrubbed"}

LEMMA Contents ==
  /\ \A v \in Versions : Events(v) \in AllEvents /\ Events(v).version = v /\ Events(v).whole
  /\ \A v \in Versions : Referred[v] \subseteq BlobFiles /\ Referred[v] \subseteq Files
  /\ {Manifest, EventsFile, Ledger} \subseteq Files
  /\ \A root \in AllEvents \union {Absent} :
       SealedAs(root) \in Seals /\ SealedAs(root).root = root /\ SealedAs(root) # Absent
  /\ Absent # "content" /\ Absent \notin AllEvents
<1>1. \A v \in Versions : Events(v) \in AllEvents /\ Events(v).version = v /\ Events(v).whole
  BY DEF Versions, Events, AllEvents
<1>2. \A v \in Versions : Referred[v] \subseteq BlobFiles /\ BlobFiles \subseteq Files
  BY ExchangeAssumption, NamedFiles DEF ExchangeAssumption, Versions
<1>3. \A root \in AllEvents \union {Absent} : SealedAs(root) \in Seals /\ SealedAs(root).root = root
  BY DEF Seals, SealedAs
<1> QED
  BY <1>1, <1>2, <1>3, ExchangeAssumption DEF ExchangeAssumption

LEMMA RecordedIs ==
  ASSUME NEW v \in Versions, NEW sealed \in BOOLEAN
  PROVE  /\ IsCopy(RecordedAs(v, sealed)) /\ SealHolds(RecordedAs(v, sealed))
         /\ DOMAIN RecordedAs(v, sealed) = (Files \ (BlobFiles \union {Ledger})) \union Referred[v]
         /\ {EventsFile, Manifest} \subseteq DOMAIN RecordedAs(v, sealed)
         /\ RecordedAs(v, sealed)[EventsFile] = Events(v)
<1> DEFINE r == RecordedAs(v, sealed)
           seal == IF sealed THEN Events(v) ELSE Absent
           D == (Files \ (BlobFiles \union {Ledger})) \union Referred[v]
           content(f) == IF f = EventsFile THEN Events(v)
                      ELSE IF f = Manifest THEN SealedAs(seal) ELSE "content"
<1>1. r = [f \in D |-> content(f)]
  BY DEF RecordedAs
<1>2. /\ D \subseteq Files /\ {EventsFile, Manifest} \subseteq D
      /\ seal \in AllEvents \union {Absent} /\ SealedAs(seal) \in Seals
      /\ SealedAs(seal).root = seal
  BY Contents, NamedFiles
<1> HIDE DEF D, seal
<1>3. DOMAIN r = D /\ \A f \in D : r[f] = content(f)
  BY <1>1
<1>4. \A f \in D : Holds(f, content(f))
  BY <1>2, NamedFiles, Contents DEF Holds
<1>5. r = [f \in D |-> r[f]]
  BY <1>1
<1> HIDE DEF r
<1>6. IsCopy(r)
  BY <1>2, <1>3, <1>4, <1>5 DEF IsCopy
<1>7. r[EventsFile] = Events(v) /\ r[Manifest] = SealedAs(seal)
  BY <1>2, <1>3, NamedFiles
<1>8. RootOf(r) \in {Absent, seal}
  BY <1>2, <1>7 DEF RootOf
<1>9. SealHolds(r)
  BY <1>2, <1>3, <1>7, <1>8 DEF SealHolds, seal
<1> QED
  BY <1>2, <1>3, <1>6, <1>7, <1>9 DEF r, D

LEMMA OwnSeq ==
  ASSUME NEW S, NEW s \in Seq(S)
  PROVE  s \in Seq({s[i] : i \in 1..Len(s)}) /\ Len(s) \in Nat
<1>1. s \in [1..Len(s) -> S] /\ Len(s) \in Nat
  BY LenProperties
<1>2. s = [i \in 1..Len(s) |-> s[i]]
  BY <1>1
<1>3. [i \in 1..Len(s) |-> s[i]] \in Seq({s[i] : i \in 1..Len(s)})
  BY <1>1, IsASeq
<1> QED
  BY <1>1, <1>2, <1>3

LEMMA EachIs ==
  ASSUME NEW v \in Versions, NEW old \in Versions, NEW content
  PROVE  LET s == Each(Adds(v, old), content)
             S == Referred[v] \ Referred[old]
         IN /\ s \in Seq({Edit(f, content) : f \in S})
            /\ \A i \in 1..Len(s) : s[i].file \in S /\ s[i] = Edit(s[i].file, content)
            /\ \A f \in S : \E i \in 1..Len(s) : s[i] = Edit(f, content)
            /\ \A i, j \in 1..Len(s) : s[i].file = s[j].file => i = j
<1> DEFINE S == Referred[v] \ Referred[old]
           names == Sorted(S)
           s == Each(names, content)
<1>1. S \intersect Files = S
  BY Contents
<1>2. names \in Seq(S)
  BY <1>1, SortedIs
<1>3. \A f \in S : \E n \in 1..Len(names) : names[n] = f
  BY <1>1, SortedIs
<1>4. \A m, n \in 1..Len(names) : names[m] = names[n] => m = n
  BY SortedIs
<1>5. Each(Adds(v, old), content) = s
  BY DEF Adds
<1> HIDE DEF S, names
<1>6. Len(names) \in Nat /\ \A i \in 1..Len(names) : names[i] \in S
  BY <1>2, LenProperties, ElementOfSeq
<1>7. s = [i \in 1..Len(names) |-> Edit(names[i], content)]
  BY DEF Each
<1>8. \A i \in 1..Len(names) : Edit(names[i], content) \in {Edit(f, content) : f \in S}
  BY <1>6
<1>9. s \in Seq({Edit(f, content) : f \in S})
  BY <1>6, <1>7, <1>8, IsASeq
<1>10. Len(s) = Len(names)
  BY <1>6, <1>7, <1>9, LenProperties
<1>11. \A i \in 1..Len(s) : s[i] = Edit(names[i], content) /\ s[i].file = names[i]
  BY <1>7, <1>10 DEF Edit
<1> HIDE DEF s
<1> QED
  BY <1>3, <1>4, <1>5, <1>6, <1>9, <1>10, <1>11 DEF S

LEMMA JoinIs ==
  ASSUME NEW S, NEW s \in Seq(S), NEW t \in Seq(S)
  PROVE  /\ s \o t \in Seq(S) /\ Len(s \o t) = Len(s) + Len(t)
         /\ \A i \in 1..Len(s) : (s \o t)[i] = s[i]
         /\ \A i \in 1..Len(t) : (s \o t)[Len(s) + i] = t[i]
<1> DEFINE j == s \o t
<1>1. Len(s) \in Nat /\ Len(t) \in Nat
  BY LenProperties
<1>2. /\ j \in Seq(S) /\ Len(j) = Len(s) + Len(t)
      /\ \A i \in 1..(Len(s) + Len(t)) : j[i] = IF i <= Len(s) THEN s[i] ELSE t[i - Len(s)]
  BY ConcatProperties, Zenon
<1> HIDE DEF j
<1>3. ASSUME NEW i \in 1..Len(s) PROVE j[i] = s[i]
  <2>1. i \in 1..(Len(s) + Len(t)) /\ i <= Len(s)
    BY ONLY <1>1
  <2> QED
    BY ONLY <2>1, <1>2
<1>4. ASSUME NEW i \in 1..Len(t) PROVE j[Len(s) + i] = t[i]
  <2>1. /\ Len(s) + i \in 1..(Len(s) + Len(t)) /\ ~ (Len(s) + i <= Len(s))
        /\ (Len(s) + i) - Len(s) = i
    BY ONLY <1>1
  <2> QED
    BY ONLY <2>1, <1>2
<1> QED
  BY <1>2, <1>3, <1>4, Zenon DEF j

LEMMA RecordingStarts ==
  ASSUME mine = RecordedAs("begun", FALSE), writer = "recorder", edits = RecordingEdits
  PROVE  RunStands /\ StillTo
<1> DEFINE A == Each(Adds("raw", "begun"), "content")
           ev == Edit(EventsFile, Events("raw"))
           man == Edit(Manifest, SealedAs(Events("raw")))
           M == <<ev, man>>
           a == Len(A)
           S == Referred["raw"] \ Referred["begun"]
           T == {Edit(f, "content") : f \in S} \union {ev, man}
<1>0. A \in Seq({Edit(f, "content") : f \in S})
  BY EachIs DEF Versions
<1>1. /\ \A i \in 1..a : A[i].file \in S /\ A[i] = Edit(A[i].file, "content")
      /\ \A f \in S : \E i \in 1..a : A[i] = Edit(f, "content")
      /\ \A i, j \in 1..a : A[i].file = A[j].file => i = j
  BY EachIs DEF Versions
<1>2. edits = A \o M
  BY DEF RecordingEdits
<1>3. /\ ev.file = EventsFile /\ man.file = Manifest /\ ev = Edit(ev.file, ev.to)
      /\ man = Edit(man.file, man.to) /\ man.to = SealedAs(Events("raw"))
  BY DEF Edit
<1>4. M \in Seq(T) /\ Len(M) = 2 /\ M[1] = ev /\ M[2] = man
  OBVIOUS
<1>5. {Edit(f, "content") : f \in S} \subseteq T
  OBVIOUS
<1>6. S \subseteq BlobFiles /\ S \subseteq Files
  BY Contents DEF Versions
<1> HIDE DEF A, M, ev, man, S, T
<1>7. A \in Seq(T)
  BY <1>0, <1>5, SeqMonotonic
<1>8. a \in Nat
  BY <1>7, LenProperties
<1>9. /\ edits \in Seq(T) /\ Len(edits) = a + Len(M)
      /\ \A i \in 1..a : edits[i] = A[i]
      /\ \A i \in 1..Len(M) : edits[a + i] = M[i]
  <2>1. /\ A \o M \in Seq(T) /\ Len(A \o M) = a + Len(M)
        /\ \A i \in 1..a : (A \o M)[i] = A[i]
        /\ \A i \in 1..Len(M) : (A \o M)[a + i] = M[i]
    <3> HIDE DEF a
    <3>1. a = Len(A)
      BY DEF a
    <3>2. M \in Seq(T)
      BY <1>4
    <3> QED
      BY ONLY <1>7, <3>1, <3>2, JoinIs
  <2> QED
    BY <2>1, <1>2
<1> HIDE DEF a
<1>10. /\ \A i \in 1..a : i \in 1..(a + 2) /\ edits[i] = A[i]
       /\ a + 1 \in 1..(a + 2) /\ edits[a + 1] = ev
       /\ a + 2 \in 1..(a + 2) /\ edits[a + 2] = man
  BY <1>4, <1>8, <1>9
<1>11. \A i \in 1..(a + 2) : i \in 1..a \/ i = a + 1 \/ i = a + 2
  BY <1>8
<1>12. /\ IsCopy(mine) /\ {EventsFile, Manifest} \subseteq DOMAIN mine
       /\ Referred["begun"] \subseteq DOMAIN mine /\ mine[EventsFile] = Events("begun")
  BY RecordedIs, Zenon DEF Versions
<1>13. RunStands
  BY <1>12, Contents DEF RunStands, Versions
<1>14. edits \in Seq({edits[i] : i \in 1..Len(edits)})
  BY <1>9, OwnSeq
<1>15. \A i \in 1..(a + 2) : edits[i] = Edit(edits[i].file, edits[i].to) /\ edits[i].file \in Files
  <2>1. \A f, c : Edit(f, c).file = f /\ Edit(f, c).to = c
    BY DEF Edit
  <2> QED
    BY <2>1, <1>1, <1>3, <1>6, <1>10, <1>11, Contents
<1>16. \A i, j \in 1..(a + 2) : edits[i].file = edits[j].file => i = j
  BY <1>1, <1>3, <1>6, <1>10, <1>11, NamedFiles
<1>18. ~ Scrubs /\ Target = "raw"
  BY DEF Scrubs, Target
<1>17. ASSUME NEW i \in 1..(a + 2)
       PROVE  \/ /\ edits[i] = Edit(EventsFile, Events(Target))
                 /\ \A f \in Referred[Target] :
                      f \in DOMAIN mine \/ \E j \in 1..(i - 1) : edits[j] = Edit(f, "content")
              \/ /\ edits[i].file # EventsFile /\ edits[i].to # Absent
                 /\ Holds(edits[i].file, edits[i].to)
  <2>1. CASE i \in 1..a
    <3>1. edits[i].file \in S /\ edits[i] = Edit(edits[i].file, "content")
      BY <2>1, <1>1, <1>10
    <3>2. edits[i].to = "content"
      BY <3>1 DEF Edit
    <3> QED
      BY <3>1, <3>2, <1>6, NamedFiles, Contents DEF Holds
  <2>2. CASE i = a + 1
    <3>1. \A f \in S : \E j \in 1..(i - 1) : edits[j] = Edit(f, "content")
      <4>1. i - 1 = a
        BY <2>2, <1>8
      <4> QED
        BY <4>1, <1>1, <1>10
    <3> QED
      BY <2>2, <3>1, <1>10, <1>12, <1>18 DEF S, ev
  <2>3. CASE i = a + 2
    <3>1. edits[i].file = Manifest /\ edits[i].to = SealedAs(Events("raw"))
      BY <2>3, <1>3, <1>10
    <3>2. Events("raw") \in AllEvents
      BY Contents DEF Versions
    <3>3. SealedAs(Events("raw")) \in Seals /\ SealedAs(Events("raw")) # Absent
      BY <3>2, Contents
    <3> QED
      BY <3>1, <3>3, NamedFiles DEF Holds
  <2> QED
    BY <1>11, <2>1, <2>2, <2>3
<1>19. \A i \in 1..Len(edits) :
         \/ edits[i].to = Absent /\ Scrubs /\ edits[i].file \in RawOnly
              /\ (mine[EventsFile].version = "scrubbed" \/ \E j \in 1..(i - 1) : edits[j] = ScrubbedEvents)
         \/ edits[i] = Edit(EventsFile, Events(Target))
              /\ \A f \in Referred[Target] : f \in DOMAIN mine \/ \E j \in 1..(i - 1) : edits[j] = Edit(f, "content")
         \/ /\ edits[i].file # EventsFile /\ edits[i].to # Absent
            /\ Holds(edits[i].file, edits[i].to) /\ (Scrubs => edits[i].file \notin RawOnly)
  BY <1>4, <1>9, <1>17, <1>18, Zenon
<1>20. Len(edits) = a + 2
  BY <1>4, <1>9
<1>21. /\ \A i \in 1..Len(edits) : edits[i] = Edit(edits[i].file, edits[i].to) /\ edits[i].file \in Files
       /\ \A i, j \in 1..Len(edits) : edits[i].file = edits[j].file => i = j
  BY ONLY <1>15, <1>16, <1>20
<1>22. Scrubs => \A f \in DOMAIN mine : HoldsRaw(f, mine[f]) =>
         \E i \in 1..Len(edits) : edits[i] = IF f = EventsFile THEN ScrubbedEvents ELSE Edit(f, Absent)
  BY ONLY <1>18
<1>23. StillTo
  BY ONLY <1>14, <1>19, <1>21, <1>22, Zenon DEF StillTo
<1> QED
  BY <1>13, <1>23

LEMMA ScrubStarts ==
  ASSUME NEW sealed \in BOOLEAN,
         mine = RecordedAs("raw", sealed), writer = "scrub", edits = ScrubEdits(sealed)
  PROVE  RunStands /\ StillTo
<1> DEFINE A == Each(Adds("scrubbed", "raw"), "content")
           B == Each(Adds("raw", "scrubbed"), Absent)
           seal == IF sealed THEN Events("scrubbed") ELSE Absent
           ev == Edit(EventsFile, Events("scrubbed"))
           man == Edit(Manifest, SealedAs(seal))
           led == Edit(Ledger, "content")
           M == <<ev, man, led>>
           a == Len(A)
           b == Len(B)
           S == Referred["scrubbed"] \ Referred["raw"]
           R == Referred["raw"] \ Referred["scrubbed"]
           T == {Edit(f, "content") : f \in S} \union {Edit(f, Absent) : f \in R} \union {ev, man, led}
<1>0. A \in Seq({Edit(f, "content") : f \in S}) /\ B \in Seq({Edit(f, Absent) : f \in R})
  BY EachIs DEF Versions
<1>1. /\ \A i \in 1..a : A[i].file \in S /\ A[i] = Edit(A[i].file, "content")
      /\ \A f \in S : \E i \in 1..a : A[i] = Edit(f, "content")
      /\ \A i, j \in 1..a : A[i].file = A[j].file => i = j
  BY EachIs DEF Versions
<1>2. /\ \A i \in 1..b : B[i].file \in R /\ B[i] = Edit(B[i].file, Absent)
      /\ \A f \in R : \E i \in 1..b : B[i] = Edit(f, Absent)
      /\ \A i, j \in 1..b : B[i].file = B[j].file => i = j
  BY EachIs DEF Versions
<1>3. edits = (A \o M) \o B
  BY DEF ScrubEdits
<1>4. /\ ev.file = EventsFile /\ man.file = Manifest /\ led.file = Ledger
      /\ ev = Edit(ev.file, ev.to) /\ man = Edit(man.file, man.to) /\ led = Edit(led.file, led.to)
      /\ man.to = SealedAs(seal) /\ led.to = "content"
  BY DEF Edit
<1>5. M \in Seq(T) /\ Len(M) = 3 /\ M[1] = ev /\ M[2] = man /\ M[3] = led
  OBVIOUS
<1>6. {Edit(f, "content") : f \in S} \subseteq T /\ {Edit(f, Absent) : f \in R} \subseteq T
  OBVIOUS
<1>7. /\ S \subseteq BlobFiles /\ S \subseteq Files /\ R \subseteq BlobFiles /\ R \subseteq Files
      /\ S \intersect R = {} /\ RawOnly = R
  BY Contents DEF Versions, RawOnly
<1>8. seal \in AllEvents \union {Absent}
  BY Contents DEF Versions
<1> HIDE DEF A, B, M, ev, man, led, seal, S, R, T
<1>9. A \in Seq(T) /\ B \in Seq(T)
  <2>1. A \in Seq(T)
    BY ONLY <1>0, <1>6, SeqMonotonic
  <2>2. B \in Seq(T)
    BY ONLY <1>0, <1>6, SeqMonotonic
  <2> QED
    BY <2>1, <2>2
<1>10. a \in Nat /\ b \in Nat
  BY <1>9, LenProperties
<1>11. /\ edits \in Seq(T) /\ Len(edits) = (a + 3) + b
       /\ \A i \in 1..a : edits[i] = A[i]
       /\ edits[a + 1] = ev /\ edits[a + 2] = man /\ edits[a + 3] = led
       /\ \A i \in 1..b : edits[(a + 3) + i] = B[i]
  <2> DEFINE L == A \o M
  <2> HIDE DEF a, b
  <2>1. a = Len(A) /\ b = Len(B)
    BY DEF a, b
  <2>2. M \in Seq(T)
    BY <1>5
  <2>3. /\ L \in Seq(T) /\ Len(L) = Len(A) + Len(M)
        /\ \A i \in 1..Len(A) : L[i] = A[i]
        /\ \A i \in 1..Len(M) : L[Len(A) + i] = M[i]
    BY ONLY <1>9, <2>2, JoinIs
  <2> HIDE DEF L
  <2>4. /\ L \o B \in Seq(T) /\ Len(L \o B) = Len(L) + Len(B)
        /\ \A i \in 1..Len(L) : (L \o B)[i] = L[i]
        /\ \A i \in 1..Len(B) : (L \o B)[Len(L) + i] = B[i]
    <3>1. L \in Seq(T) /\ B \in Seq(T)
      BY ONLY <1>9, <2>3
    <3> QED
      BY ONLY <3>1, JoinIs
  <2>5. edits = L \o B
    BY <1>3 DEF L
  <2>6. Len(L) = a + 3
    BY <1>5, <2>1, <2>3
  <2>7. /\ L[a + 1] = ev /\ L[a + 2] = man /\ L[a + 3] = led
        /\ \A i \in 1..a : i \in 1..(a + 3) /\ L[i] = A[i]
        /\ a + 1 \in 1..(a + 3) /\ a + 2 \in 1..(a + 3) /\ a + 3 \in 1..(a + 3)
    <3>1. 1 \in 1..Len(M) /\ 2 \in 1..Len(M) /\ 3 \in 1..Len(M)
      BY <1>5
    <3>2. /\ a + 1 \in 1..(a + 3) /\ a + 2 \in 1..(a + 3) /\ a + 3 \in 1..(a + 3)
          /\ \A i \in 1..a : i \in 1..(a + 3)
      BY ONLY <1>10
    <3> QED
      BY <1>5, <2>1, <2>3, <3>1, <3>2
  <2> QED
    BY ONLY <2>1, <2>4, <2>5, <2>6, <2>7
<1> HIDE DEF a, b
<1> DEFINE n == (a + 3) + b
<1>12. /\ \A i \in 1..a : i \in 1..n
       /\ a + 1 \in 1..n /\ a + 2 \in 1..n /\ a + 3 \in 1..n
       /\ \A i \in 1..b : (a + 3) + i \in 1..n /\ a + 1 \in 1..(((a + 3) + i) - 1)
  BY <1>10
<1>13. \A i \in 1..n : \/ i \in 1..a \/ i = a + 1 \/ i = a + 2 \/ i = a + 3
                       \/ \E k \in 1..b : i = (a + 3) + k
  <2> TAKE i \in 1..n
  <2>1. CASE i > a + 3
    <3>1. i - (a + 3) \in 1..b /\ i = (a + 3) + (i - (a + 3))
      BY <1>10, <2>1
    <3> QED
      BY <3>1
  <2> QED
    BY <1>10, <2>1
<1>14. Len(edits) = n
  BY <1>11
<1> HIDE DEF n
<1>15. /\ IsCopy(mine) /\ {EventsFile, Manifest} \subseteq DOMAIN mine
       /\ Referred["raw"] \subseteq DOMAIN mine /\ mine[EventsFile] = Events("raw")
  BY RecordedIs, Zenon DEF Versions
<1>16. RunStands
  BY <1>15, Contents DEF RunStands, Versions
<1>17. edits \in Seq({edits[i] : i \in 1..Len(edits)})
  BY <1>11, OwnSeq
<1>18. \A f, c : Edit(f, c).file = f /\ Edit(f, c).to = c
  BY DEF Edit
<1>20. {Manifest, EventsFile, Ledger} \intersect (S \union R) = {}
  BY <1>7, NamedFiles
<1>28. /\ \A i \in 1..a : edits[i].file \in S /\ edits[i] = Edit(edits[i].file, "content")
       /\ \A k \in 1..b : /\ edits[(a + 3) + k].file \in R
                          /\ edits[(a + 3) + k] = Edit(edits[(a + 3) + k].file, Absent)
  BY ONLY <1>1, <1>2, <1>11
<1>19. ASSUME NEW i \in 1..n
       PROVE edits[i] = Edit(edits[i].file, edits[i].to) /\ edits[i].file \in Files
  <2>1. CASE i \in 1..a
    BY <2>1, <1>7, <1>18, <1>28
  <2>2. CASE i \in {a + 1, a + 2, a + 3}
    BY <2>2, <1>4, <1>11, Contents
  <2>3. ASSUME NEW k \in 1..b, i = (a + 3) + k
        PROVE edits[i] = Edit(edits[i].file, edits[i].to) /\ edits[i].file \in Files
    BY <2>3, <1>7, <1>18, <1>28
  <2> QED
    BY <1>13, <2>1, <2>2, <2>3
<1>29. \A i, j \in 1..a : edits[i].file = edits[j].file => i = j
  BY ONLY <1>1, <1>11
<1>30. \A k, l \in 1..b : edits[(a + 3) + k].file = edits[(a + 3) + l].file => k = l
  BY ONLY <1>2, <1>11
<1>31. /\ edits[a + 1].file = EventsFile /\ edits[a + 2].file = Manifest /\ edits[a + 3].file = Ledger
       /\ Manifest # EventsFile /\ Ledger \notin {Manifest, EventsFile}
  BY <1>4, <1>11, NamedFiles
<1>21. ASSUME NEW i \in 1..n, NEW j \in 1..n, edits[i].file = edits[j].file PROVE i = j
  <2>1. CASE i \in 1..a
    BY ONLY <2>1, <1>7, <1>13, <1>20, <1>21, <1>28, <1>29, <1>31
  <2>2. CASE i = a + 1
    BY ONLY <2>2, <1>13, <1>20, <1>21, <1>28, <1>31
  <2>4. CASE i = a + 2
    BY ONLY <2>4, <1>13, <1>20, <1>21, <1>28, <1>31
  <2>5. CASE i = a + 3
    BY ONLY <2>5, <1>13, <1>20, <1>21, <1>28, <1>31
  <2>3. ASSUME NEW k \in 1..b, i = (a + 3) + k PROVE i = j
    BY ONLY <2>3, <1>7, <1>13, <1>20, <1>21, <1>28, <1>30, <1>31
  <2> QED
    BY <1>13, <2>1, <2>2, <2>3, <2>4, <2>5
<1>22. Scrubs /\ Target = "scrubbed" /\ ScrubbedEvents = ev
  BY DEF Scrubs, Target, ScrubbedEvents, ev
<1>23. ASSUME NEW i \in 1..n
       PROVE  \/ /\ edits[i].to = Absent /\ edits[i].file \in RawOnly
                 /\ \E j \in 1..(i - 1) : edits[j] = ScrubbedEvents
              \/ /\ edits[i] = Edit(EventsFile, Events(Target))
                 /\ \A f \in Referred[Target] :
                      f \in DOMAIN mine \/ \E j \in 1..(i - 1) : edits[j] = Edit(f, "content")
              \/ /\ edits[i].file # EventsFile /\ edits[i].to # Absent
                 /\ Holds(edits[i].file, edits[i].to) /\ edits[i].file \notin RawOnly
  <2>1. CASE i \in 1..a
    <3>1. edits[i].file \in S /\ edits[i].to = "content"
      BY <2>1, <1>1, <1>11, <1>18
    <3> QED
      BY <3>1, <1>7, <1>20, Contents DEF Holds
  <2>2. CASE i = a + 1
    <3>1. \A f \in S : \E j \in 1..(i - 1) : edits[j] = Edit(f, "content")
      <4>1. i - 1 = a
        BY <2>2, <1>10
      <4> QED
        BY <4>1, <1>1, <1>11
    <3> QED
      BY <2>2, <3>1, <1>11, <1>15, <1>22 DEF S, ev
  <2>3. CASE i = a + 2
    <3>1. edits[i].file = Manifest /\ edits[i].to = SealedAs(seal)
      BY <2>3, <1>4, <1>11
    <3>2. SealedAs(seal) \in Seals /\ SealedAs(seal) # Absent
      BY <1>8, Contents
    <3> QED
      BY <3>1, <3>2, <1>7, <1>20, NamedFiles DEF Holds
  <2>4. CASE i = a + 3
    <3>1. edits[i].file = Ledger /\ edits[i].to = "content"
      BY <2>4, <1>4, <1>11
    <3> QED
      BY <3>1, <1>7, <1>20, NamedFiles, Contents DEF Holds
  <2>5. ASSUME NEW k \in 1..b, i = (a + 3) + k
        PROVE  /\ edits[i].to = Absent /\ edits[i].file \in RawOnly
               /\ \E j \in 1..(i - 1) : edits[j] = ScrubbedEvents
    <3>1. edits[i].to = Absent /\ edits[i].file \in RawOnly
      BY <2>5, <1>2, <1>7, <1>11, <1>18
    <3>2. a + 1 \in 1..(i - 1) /\ edits[a + 1] = ScrubbedEvents
      BY <2>5, <1>11, <1>12, <1>22
    <3> QED
      BY <3>1, <3>2
  <2> QED
    BY <1>13, <2>1, <2>2, <2>3, <2>4, <2>5
<1>24. \A i \in 1..Len(edits) :
         \/ edits[i].to = Absent /\ Scrubs /\ edits[i].file \in RawOnly
              /\ (mine[EventsFile].version = "scrubbed" \/ \E j \in 1..(i - 1) : edits[j] = ScrubbedEvents)
         \/ edits[i] = Edit(EventsFile, Events(Target))
              /\ \A f \in Referred[Target] : f \in DOMAIN mine \/ \E j \in 1..(i - 1) : edits[j] = Edit(f, "content")
         \/ /\ edits[i].file # EventsFile /\ edits[i].to # Absent
            /\ Holds(edits[i].file, edits[i].to) /\ (Scrubs => edits[i].file \notin RawOnly)
  BY <1>14, <1>22, <1>23, Zenon
<1>25. /\ \A i \in 1..Len(edits) : edits[i] = Edit(edits[i].file, edits[i].to) /\ edits[i].file \in Files
       /\ \A i, j \in 1..Len(edits) : edits[i].file = edits[j].file => i = j
  BY ONLY <1>14, <1>19, <1>21
<1>26. Scrubs => \A f \in DOMAIN mine : HoldsRaw(f, mine[f]) =>
         \E i \in 1..Len(edits) : edits[i] = IF f = EventsFile THEN ScrubbedEvents ELSE Edit(f, Absent)
  <2> SUFFICES ASSUME NEW f \in DOMAIN mine, HoldsRaw(f, mine[f])
      PROVE \E i \in 1..n : edits[i] = IF f = EventsFile THEN ScrubbedEvents ELSE Edit(f, Absent)
    BY <1>14
  <2>1. CASE f = EventsFile
    BY <2>1, <1>11, <1>12, <1>22
  <2>2. CASE f # EventsFile
    <3>1. f \in R
      BY <2>2 DEF HoldsRaw, R
    <3>2. PICK k \in 1..b : B[k] = Edit(f, Absent)
      BY <3>1, <1>2
    <3> QED
      BY <2>2, <3>2, <1>11, <1>12
  <2> QED
    BY <2>1, <2>2
<1>27. StillTo
  BY ONLY <1>17, <1>24, <1>25, <1>26, Zenon DEF StillTo
<1> QED
  BY <1>16, <1>27

-----------------------------------------------------------------------------
(* The invariant holds at first, and no step of the run or of the push breaks it. *)

LEMMA BooksOpen ==
  ASSUME ExchangeInit
  PROVE  ExchangeBooks
<1>1. RunStands /\ StillTo
  <2>1. \/ \E sealed \in BOOLEAN :
             mine = RecordedAs("raw", sealed) /\ writer = "scrub" /\ edits = ScrubEdits(sealed)
        \/ mine = RecordedAs("begun", FALSE) /\ writer = "recorder" /\ edits = RecordingEdits
    BY DEF ExchangeInit
  <2> QED
    BY ONLY <2>1, RecordingStarts, ScrubStarts
<1>2. /\ push = [step |-> "start", fs |-> FALSE, todo |-> {}, inside |-> {}, got |-> NoFiles,
                 zip |-> Absent, found |-> NoFiles, quiet |-> FALSE, scrubbed |-> FALSE]
      /\ held = Absent
      /\ pull = [step |-> "start", force |-> FALSE, zip |-> Absent, from |-> Absent, staged |-> Absent,
                 warned |-> FALSE, before |-> Absent, said |-> "nothing"]
  BY DEF ExchangeInit
<1>3. DOMAIN NoFiles = {} /\ IsCopy(NoFiles)
  BY DEF NoFiles, IsCopy
<1> HIDE DEF NoFiles
<1>4. PushShape
  BY <1>2, <1>3 DEF PushShape, PushSteps
<1>5. Walked /\ NothingRaw /\ Packed
  BY <1>2 DEF Walked, NothingRaw, Packed
<1>6. SealHolds(theirs)
  <2>1. RootOf(Absent) = Absent
    BY DEF RootOf
  <2>2. theirs \in {Absent, RecordedAs("raw", TRUE), RecordedAs("scrubbed", TRUE), RecordedAs("raw", FALSE)}
    BY DEF ExchangeInit
  <2>3. /\ SealHolds(RecordedAs("raw", TRUE)) /\ SealHolds(RecordedAs("scrubbed", TRUE))
        /\ SealHolds(RecordedAs("raw", FALSE))
    BY RecordedIs DEF Versions
  <2>4. SealHolds(Absent)
    BY <2>1 DEF SealHolds
  <2> QED
    BY ONLY <2>2, <2>3, <2>4
<1>7. Fetched /\ ReportIsTrue
  BY <1>2, <1>6 DEF Fetched, PullSteps, ReportIsTrue
<1> QED
  BY ONLY <1>1, <1>2, <1>4, <1>5, <1>7 DEF ExchangeBooks

\* The invariant does not look at the local run's writers once the push has its files.
LEMMA WriterDiesKeeps ==
  ASSUME ExchangeBooks, WriterDies
  PROVE  ExchangeBooks'
<1>1. /\ edits # << >> /\ edits' = << >> /\ writer' = "killed"
      /\ UNCHANGED <<mine, push, held, pull, theirs>>
  BY DEF WriterDies
<1>2. RunStands' /\ PushShape' /\ Packed'
  BY <1>1 DEF ExchangeBooks, RunStands, PushShape, Packed
<1>3. StillTo'
  <2>1. Len(edits') = 0 /\ edits' \in Seq({edits'[i] : i \in 1..Len(edits')}) /\ ~ Scrubs'
    BY <1>1 DEF Scrubs
  <2> QED
    BY <2>1 DEF StillTo
<1>4. Walked'
  <2>1. Len(edits') = 0
    BY <1>1
  <2> QED
    BY <1>1, <2>1 DEF ExchangeBooks, Walked, Same
<1>5. NothingRaw'
  BY <1>1 DEF ExchangeBooks, NothingRaw
<1>6. Stored' <=> Stored
  BY <1>1 DEF Stored, Vouched
<1>7. Fetched' /\ ReportIsTrue'
  BY <1>1 DEF ExchangeBooks, Fetched, ReportIsTrue
<1> QED
  BY <1>1, <1>2, <1>3, <1>4, <1>5, <1>6, <1>7 DEF ExchangeBooks

\* What a step of the push alone may change.
LEMMA PushKeeps ==
  ASSUME ExchangeBooks, UNCHANGED <<mine, writer, edits, held, pull, theirs>>,
         push.step # "done", push'.step # "done",
         PushShape', Walked', NothingRaw', Packed'
  PROVE  ExchangeBooks'
<1>1. RunStands' /\ StillTo'
  BY DEF ExchangeBooks, RunStands, StillTo, Scrubs, Target
<1>2. Fetched' /\ ReportIsTrue'
  BY DEF ExchangeBooks, Fetched, ReportIsTrue
<1>3. held' = Absent
  BY DEF ExchangeBooks, Stored
<1> QED
  BY <1>1, <1>2, <1>3 DEF ExchangeBooks

LEMMA PushBeginsKeeps ==
  ASSUME ExchangeBooks, PushBegins
  PROVE  ExchangeBooks'
<1>1. PICK withFs \in BOOLEAN :
        Pushes([push EXCEPT !.step = "walk", !.fs = withFs,
                 !.todo = {Head(f) : f \in DOMAIN mine} \intersect Shipped(withFs),
                 !.found = mine, !.scrubbed = writer = "scrub" /\ edits = << >>])
  BY DEF PushBegins
<1>2. /\ push.step = "start" /\ PushShape /\ IsCopy(mine)
  BY DEF PushBegins, ExchangeBooks, RunStands
<1>3. /\ push' = [step |-> "walk", fs |-> withFs,
                  todo |-> {Head(f) : f \in DOMAIN mine} \intersect Shipped(withFs),
                  inside |-> push.inside, got |-> push.got, zip |-> push.zip, found |-> mine,
                  quiet |-> push.quiet, scrubbed |-> (writer = "scrub" /\ edits = << >>)]
      /\ UNCHANGED <<mine, writer, edits, held, pull, theirs>>
  BY <1>1, <1>2 DEF PushShape, Pushes
<1>4. push.inside = {} /\ DOMAIN push.got = {} /\ IsCopy(push.got)
  BY <1>2 DEF PushShape
<1>5. PushShape'
  BY <1>2, <1>3, <1>4 DEF PushShape, PushSteps
<1>6. Walked'
  BY <1>3, <1>4 DEF Walked, Same
<1>7. NothingRaw' /\ Packed'
  BY <1>3, <1>4 DEF NothingRaw, Packed, Scrubs
<1> QED
  BY <1>2, <1>3, <1>5, <1>6, <1>7, PushKeeps

LEMMA PushEntersKeeps ==
  ASSUME ExchangeBooks, PushEnters
  PROVE  ExchangeBooks'
<1>1. PICK d \in push.todo \intersect {"blobs", "fs"} :
        Pushes([push EXCEPT !.todo = @ \ {d}, !.inside = {f \in DOMAIN mine : Head(f) = d}])
  BY DEF PushEnters
<1>2. push.step = "walk" /\ push.inside = {} /\ PushShape /\ IsCopy(mine) /\ Walked /\ NothingRaw
  BY DEF PushEnters, ExchangeBooks, RunStands
<1>3. /\ push' = [step |-> "walk", fs |-> push.fs, todo |-> push.todo \ {d},
                  inside |-> {f \in DOMAIN mine : Head(f) = d}, got |-> push.got, zip |-> push.zip,
                  found |-> push.found, quiet |-> push.quiet, scrubbed |-> push.scrubbed]
      /\ UNCHANGED <<mine, writer, edits, held, pull, theirs>>
  BY <1>1, <1>2 DEF PushShape, Pushes
<1>4. PushShape'
  BY <1>2, <1>3 DEF PushShape, PushSteps, IsCopy
<1>5. Walked'
  <2>1. \A f \in Files : Same(f)' <=> Same(f)
    BY <1>3 DEF Same
  <2>2. ASSUME NEW f \in Files, Same(f)
        PROVE /\ f \in DOMAIN push'.got => f \in DOMAIN push'.found /\ push'.got[f] = push'.found[f]
              /\ f \in push'.inside => f \in DOMAIN push'.found
              /\ f \in DOMAIN push'.found /\ Head(f) \in Shipped(push'.fs) =>
                   Head(f) \in push'.todo \/ f \in push'.inside \/ f \in DOMAIN push'.got
    BY <1>2, <1>3, <2>2 DEF Walked, Same
  <2> QED
    BY <1>2, <1>3, <2>1, <2>2 DEF Walked
<1>6. NothingRaw' /\ Packed'
  BY <1>2, <1>3 DEF NothingRaw, Packed, Scrubs, HoldsRaw
<1> QED
  BY <1>2, <1>3, <1>4, <1>5, <1>6, PushKeeps

LEMMA WithIs ==
  ASSUME NEW files, NEW f, NEW content
  PROVE  /\ DOMAIN With(files, f, content) = DOMAIN files \union {f}
         /\ With(files, f, content)[f] = content
         /\ \A g \in DOMAIN files : g # f => With(files, f, content)[g] = files[g]
         /\ IsCopy(files) /\ f \in Files /\ Holds(f, content) => IsCopy(With(files, f, content))
<1> DEFINE w == With(files, f, content)
<1>1. w = [g \in DOMAIN files \union {f} |-> IF g = f THEN content ELSE files[g]]
  BY DEF With
<1>2. /\ DOMAIN w = DOMAIN files \union {f} /\ w[f] = content
      /\ \A g \in DOMAIN files : g # f => w[g] = files[g]
      /\ w = [g \in DOMAIN w |-> w[g]]
  BY <1>1
<1> HIDE DEF w
<1>3. IsCopy(files) /\ f \in Files /\ Holds(f, content) => IsCopy(w)
  <2> SUFFICES ASSUME IsCopy(files), f \in Files, Holds(f, content) PROVE IsCopy(w)
    OBVIOUS
  <2>1. \A g \in DOMAIN w : g \in Files /\ Holds(g, w[g])
    BY <1>2 DEF IsCopy
  <2> QED
    BY <1>2, <2>1 DEF IsCopy
<1> QED
  BY <1>2, <1>3 DEF w

LEMMA PushReadsKeeps ==
  ASSUME ExchangeBooks, PushReads
  PROVE  ExchangeBooks'
<1>1. PICK f \in IF push.inside # {} THEN push.inside ELSE {<<name>> : name \in push.todo} \intersect Files :
        Pushes(IF f \in DOMAIN mine
                THEN [push EXCEPT !.inside = @ \ {f}, !.todo = @ \ {Head(f)},
                        !.got = With(@, f, mine[f])]
                ELSE [push EXCEPT !.step = "failed"])
  BY DEF PushReads
<1>2. push.step = "walk" /\ PushShape /\ RunStands /\ IsCopy(mine) /\ Walked /\ NothingRaw
  BY DEF PushReads, ExchangeBooks, RunStands
<1>3. UNCHANGED <<mine, writer, edits, held, pull, theirs>>
  BY <1>1 DEF Pushes
<1>4. CASE f \notin DOMAIN mine
  <2>1. push' = [step |-> "failed", fs |-> push.fs, todo |-> push.todo,
                  inside |-> push.inside, got |-> push.got, zip |-> push.zip,
                  found |-> push.found, quiet |-> push.quiet, scrubbed |-> push.scrubbed]
    BY <1>1, <1>2, <1>4 DEF PushShape, Pushes
  <2>2. PushShape' /\ Walked' /\ NothingRaw' /\ Packed'
    BY <1>2, <1>3, <2>1 DEF PushShape, PushSteps, Walked, NothingRaw, Packed, Scrubs, HoldsRaw
  <2> QED
    BY <1>2, <1>3, <2>1, <2>2, PushKeeps
<1>5. CASE f \in DOMAIN mine
  <2> DEFINE got == With(push.got, f, mine[f])
  <2>1. push' = [step |-> "walk", fs |-> push.fs, todo |-> push.todo \ {Head(f)},
                  inside |-> push.inside \ {f}, got |-> got, zip |-> push.zip,
                  found |-> push.found, quiet |-> push.quiet, scrubbed |-> push.scrubbed]
    BY <1>1, <1>2, <1>5 DEF PushShape, Pushes
  <2>2. /\ f \in Files /\ Head(f) \in Shipped(push.fs)
        /\ \A g \in Files : Head(g) = Head(f) /\ Head(g) \in push.todo => g = f
    <3>1. CASE push.inside # {}
      BY <1>1, <1>2, <3>1 DEF PushShape
    <3>2. CASE push.inside = {}
      <4>1. PICK name \in push.todo : f = <<name>> /\ f \in Files
        BY <1>1, <3>2
      <4>2. Head(f) = name /\ name \in Shipped(push.fs)
        BY <1>2, <4>1, NamedFiles DEF PushShape
      <4>3. name \in {"manifest.json", "events.jsonl", "redactions.json", "blobs", "fs"}
        BY <4>2 DEF Shipped, PushedTopLevel
      <4>4. \A g \in Files :
              /\ Head(g) \in {"manifest.json", "events.jsonl", "redactions.json"} => g = <<Head(g)>>
              /\ Head(g) \in {"blobs", "fs"} => g # <<Head(g)>>
        BY ExchangeAssumption, NamedFiles DEF ExchangeAssumption
      <4>5. name \notin {"blobs", "fs"}
        BY <4>1, <4>2, <4>4
      <4> QED
        BY <4>1, <4>2, <4>3, <4>4, <4>5
    <3> QED
      BY <3>1, <3>2
  <2>3. IsCopy(push.got) /\ Holds(f, mine[f])
    BY <1>2, <1>5 DEF PushShape, IsCopy
  <2>4. /\ DOMAIN got = DOMAIN push.got \union {f} /\ got[f] = mine[f]
        /\ \A g \in DOMAIN push.got : g # f => got[g] = push.got[g]
        /\ IsCopy(got)
    <3>1. IsCopy(push.got) /\ f \in Files /\ Holds(f, mine[f])
      BY <2>2, <2>3
    <3> DEFINE before == push.got
               content == mine[f]
    <3> HIDE DEF before, content
    <3>2. /\ DOMAIN With(before, f, content) = DOMAIN before \union {f}
          /\ With(before, f, content)[f] = content
          /\ \A g \in DOMAIN before : g # f => With(before, f, content)[g] = before[g]
          /\ IsCopy(before) /\ f \in Files /\ Holds(f, content) => IsCopy(With(before, f, content))
      BY ONLY WithIs
    <3> QED
      BY <3>1, <3>2, Zenon DEF before, content
  <2> HIDE DEF got
  <2>5. PushShape'
    <3>1. EventsFile \in DOMAIN got => got[EventsFile].whole
      BY <1>2, <2>4 DEF PushShape, RunStands
    <3> QED
      BY <1>2, <2>1, <2>2, <2>4, <3>1 DEF PushShape, PushSteps
  <2>6. Walked'
    <3>1. \A g \in Files : Same(g)' <=> Same(g)
      BY <1>3, <2>1 DEF Same
    <3>2. ASSUME NEW g \in Files, Same(g)
          PROVE /\ g \in DOMAIN push'.got => g \in DOMAIN push'.found /\ push'.got[g] = push'.found[g]
                /\ g \in push'.inside => g \in DOMAIN push'.found
                /\ g \in DOMAIN push'.found /\ Head(g) \in Shipped(push'.fs) =>
                     Head(g) \in push'.todo \/ g \in push'.inside \/ g \in DOMAIN push'.got
      <4>1. /\ g \in DOMAIN push.got => g \in DOMAIN push.found /\ push.got[g] = push.found[g]
            /\ g \in push.inside => g \in DOMAIN push.found
            /\ g \in DOMAIN push.found /\ Head(g) \in Shipped(push.fs) =>
                  Head(g) \in push.todo \/ g \in push.inside \/ g \in DOMAIN push.got
        BY <1>2, <3>2 DEF Walked
      <4> QED
        BY <1>5, <2>1, <2>2, <2>4, <3>2, <4>1 DEF Same
    <3>3. \A g \in Files : ~ Same(g) => \A i \in 1..Len(edits) : edits[i].file # g
      BY <1>2 DEF Walked
    <3> QED
      BY <1>3, <3>1, <3>2, <3>3 DEF Walked
  <2>7. NothingRaw'
    <3>1. ASSUME push.scrubbed PROVE ~ HoldsRaw(f, mine[f])
      <4>1. Scrubs /\ Len(edits) = 0
        BY <1>2, <3>1 DEF NothingRaw
      <4>2. StillTo
        BY DEF ExchangeBooks
      <4> QED
        BY <1>5, <4>1, <4>2 DEF StillTo
    <3>2. push.scrubbed => \A g \in DOMAIN got : ~ HoldsRaw(g, got[g])
      BY <1>2, <2>4, <3>1 DEF NothingRaw
    <3> QED
      BY <1>2, <1>3, <2>1, <3>2 DEF NothingRaw, Scrubs, HoldsRaw
  <2>8. Packed'
    BY <2>1 DEF Packed
  <2> QED
    BY <1>2, <1>3, <2>1, <2>5, <2>6, <2>7, <2>8, PushKeeps
<1> QED
  BY <1>4, <1>5

LEMMA PushPacksKeeps ==
  ASSUME ExchangeBooks, PushPacks
  PROVE  ExchangeBooks'
<1> DEFINE zip == WriteArchive(Entries(push.got))
           goes == IF zip = Absent THEN "failed" ELSE "send"
<1>1. push.step = "walk" /\ PushShape /\ RunStands /\ Walked /\ NothingRaw
        /\ push.todo = {} /\ push.inside = {}
  BY DEF PushPacks, ExchangeBooks
<1>2. /\ push' = [step |-> goes, fs |-> push.fs, todo |-> push.todo,
                  inside |-> push.inside, got |-> push.got, zip |-> zip,
                  found |-> push.found, quiet |-> (push.found = mine), scrubbed |-> push.scrubbed]
      /\ UNCHANGED <<mine, writer, edits, held, pull, theirs>>
  BY <1>1 DEF PushPacks, PushShape, Pushes
<1>3. zip # Absent => zip = Zip(Entries(push.got)) /\ Len(Entries(push.got)) <= MaxEntries
  <2>1. Len(Entries(push.got)) \in Nat /\ MaxEntries \in Int
    <3> DEFINE own == Entries(push.got)
    <3>1. Lists(own, push.got)
      BY <1>1, EntriesAre DEF PushShape
    <3> HIDE DEF own
    <3>2. own \in Seq({own[i] : i \in 1..Len(own)})
      BY <3>1, Zenon DEF Lists
    <3>3. Len(own) \in Nat
      BY <3>2, LenProperties
    <3> QED
      BY <3>3, ExchangeAssumption DEF own, ExchangeAssumption, MaxEntries
  <2> HIDE DEF zip
  <2>2. zip = IF Len(Entries(push.got)) > MaxEntries THEN Absent ELSE Zip(Entries(push.got))
    BY DEF WriteArchive, zip
  <2> QED
    BY <2>1, <2>2
<1> HIDE DEF zip
<1>4. PushShape'
  BY <1>1, <1>2 DEF PushShape, PushSteps
<1>5. push'.step # "walk" /\ push'.step # "done"
  BY <1>2
<1>6. Walked'
  BY <1>5 DEF Walked
<1>7. NothingRaw'
  BY <1>1, <1>2 DEF NothingRaw, Scrubs, HoldsRaw
<1>8. ASSUME push.found = mine
      PROVE  /\ DOMAIN push.got = {f \in DOMAIN push.found : Head(f) \in Shipped(push.fs)}
             /\ EventsFile \in DOMAIN push.got
             /\ Referred[push.got[EventsFile].version] \subseteq DOMAIN push.got
  <2>1. \A f \in Files : Same(f)
    BY <1>8 DEF Same
  <2>2. \A f \in Files :
          /\ f \in DOMAIN push.got => f \in DOMAIN push.found /\ push.got[f] = push.found[f]
          /\ f \in DOMAIN push.found /\ Head(f) \in Shipped(push.fs) => f \in DOMAIN push.got
    BY <1>1, <2>1 DEF Walked
  <2>3. /\ DOMAIN push.got \subseteq Files /\ DOMAIN push.found \subseteq Files
        /\ \A f \in DOMAIN push.got : Head(f) \in Shipped(push.fs)
    BY <1>1 DEF PushShape, IsCopy
  <2>4. DOMAIN push.got = {f \in DOMAIN push.found : Head(f) \in Shipped(push.fs)}
    BY <2>2, <2>3
  <2>5. Head(EventsFile) \in Shipped(push.fs) /\ EventsFile \in DOMAIN push.found
    BY <1>1, <1>8, NamedFiles DEF RunStands, Shipped, PushedTopLevel
  <2>6. EventsFile \in DOMAIN push.got /\ push.got[EventsFile] = mine[EventsFile]
    BY <1>8, <2>2, <2>3, <2>5
  <2>7. \A f \in BlobFiles : Head(f) \in Shipped(push.fs)
    BY DEF BlobFiles, Shipped, PushedTopLevel
  <2>8. /\ Referred[mine[EventsFile].version] \subseteq DOMAIN mine
        /\ Referred[mine[EventsFile].version] \subseteq BlobFiles
    <3>1. mine[EventsFile] \in AllEvents
      BY <1>1 DEF RunStands, IsCopy, Holds
    <3>2. mine[EventsFile].version \in Versions
      BY <3>1 DEF AllEvents, Versions
    <3> QED
      BY <1>1, <3>2, Contents DEF RunStands
  <2> QED
    BY <1>8, <2>4, <2>6, <2>7, <2>8
<1>9. Packed'
  <2>1. push'.step = "send" => push'.zip = Zip(Entries(push'.got)) /\ Len(Entries(push'.got)) <= MaxEntries
    BY <1>2, <1>3
  <2>2. push'.quiet =>
          /\ DOMAIN push'.got = {f \in DOMAIN push'.found : Head(f) \in Shipped(push'.fs)}
          /\ EventsFile \in DOMAIN push'.got
          /\ Referred[push'.got[EventsFile].version] \subseteq DOMAIN push'.got
    BY <1>2, <1>8
  <2> QED
    BY <2>1, <2>2 DEF Packed
<1> QED
  BY <1>1, <1>2, <1>4, <1>5, <1>6, <1>7, <1>9, PushKeeps

\* The next write of the run is made.
LEMMA RunChangesKeeps ==
  ASSUME ExchangeBooks, RunChanges
  PROVE  ExchangeBooks'
<1> DEFINE e == Head(edits)
           f == e.file
           n == Len(edits)
<1>1. /\ edits # << >> /\ edits' = Tail(edits)
      /\ mine' = IF e.to = Absent THEN Without(mine, f) ELSE With(mine, f, e.to)
      /\ UNCHANGED <<writer, push, held, pull, theirs>>
  BY DEF RunChanges
<1>2. RunStands /\ IsCopy(mine) /\ StillTo /\ PushShape /\ Walked /\ NothingRaw /\ Packed
  BY DEF ExchangeBooks, RunStands
<1>3. edits \in Seq({edits[i] : i \in 1..n})
  BY <1>2, Zenon DEF StillTo
<1>4. /\ n \in Nat /\ n # 0 /\ e = edits[1]
      /\ Tail(edits) \in Seq({edits[i] : i \in 1..n}) /\ Len(Tail(edits)) = n - 1
      /\ \A i \in 1..(n - 1) : Tail(edits)[i] = edits[i + 1]
  <2> DEFINE T == {edits[i] : i \in 1..n}
  <2>1. edits \in Seq(T)
    BY <1>3
  <2> HIDE DEF T
  <2>2. n \in Nat
    BY <2>1, LenProperties
  <2>3. n # 0
    BY <1>1, <2>1, EmptySeq
  <2>4. /\ Head(edits) = edits[1] /\ Tail(edits) \in Seq(T) /\ Len(Tail(edits)) = n - 1
        /\ \A i \in 1..Len(Tail(edits)) : Tail(edits)[i] = edits[i + 1]
    BY <1>1, <2>1, HeadTailProperties
  <2> QED
    BY <2>2, <2>3, <2>4 DEF T
<1> HIDE DEF e, n
<1>26. edits' \in Seq({edits'[i] : i \in 1..Len(edits')})
  <2> DEFINE T == {edits[i] : i \in 1..n}
  <2>1. edits' \in Seq(T)
    BY <1>1, <1>4
  <2> HIDE DEF T
  <2> QED
    BY <2>1, OwnSeq
<1>5. /\ Len(edits') = n - 1
      /\ \A i \in 1..(n - 1) : edits'[i] = edits[i + 1] /\ i + 1 \in 1..n /\ i + 1 # 1
      /\ 1 \in 1..n
      /\ \A i \in 1..n : i # 1 => i - 1 \in 1..(n - 1) /\ edits'[i - 1] = edits[i]
  <2>1. Len(edits') = n - 1
    BY <1>1, <1>4
  <2>3. \A i \in 1..(n - 1) : edits'[i] = edits[i + 1] /\ i + 1 \in 1..n /\ i + 1 # 1
    BY <1>1, <1>4
  <2>4. \A i \in 1..n : i # 1 => i - 1 \in 1..(n - 1) /\ (i - 1) + 1 = i
    BY <1>4
  <2>5. \A i \in 1..n : i # 1 => edits'[i - 1] = edits[i]
    BY <2>3, <2>4
  <2>6. 1 \in 1..n
    BY <1>4
  <2> QED
    BY <2>1, <2>3, <2>4, <2>5, <2>6
<1>6. /\ \A i \in 1..n : edits[i] = Edit(edits[i].file, edits[i].to) /\ edits[i].file \in Files
      /\ \A i, j \in 1..n : edits[i].file = edits[j].file => i = j
  BY <1>2, Zenon DEF StillTo, n
<1>7. \A i \in 1..n :
       \/ edits[i].to = Absent /\ Scrubs /\ edits[i].file \in RawOnly
            /\ (mine[EventsFile].version = "scrubbed" \/ \E j \in 1..(i - 1) : edits[j] = ScrubbedEvents)
       \/ edits[i] = Edit(EventsFile, Events(Target))
            /\ \A g \in Referred[Target] : g \in DOMAIN mine \/ \E j \in 1..(i - 1) : edits[j] = Edit(g, "content")
       \/ /\ edits[i].file # EventsFile /\ edits[i].to # Absent
          /\ Holds(edits[i].file, edits[i].to) /\ (Scrubs => edits[i].file \notin RawOnly)
  BY <1>2, Zenon DEF StillTo, n
<1>8. Scrubs => \A g \in DOMAIN mine : HoldsRaw(g, mine[g]) =>
        \E i \in 1..n : edits[i] = IF g = EventsFile THEN ScrubbedEvents ELSE Edit(g, Absent)
  BY <1>2, Zenon DEF StillTo, n
<1>9. \A g, c : Edit(g, c).file = g /\ Edit(g, c).to = c
  BY DEF Edit
<1>10. /\ Target \in {"raw", "scrubbed"} /\ (Scrubs <=> Target = "scrubbed") /\ Target \in Versions
       /\ (Scrubs' <=> Scrubs) /\ Target' = Target /\ RawOnly' = RawOnly
       /\ ScrubbedEvents' = ScrubbedEvents
  BY <1>1 DEF Scrubs, Target, Versions, RawOnly, ScrubbedEvents
<1>11. Events(Target) \in AllEvents /\ Events(Target).version = Target /\ Events(Target).whole
         /\ Events(Target) # Absent
  BY <1>10, Contents
<1>12. RawOnly \subseteq BlobFiles /\ EventsFile \notin RawOnly /\ Manifest \notin RawOnly
         /\ EventsFile \notin BlobFiles
  BY Contents, NamedFiles DEF RawOnly, Versions
\* What the write is.
<1>13. f \in Files /\ e = Edit(f, e.to) /\ edits[1] = e
  BY <1>4, <1>5, <1>6
<1>14. \/ e.to = Absent /\ Scrubs /\ f \in RawOnly /\ mine[EventsFile].version = "scrubbed"
       \/ e.to = Events(Target) /\ f = EventsFile /\ Referred[Target] \subseteq DOMAIN mine
       \/ f # EventsFile /\ e.to # Absent /\ Holds(f, e.to) /\ (Scrubs => f \notin RawOnly)
  <2>1. 1..(1 - 1) = {}
    OBVIOUS
  <2>2. \A j : j \notin 1..(1 - 1)
    BY <2>1
  <2> QED
    BY <1>5, <1>7, <1>9, <1>13, <2>2
<1> HIDE DEF f
\* What it leaves.
<1>15. /\ e.to = Absent => /\ DOMAIN mine' = DOMAIN mine \ {f}
                           /\ \A g \in DOMAIN mine' : mine'[g] = mine[g]
       /\ e.to # Absent => /\ DOMAIN mine' = DOMAIN mine \union {f} /\ mine'[f] = e.to
                           /\ \A g \in DOMAIN mine : g # f => mine'[g] = mine[g]
       /\ IsCopy(mine')
  <2>1. CASE e.to = Absent
    <3>1. mine' = [g \in DOMAIN mine \ {f} |-> mine[g]]
      BY <1>1, <2>1 DEF Without, Restricted, f
    <3>2. DOMAIN mine' = DOMAIN mine \ {f} /\ \A g \in DOMAIN mine' : mine'[g] = mine[g]
      BY <3>1
    <3>3. IsCopy(mine')
      <4>1. mine' = [g \in DOMAIN mine' |-> mine'[g]]
        BY <3>1
      <4> QED
        BY <1>2, <3>2, <4>1 DEF IsCopy
    <3> QED
      BY <2>1, <3>2, <3>3
  <2>2. CASE e.to # Absent
    <3> DEFINE content == e.to
    <3>1. mine' = With(mine, f, content)
      BY <1>1, <2>2 DEF f
    <3>2. Holds(f, content)
      BY <1>11, <1>14, <2>2, NamedFiles DEF Holds
    <3> HIDE DEF content
    <3>3. /\ DOMAIN With(mine, f, content) = DOMAIN mine \union {f}
          /\ With(mine, f, content)[f] = content
          /\ \A g \in DOMAIN mine : g # f => With(mine, f, content)[g] = mine[g]
          /\ IsCopy(mine) /\ f \in Files /\ Holds(f, content) => IsCopy(With(mine, f, content))
      BY ONLY WithIs
    <3>4. IsCopy(mine')
      BY ONLY <1>2, <1>13, <3>1, <3>2, <3>3
    <3> QED
      BY <2>2, <3>1, <3>3, <3>4, Zenon DEF content
  <2> QED
    BY <2>1, <2>2
<1>16. /\ \A g \in DOMAIN mine' : g # f => g \in DOMAIN mine /\ mine'[g] = mine[g]
       /\ \A g \in DOMAIN mine : g # f => g \in DOMAIN mine'
       /\ f \in DOMAIN mine' => e.to # Absent /\ mine'[f] = e.to
       /\ e.to # Absent => f \in DOMAIN mine'
  BY <1>15
<1>17. RunStands'
  <2>1. {EventsFile, Manifest} \subseteq DOMAIN mine'
    BY <1>2, <1>11, <1>12, <1>14, <1>16 DEF RunStands
  <2>2. mine'[EventsFile].whole /\ Referred[mine'[EventsFile].version] \subseteq DOMAIN mine'
    <3>1. CASE f = EventsFile
      <4>1. mine'[EventsFile] = Events(Target) /\ Referred[Target] \subseteq DOMAIN mine
        BY <1>11, <1>12, <1>14, <1>16, <3>1
      <4>2. EventsFile \notin Referred[Target]
        BY <1>10, <1>12, Contents
      <4> QED
        BY <1>11, <1>16, <3>1, <4>1, <4>2
    <3>2. CASE f # EventsFile
      <4>1. mine'[EventsFile] = mine[EventsFile]
        BY <1>16, <2>1, <3>2
      <4>2. f \in Referred[mine[EventsFile].version] => f \in DOMAIN mine'
        BY <1>14, <1>16, <3>2 DEF RawOnly
      <4> QED
        BY <1>2, <1>16, <4>1, <4>2 DEF RunStands
    <3> QED
      BY <3>1, <3>2
  <2> QED
    BY <1>15, <2>1, <2>2 DEF RunStands
<1>18. mine'[EventsFile].version = "scrubbed" \/ ~ Scrubs
         \/ (f # EventsFile /\ mine'[EventsFile] = mine[EventsFile])
  <2>1. EventsFile \in DOMAIN mine'
    BY <1>17 DEF RunStands
  <2> QED
    BY <1>10, <1>11, <1>12, <1>14, <1>16, <2>1
<1>19. ASSUME NEW i \in 1..(n - 1)
       PROVE
       \/ edits'[i].to = Absent /\ Scrubs /\ edits'[i].file \in RawOnly
            /\ (mine'[EventsFile].version = "scrubbed" \/ \E j \in 1..(i - 1) : edits'[j] = ScrubbedEvents)
       \/ edits'[i] = Edit(EventsFile, Events(Target))
            /\ \A g \in Referred[Target] : g \in DOMAIN mine' \/ \E j \in 1..(i - 1) : edits'[j] = Edit(g, "content")
       \/ /\ edits'[i].file # EventsFile /\ edits'[i].to # Absent
          /\ Holds(edits'[i].file, edits'[i].to) /\ (Scrubs => edits'[i].file \notin RawOnly)
  <2>1. i + 1 \in 1..n /\ edits'[i] = edits[i + 1] /\ (i + 1) - 1 = i
    BY <1>5
  <2>2. ASSUME NEW j \in 1..i PROVE j = 1 \/ (j - 1 \in 1..(i - 1) /\ edits'[j - 1] = edits[j])
    <3>1. j \in 1..n /\ (j = 1 \/ j - 1 \in 1..(i - 1))
      BY <1>4
    <3> QED
      BY <1>5, <3>1
  <2>3. CASE edits[i + 1].to = Absent /\ Scrubs /\ edits[i + 1].file \in RawOnly
               /\ (mine[EventsFile].version = "scrubbed" \/ \E j \in 1..i : edits[j] = ScrubbedEvents)
    <3>1. CASE mine[EventsFile].version = "scrubbed"
      BY <1>18, <2>1, <2>3, <3>1
    <3>2. ASSUME NEW j \in 1..i, edits[j] = ScrubbedEvents
          PROVE mine'[EventsFile].version = "scrubbed" \/ \E k \in 1..(i - 1) : edits'[k] = ScrubbedEvents
      <4>1. CASE j = 1
        <5>1. f = EventsFile
          BY <1>9, <1>13, <3>2, <4>1 DEF ScrubbedEvents, f
        <5> QED
          BY <1>18, <2>3, <5>1
      <4> QED
        BY <2>2, <3>2, <4>1
    <3> QED
      BY <2>1, <2>3, <3>1, <3>2
  <2>4. CASE edits[i + 1] = Edit(EventsFile, Events(Target))
               /\ \A g \in Referred[Target] : g \in DOMAIN mine \/ \E j \in 1..i : edits[j] = Edit(g, "content")
    <3>1. ASSUME NEW g \in Referred[Target]
          PROVE  g \in DOMAIN mine' \/ \E j \in 1..(i - 1) : edits'[j] = Edit(g, "content")
      <4>1. g \notin RawOnly \/ ~ Scrubs
        BY <1>10 DEF RawOnly
      <4>2. CASE g \in DOMAIN mine
        BY <1>11, <1>14, <1>16, <4>1, <4>2
      <4>3. ASSUME NEW j \in 1..i, edits[j] = Edit(g, "content")
            PROVE  g \in DOMAIN mine' \/ \E k \in 1..(i - 1) : edits'[k] = Edit(g, "content")
        <5>1. CASE j = 1
          <6>1. f = g /\ e.to = "content"
            BY <1>9, <1>13, <4>3, <5>1 DEF f
          <6> QED
            BY <1>16, <6>1, Contents
        <5> QED
          BY <2>2, <4>3, <5>1
      <4> QED
        BY <2>4, <4>2, <4>3
    <3> QED
      BY <2>1, <2>4, <3>1
  <2> QED
    BY <1>7, <2>1, <2>3, <2>4
<1>20. Scrubs => \A g \in DOMAIN mine' : HoldsRaw(g, mine'[g]) =>
         \E i \in 1..(n - 1) : edits'[i] = IF g = EventsFile THEN ScrubbedEvents ELSE Edit(g, Absent)
  <2> SUFFICES ASSUME Scrubs, NEW g \in DOMAIN mine', HoldsRaw(g, mine'[g])
      PROVE \E i \in 1..(n - 1) : edits'[i] = IF g = EventsFile THEN ScrubbedEvents ELSE Edit(g, Absent)
    OBVIOUS
  <2>1. g # f
    <3> SUFFICES ASSUME g = f PROVE FALSE
      OBVIOUS
    <3>1. e.to # Absent /\ mine'[f] = e.to
      BY <1>16
    <3>2. CASE f = EventsFile
      <4>1. mine'[f].version = "scrubbed"
        BY <1>10, <1>11, <1>12, <1>14, <3>1, <3>2
      <4> QED
        BY <1>12, <3>2, <4>1 DEF HoldsRaw, RawOnly
    <3>3. CASE f # EventsFile
      BY <1>14, <3>1, <3>3 DEF HoldsRaw, RawOnly
    <3> QED
      BY <3>2, <3>3
  <2>2. g \in DOMAIN mine /\ mine'[g] = mine[g]
    BY <1>16, <2>1
  <2>3. PICK i \in 1..n : edits[i] = IF g = EventsFile THEN ScrubbedEvents ELSE Edit(g, Absent)
    BY <1>8, <2>2
  <2>4. edits[i].file = g
    BY <1>9, <2>3 DEF ScrubbedEvents
  <2>5. i # 1
    BY <1>13, <2>1, <2>4 DEF f
  <2> QED
    BY <1>5, <2>3, <2>5
<1>21. StillTo'
  <2>2. /\ \A i \in 1..Len(edits') : edits'[i] = Edit(edits'[i].file, edits'[i].to) /\ edits'[i].file \in Files
        /\ \A i, j \in 1..Len(edits') : edits'[i].file = edits'[j].file => i = j
    <3>1. \A i \in 1..(n - 1) : edits'[i] = Edit(edits'[i].file, edits'[i].to) /\ edits'[i].file \in Files
      BY <1>5, <1>6
    <3>2. ASSUME NEW i \in 1..(n - 1), NEW j \in 1..(n - 1), edits'[i].file = edits'[j].file PROVE i = j
      <4>1. /\ i + 1 \in 1..n /\ j + 1 \in 1..n
            /\ edits[i + 1].file = edits[j + 1].file
        BY <1>5, <3>2
      <4>2. i + 1 = j + 1
        BY ONLY <1>6, <4>1
      <4> QED
        BY <4>2
    <3> QED
      BY <1>5, <3>1, <3>2
  <2>3. \A i \in 1..Len(edits') :
          \/ edits'[i].to = Absent /\ Scrubs' /\ edits'[i].file \in RawOnly'
               /\ (mine'[EventsFile].version = "scrubbed" \/ \E j \in 1..(i - 1) : edits'[j] = ScrubbedEvents')
          \/ edits'[i] = Edit(EventsFile, Events(Target'))
               /\ \A g \in Referred[Target'] : g \in DOMAIN mine' \/ \E j \in 1..(i - 1) : edits'[j] = Edit(g, "content")
          \/ /\ edits'[i].file # EventsFile /\ edits'[i].to # Absent
             /\ Holds(edits'[i].file, edits'[i].to) /\ (Scrubs' => edits'[i].file \notin RawOnly')
    BY <1>5, <1>10, <1>19, Zenon
  <2>4. Scrubs' => \A g \in DOMAIN mine' : HoldsRaw(g, mine'[g]) =>
          \E i \in 1..Len(edits') : edits'[i] = IF g = EventsFile THEN ScrubbedEvents' ELSE Edit(g, Absent)
    BY <1>5, <1>10, <1>20, Zenon
  <2> QED
    BY ONLY <1>26, <2>2, <2>3, <2>4, Zenon DEF StillTo, HoldsRaw, Holds
<1>22. PushShape' /\ Packed' /\ NothingRaw'
  <2>1. ~ push.scrubbed
    BY <1>1, <1>2 DEF NothingRaw
  <2> QED
    BY <1>1, <1>2, <2>1 DEF PushShape, Packed, NothingRaw
<1>23. Walked'
  <2>1. ASSUME push.step = "walk", NEW g \in Files
        PROVE  /\ ~ Same(g) => \A i \in 1..n : edits[i].file # g
               /\ Same(g) => /\ g \in DOMAIN push.got => g \in DOMAIN push.found /\ push.got[g] = push.found[g]
                             /\ g \in push.inside => g \in DOMAIN push.found
                             /\ g \in DOMAIN push.found /\ Head(g) \in Shipped(push.fs) =>
                                  Head(g) \in push.todo \/ g \in push.inside \/ g \in DOMAIN push.got
    BY <1>2, <2>1 DEF Walked, n
  <2>2. push.step = "walk" => Same(f)
    BY <1>5, <1>13, <2>1 DEF f
  <2>3. \A g \in Files : g # f => (Same(g)' <=> Same(g))
    BY <1>1, <1>16 DEF Same
  <2>4. \A i \in 1..(n - 1) : edits'[i].file # f
    <3> TAKE i \in 1..(n - 1)
    <3>1. i + 1 \in 1..n /\ i + 1 # 1 /\ 1 \in 1..n /\ edits'[i] = edits[i + 1]
      BY <1>5
    <3>2. edits[i + 1].file # edits[1].file
      BY ONLY <1>6, <3>1
    <3> QED
      BY <1>13, <3>1, <3>2 DEF f
  <2>5. ASSUME push.step = "walk", NEW g \in Files
        PROVE  /\ ~ Same(g)' => \A i \in 1..(n - 1) : edits'[i].file # g
               /\ Same(g)' => Same(g)
    <3>1. CASE g = f
      BY <2>2, <2>4, <2>5, <3>1
    <3>2. CASE g # f
      BY <1>5, <2>1, <2>3, <2>5, <3>2
    <3> QED
      BY <3>1, <3>2
  <2> QED
    BY <1>1, <1>5, <2>1, <2>5 DEF Walked
<1>24. Stored' <=> Stored
  BY <1>1 DEF Stored, Vouched
<1>25. Fetched' /\ ReportIsTrue'
  BY <1>1 DEF ExchangeBooks, Fetched, ReportIsTrue
<1> QED
  BY <1>1, <1>17, <1>21, <1>22, <1>23, <1>24, <1>25 DEF ExchangeBooks

-----------------------------------------------------------------------------
(* Nor does a step of the gateway or of the pull. *)

\* What the gateway stores of an archive whose events are whole and match its seal.
LEMMA StoredIs ==
  ASSUME NEW files, IsCopy(files), RootMatches(files),
         EventsFile \in DOMAIN files => files[EventsFile].whole,
         NEW how \in {"as it came", "anew", "truncated", "damaged"}
  PROVE  /\ DOMAIN StoredAs(files, how) = DOMAIN files /\ IsCopy(StoredAs(files, how))
         /\ Vouched(StoredAs(files, how), how = "truncated")
<1>1. CASE ~ ({EventsFile, Manifest} \subseteq DOMAIN files)
  <2>1. StoredAs(files, how) = files
    BY <1>1, Zenon DEF StoredAs
  <2> QED
    BY <1>1, <2>1 DEF Vouched
<1>2. CASE {EventsFile, Manifest} \subseteq DOMAIN files
  <2> DEFINE e == files[EventsFile]
             digest == files[Manifest].root
             kept == CASE how = "anew" -> [e EXCEPT !.by = "gateway"]
                       [] how \in {"truncated", "damaged"} -> [e EXCEPT !.whole = FALSE]
                       [] OTHER -> e
             sealed == IF digest # Absent /\ how # "damaged" THEN kept ELSE digest
             first == With(files, EventsFile, kept)
             stored == With(first, Manifest, SealedAs(sealed))
  <2>1. StoredAs(files, how) = stored
    BY <1>2 DEF StoredAs
  <2>2. /\ e \in AllEvents /\ e.whole /\ digest \in AllEvents \union {Absent}
        /\ digest # Absent => digest = e
    <3>1. e \in AllEvents /\ files[Manifest] \in Seals
      BY <1>2, NamedFiles DEF IsCopy, Holds
    <3>2. PICK r \in AllEvents \union {Absent} : files[Manifest] = SealedAs(r)
      BY <3>1 DEF Seals
    <3>3. digest = r
      <4>1. SealedAs(r).root = r
        BY ONLY DEF SealedAs
      <4> QED
        BY <3>2, <4>1
    <3> QED
      BY <1>2, <3>1, <3>2, <3>3 DEF RootMatches
  <2> HIDE DEF e, digest
  <2>3. kept \in AllEvents /\ (how \in {"as it came", "anew"} => kept.whole)
          /\ (how = "damaged" => ~ kept.whole)
    <3>1. /\ [e EXCEPT !.by = "gateway"] \in AllEvents /\ [e EXCEPT !.by = "gateway"].whole
          /\ [e EXCEPT !.whole = FALSE] \in AllEvents /\ ~ [e EXCEPT !.whole = FALSE].whole
      BY <2>2 DEF AllEvents
    <3> QED
      BY <2>2, <3>1
  <2> HIDE DEF kept
  <2>4. SealedAs(sealed) \in Seals /\ SealedAs(sealed).root = sealed
    <3>1. sealed \in AllEvents \union {Absent}
      BY <2>2, <2>3
    <3> QED
      BY <3>1, Contents
  <2>5. Holds(EventsFile, kept) /\ Holds(Manifest, SealedAs(sealed))
    BY <2>3, <2>4, NamedFiles DEF Holds
  <2> DEFINE seal == SealedAs(sealed)
  <2> HIDE DEF first, seal
  <2>6. /\ DOMAIN first = DOMAIN files \union {EventsFile} /\ first[EventsFile] = kept /\ IsCopy(first)
    <3>1. /\ DOMAIN With(files, EventsFile, kept) = DOMAIN files \union {EventsFile}
          /\ With(files, EventsFile, kept)[EventsFile] = kept
          /\ \A g \in DOMAIN files : g # EventsFile => With(files, EventsFile, kept)[g] = files[g]
          /\ IsCopy(files) /\ EventsFile \in Files /\ Holds(EventsFile, kept) => IsCopy(With(files, EventsFile, kept))
      BY ONLY WithIs
    <3> QED
      BY <2>5, <3>1, Contents, Zenon DEF first
  <2>7. /\ DOMAIN stored = DOMAIN first \union {Manifest} /\ stored[Manifest] = seal /\ IsCopy(stored)
        /\ stored[EventsFile] = first[EventsFile]
    <3>1. /\ DOMAIN With(first, Manifest, seal) = DOMAIN first \union {Manifest}
          /\ With(first, Manifest, seal)[Manifest] = seal
          /\ \A g \in DOMAIN first : g # Manifest => With(first, Manifest, seal)[g] = first[g]
          /\ IsCopy(first) /\ Manifest \in Files /\ Holds(Manifest, seal) => IsCopy(With(first, Manifest, seal))
      BY ONLY WithIs
    <3>2. stored = With(first, Manifest, seal) /\ Manifest \in Files /\ Holds(Manifest, seal)
      BY <2>5, Contents DEF seal
    <3>3. EventsFile \in DOMAIN first /\ EventsFile # Manifest
      BY <2>6, NamedFiles
    <3> HIDE DEF stored
    <3> QED
      BY ONLY <2>6, <3>1, <3>2, <3>3
  <2>8. stored[Manifest].root = sealed /\ stored[EventsFile] = kept
    BY <2>4, <2>6, <2>7 DEF seal
  <2>9. DOMAIN stored = DOMAIN files
    BY <1>2, <2>6, <2>7
  <2> HIDE DEF stored
  <2>10. Vouched(stored, how = "truncated")
    <3>1. ASSUME sealed # Absent, kept = sealed, how # "truncated" PROVE kept.whole
      BY <2>2, <2>3, <3>1
    <3> HIDE DEF sealed
    <3> QED
      BY <2>8, <3>1 DEF Vouched
  <2> QED
    BY <2>1, <2>7, <2>9, <2>10
<1> QED
  BY <1>1, <1>2

LEMMA GatewayAnswersKeeps ==
  ASSUME ExchangeBooks, GatewayAnswers
  PROVE  ExchangeBooks'
<1> DEFINE entries == ReadArchive(push.zip)
           files == Unpacked(entries)
<1>1. /\ push.step = "send" /\ PushShape /\ RunStands /\ StillTo /\ NothingRaw /\ Packed /\ Fetched
      /\ UNCHANGED <<mine, writer, edits, pull, theirs>>
  BY DEF ExchangeBooks, GatewayAnswers
<1>2. held = Absent
  BY <1>1 DEF ExchangeBooks, Stored
<1>3. files = push.got
  BY <1>1, ReadsBack DEF PushShape, Packed
<1>4. \/ /\ RootMatches(files) /\ push' = [push EXCEPT !.step = "done"]
         /\ \E how \in {"as it came", "anew", "truncated", "damaged"} :
              held' = [files |-> StoredAs(files, how), truncated |-> how = "truncated"]
      \/ push' = [push EXCEPT !.step = "refused"] /\ held' = held
  BY DEF GatewayAnswers
<1> HIDE DEF files
<1>5. /\ push' = [step |-> push'.step, fs |-> push.fs, todo |-> push.todo, inside |-> push.inside,
                  got |-> push.got, zip |-> push.zip, found |-> push.found, quiet |-> push.quiet,
                  scrubbed |-> push.scrubbed]
      /\ push'.step \in {"done", "refused"}
  BY <1>1, <1>4 DEF PushShape
<1>6. RunStands' /\ StillTo'
  BY <1>1 DEF RunStands, StillTo, Scrubs, Target
<1>7. PushShape'
  BY <1>1, <1>5 DEF PushShape, PushSteps
<1>8. Walked'
  BY <1>5 DEF Walked
<1>9. NothingRaw' /\ Packed'
  BY <1>1, <1>5 DEF NothingRaw, Packed, Scrubs, HoldsRaw
<1>10. (held' # Absent \/ push'.step = "done") => Stored'
  <2>1. CASE push' = [push EXCEPT !.step = "refused"] /\ held' = held
    BY <1>2, <1>5, <2>1
  <2>2. ASSUME RootMatches(files), push' = [push EXCEPT !.step = "done"],
               NEW how \in {"as it came", "anew", "truncated", "damaged"},
               held' = [files |-> StoredAs(files, how), truncated |-> how = "truncated"]
        PROVE  Stored'
    <3>1. push'.step = "done" /\ push'.got = push.got
      BY <1>1, <2>2 DEF PushShape
    <3>2. /\ DOMAIN StoredAs(files, how) = DOMAIN files /\ IsCopy(StoredAs(files, how))
          /\ Vouched(StoredAs(files, how), how = "truncated")
      BY <1>1, <1>3, <2>2, StoredIs DEF PushShape
    <3>3. held'.files = StoredAs(files, how) /\ held'.truncated = (how = "truncated")
      BY <2>2
    <3> QED
      BY <1>3, <3>1, <3>2, <3>3 DEF Stored, Vouched
  <2> QED
    BY <1>4, <2>1, <2>2
<1>11. Fetched' /\ ReportIsTrue'
  <2>1. pull.step \notin {"unpack", "verify", "done"}
    BY <1>1, <1>2 DEF Fetched
  <2> QED
    BY <1>1, <2>1 DEF Fetched, ReportIsTrue, SealHolds, RootOf
<1> QED
  BY <1>6, <1>7, <1>8, <1>9, <1>10, <1>11 DEF ExchangeBooks

\* What a step of the pull may change.
LEMMA PullKeeps ==
  ASSUME ExchangeBooks, UNCHANGED <<mine, writer, edits, push, held>>, Fetched', ReportIsTrue'
  PROVE  ExchangeBooks'
<1>1. RunStands' /\ StillTo' /\ PushShape' /\ Walked' /\ NothingRaw' /\ Packed'
  BY DEF ExchangeBooks, RunStands, StillTo, Scrubs, Target, PushShape, Walked, Same, NothingRaw, Packed
<1>2. Stored' <=> Stored
  BY DEF Stored, Vouched
<1> QED
  BY <1>1, <1>2 DEF ExchangeBooks

LEMMA PullDownloadsKeeps ==
  ASSUME ExchangeBooks, PullDownloads
  PROVE  ExchangeBooks'
<1>1. Fetched /\ UNCHANGED <<mine, writer, edits, push, held, theirs>>
  BY DEF ExchangeBooks, PullDownloads, Fetches
<1>2. CASE held = Absent
  <2>1. pull' = [pull EXCEPT !.step = "failed"]
    BY <1>2 DEF PullDownloads, Fetches
  <2>2. pull' = [step |-> "failed", force |-> pull.force, zip |-> pull.zip, from |-> pull.from,
                 staged |-> pull.staged, warned |-> pull.warned, before |-> pull.before,
                 said |-> pull.said]
    BY <1>1, <2>1 DEF Fetched
  <2>3. Fetched' /\ ReportIsTrue'
    BY <1>1, <2>2 DEF Fetched, PullSteps, SealHolds, RootOf, ReportIsTrue
  <2> QED
    BY <1>1, <2>3, PullKeeps
<1>3. CASE held # Absent
  <2>1. PICK force \in BOOLEAN, directories \in BOOLEAN : \E zip \in Damaged(Exported(held, directories)) :
            Fetches([pull EXCEPT !.step = "unpack", !.force = force, !.zip = zip,
                      !.warned = held.truncated, !.from = held.files])
    BY <1>3 DEF PullDownloads
  <2>2. PICK zip \in Damaged(Exported(held, directories)) :
            pull' = [pull EXCEPT !.step = "unpack", !.force = force, !.zip = zip,
                      !.warned = held.truncated, !.from = held.files]
    BY <2>1 DEF Fetches
  <2>3. pull' = [step |-> "unpack", force |-> force, zip |-> zip, from |-> held.files,
                 staged |-> pull.staged, warned |-> held.truncated, before |-> pull.before,
                 said |-> pull.said]
    BY <1>1, <2>2 DEF Fetched
  <2>4. pull'.zip \in Damaged(Exported(held', directories))
    BY <1>1, <2>3
  <2>5. Fetched' /\ ReportIsTrue'
    BY <1>1, <1>3, <2>3, <2>4 DEF Fetched, PullSteps, SealHolds, RootOf, ReportIsTrue
  <2> QED
    BY <1>1, <2>5, PullKeeps
<1> QED
  BY <1>2, <1>3

LEMMA PullUnpacksKeeps ==
  ASSUME ExchangeBooks, PullUnpacks
  PROVE  ExchangeBooks'
<1> DEFINE entries == ReadArchive(pull.zip)
           goesOn == entries \notin {Absent, << >>} /\ (theirs # Absent => pull.force)
<1>1. Fetched /\ pull.step = "unpack" /\ UNCHANGED <<mine, writer, edits, push, held, theirs>>
  BY DEF ExchangeBooks, PullUnpacks, Fetches
<1>0. pull' = IF goesOn THEN [pull EXCEPT !.step = "verify", !.staged = Unpacked(entries)]
            ELSE [pull EXCEPT !.step = "failed"]
  BY DEF PullUnpacks, Fetches
<1>2. Stored
  BY <1>1 DEF ExchangeBooks, Fetched
<1>3. PICK directories \in BOOLEAN : pull.zip \in Damaged(Exported(held, directories))
  BY <1>1 DEF Fetched
<1>4. goesOn => Unpacked(entries) = held.files
  BY <1>2, <1>3, ArrivesOrNot DEF Stored
<1> HIDE DEF entries, goesOn
<1>5. CASE goesOn
  <2>1. pull' = [step |-> "verify", force |-> pull.force, zip |-> pull.zip, from |-> pull.from,
                 staged |-> held.files, warned |-> pull.warned, before |-> pull.before,
                 said |-> pull.said]
    BY <1>0, <1>1, <1>4, <1>5 DEF Fetched
  <2>2. Fetched' /\ ReportIsTrue'
    BY <1>1, <2>1 DEF Fetched, PullSteps, SealHolds, RootOf, ReportIsTrue
  <2> QED
    BY <1>1, <2>2, PullKeeps
<1>6. CASE ~ goesOn
  <2>1. pull' = [step |-> "failed", force |-> pull.force, zip |-> pull.zip, from |-> pull.from,
                 staged |-> pull.staged, warned |-> pull.warned, before |-> pull.before,
                 said |-> pull.said]
    BY <1>0, <1>1, <1>6 DEF Fetched
  <2>2. Fetched' /\ ReportIsTrue'
    BY <1>1, <2>1 DEF Fetched, PullSteps, SealHolds, RootOf, ReportIsTrue
  <2> QED
    BY <1>1, <2>2, PullKeeps
<1> QED
  BY <1>5, <1>6

LEMMA PullInstallsKeeps ==
  ASSUME ExchangeBooks, PullInstalls
  PROVE  ExchangeBooks'
<1>1. /\ Fetched /\ pull.step = "verify" /\ UNCHANGED <<mine, writer, edits, push, held>>
      /\ pull.staged = held.files
  BY DEF ExchangeBooks, PullInstalls, Fetches, Fetched
<1>2. CASE VerifyStaged(pull.staged)
  <2>1. /\ pull' = [pull EXCEPT !.step = "done", !.before = theirs,
                      !.said = ReportAgainstLocal(theirs, pull.staged)]
        /\ theirs' = pull.staged
    BY <1>2 DEF PullInstalls, Fetches
  <2>2. pull' = [step |-> "done", force |-> pull.force, zip |-> pull.zip, from |-> pull.from,
                 staged |-> pull.staged, warned |-> pull.warned, before |-> theirs,
                 said |-> ReportAgainstLocal(theirs, pull.staged)]
    BY <1>1, <2>1 DEF Fetched
  <2>3. SealHolds(theirs) /\ SealHolds(theirs')
    BY <1>1, <1>2, <2>1 DEF Fetched, VerifyStaged, SealHolds
  <2>4. Fetched'
    <3>1. SealHolds(theirs)'
      BY <2>3 DEF SealHolds, RootOf
    <3>2. theirs' = held.files
      BY <1>1, <2>1
    <3> QED
      BY <1>1, <2>2, <3>1, <3>2 DEF Fetched, PullSteps
  <2>5. ReportIsTrue'
    <3> DEFINE told == ReportAgainstLocal(theirs, theirs')
    <3>1. pull'.before = theirs /\ pull'.said = told
      BY <2>1, <2>2
    <3>2. ASSUME RootOf(theirs) # Absent, RootOf(theirs') # Absent
          PROVE  CASE told = "nothing" -> theirs[EventsFile] = theirs'[EventsFile]
                   [] told = "reserialized" -> /\ theirs[EventsFile] # theirs'[EventsFile]
                                               /\ Story(theirs[EventsFile]) = Story(theirs'[EventsFile])
                   [] told = "differs" -> Story(theirs[EventsFile]) # Story(theirs'[EventsFile])
      <4>1. theirs[EventsFile] = RootOf(theirs) /\ theirs'[EventsFile] = RootOf(theirs')
        BY <2>3, <3>2 DEF SealHolds
      <4>2. told = IF RootOf(theirs) = RootOf(theirs') THEN "nothing"
                   ELSE IF Story(theirs[EventsFile]) = Story(theirs'[EventsFile])
                        THEN "reserialized" ELSE "differs"
        BY <3>2 DEF ReportAgainstLocal
      <4> HIDE DEF told
      <4> QED
        BY <4>1, <4>2
    <3> HIDE DEF told
    <3> QED
      BY <3>1, <3>2 DEF ReportIsTrue, RootOf, Story
  <2> QED
    BY <1>1, <2>4, <2>5, PullKeeps
<1>3. CASE ~ VerifyStaged(pull.staged)
  <2>1. pull' = [pull EXCEPT !.step = "failed"] /\ theirs' = theirs
    BY <1>3 DEF PullInstalls, Fetches
  <2>2. pull' = [step |-> "failed", force |-> pull.force, zip |-> pull.zip, from |-> pull.from,
                 staged |-> pull.staged, warned |-> pull.warned, before |-> pull.before,
                 said |-> pull.said]
    BY <1>1, <2>1 DEF Fetched
  <2>3. Fetched' /\ ReportIsTrue'
    BY <1>1, <2>1, <2>2 DEF Fetched, PullSteps, SealHolds, RootOf, ReportIsTrue
  <2> QED
    BY <1>1, <2>3, PullKeeps
<1> QED
  BY <1>2, <1>3

-----------------------------------------------------------------------------
(* What arrives. *)

LEMMA BooksAreKept ==
  ExchangeBooks /\ [ExchangeNext]_exchangeVars => ExchangeBooks'
<1> SUFFICES ASSUME ExchangeBooks, [ExchangeNext]_exchangeVars PROVE ExchangeBooks'
  OBVIOUS
<1>1. CASE RunChanges
  BY <1>1, RunChangesKeeps
<1>2. CASE WriterDies
  BY <1>2, WriterDiesKeeps
<1>3. CASE PushBegins
  BY <1>3, PushBeginsKeeps
<1>4. CASE PushEnters
  BY <1>4, PushEntersKeeps
<1>5. CASE PushReads
  BY <1>5, PushReadsKeeps
<1>6. CASE PushPacks
  BY <1>6, PushPacksKeeps
<1>7. CASE GatewayAnswers
  BY <1>7, GatewayAnswersKeeps
<1>8. CASE PullDownloads
  BY <1>8, PullDownloadsKeeps
<1>9. CASE PullUnpacks
  BY <1>9, PullUnpacksKeeps
<1>10. CASE PullInstalls
  BY <1>10, PullInstallsKeeps
<1>11. CASE UNCHANGED exchangeVars
  <2>1. UNCHANGED <<mine, writer, edits, push, held, pull, theirs>>
    BY <1>11 DEF exchangeVars
  <2>2. Fetched' /\ ReportIsTrue'
    BY <2>1 DEF ExchangeBooks, Fetched, SealHolds, RootOf, ReportIsTrue
  <2> QED
    BY <2>1, <2>2, PullKeeps
<1> QED
  BY <1>1, <1>2, <1>3, <1>4, <1>5, <1>6, <1>7, <1>8, <1>9, <1>10, <1>11 DEF ExchangeNext

LEMMA BooksSayWhatArrives ==
  ASSUME ExchangeBooks
  PROVE  WhatArrives
<1>1. PushShape /\ NothingRaw /\ Packed /\ Fetched /\ ReportIsTrue /\ (push.step = "done" => Stored)
  BY DEF ExchangeBooks
<1>2. NothingElseLeaves
  BY <1>1 DEF PushShape, NothingRaw, Shipped, PushedTopLevel, NothingElseLeaves
<1>3. PackedWhole
  BY <1>1 DEF Packed, Stored, Shipped, Sent, PackedWhole
<1>4. ArrivesWhole
  <2> SUFFICES ASSUME pull.step = "done" PROVE ArrivesWhole
    BY DEF ArrivesWhole
  <2>1. theirs = held.files /\ theirs = pull.from /\ pull.warned = held.truncated /\ SealHolds(theirs)
    BY <1>1 DEF Fetched
  <2>2. Vouched(theirs, pull.warned)
    BY <1>1, <2>1 DEF Fetched, ExchangeBooks, Stored
  <2>3. ASSUME RootOf(theirs) # Absent
        PROVE  /\ theirs[EventsFile] = RootOf(theirs) /\ (~ pull.warned => theirs[EventsFile].whole)
    <3>1. EventsFile \in DOMAIN theirs /\ theirs[EventsFile] = RootOf(theirs)
      BY <2>1, <2>3 DEF SealHolds
    <3>2. Manifest \in DOMAIN theirs /\ theirs[Manifest].root = RootOf(theirs)
      BY <2>3 DEF RootOf
    <3> QED
      BY <2>2, <2>3, <3>1, <3>2 DEF Vouched
  <2> QED
    BY <2>1, <2>3 DEF ArrivesWhole
<1> QED
  BY <1>1, <1>2, <1>3, <1>4 DEF WhatArrives

\* Whatever a run holds and whatever blobs its events refer to, whoever writes it while it
\* is pushed and wherever he is killed: nothing else leaves the machine and after a scrub
\* nothing it removed, a run that stood still is packed whole, and what a pull installs is
\* all the gateway has, under its seal, or is said to be different.
THEOREM WhatArrivesIsTrue ==
  ExchangeSpec => []WhatArrives
<1>1. ExchangeInit => ExchangeBooks
  BY BooksOpen
<1> QED
  BY <1>1, BooksAreKept, BooksSayWhatArrives, PTL DEF ExchangeSpec

-----------------------------------------------------------------------------
(***************************************************************************)
(* Where keys, calls and runs go, for every set of commands, hosts, flags, *)
(* variables, calls and first configs (Gateway.tla).                       *)
(*                                                                         *)
(* What KeysStayHome and GoesWhereNamed say of a request that left, what   *)
(* the command that sent it knows must already say of the one it is about  *)
(* to send: so the invariant, Sound, follows each command from what it was *)
(* given to what it settles on.  A setup holds a gateway as it was given   *)
(* (SetupRight), a live command a plan whose key belongs to the gateway    *)
(* the plan is for (LiveRight), a sync command a destination the user      *)
(* typed and a key for it (SyncRight); the file holds what a setup leaves  *)
(* there; and who has sent a request does nothing more, so that what was   *)
(* true of the request stays true (WentRight).                             *)
(*                                                                         *)
(* A step is one command's: OneMoves carries the invariant over for all    *)
(* the others, and each action has a lemma of its own.                     *)
(***************************************************************************)

-----------------------------------------------------------------------------
(* Constants. *)

LEMMA Given ==
  /\ None # Blank /\ None \notin Urls /\ Blank \notin Urls /\ None \notin GatewayConfigs
  /\ None \notin Pointed
  /\ \A p \in Setups : p \notin Lives /\ p \notin Syncs
  /\ \A p \in Lives : p \notin Setups /\ p \notin Syncs
  /\ \A p \in Syncs : p \notin Setups /\ p \notin Lives
  /\ \A p \in Invocations : p # None
  /\ \A d \in Dialects : Vendor[d] \in Hosts
  /\ OrcaRouter \in Urls /\ ~ Unusable(OrcaRouter)
BY GatewayAssumption DEF Invocations

LEMMA UrlsHave ==
  ASSUME NEW u \in Urls
  PROVE  /\ u.host \in Hosts /\ OriginOf(u) \in Hosts \union {"null"}
         /\ u # None /\ u # Blank
         /\ ~ Unusable(u) => OriginOf(u) = u.host
         /\ Reachable(u) => ~ Unusable(u)
BY Given DEF Urls, Forms, OriginOf, Unusable, Reachable

LEMMA PlainUrl ==
  ASSUME NEW h \in Hosts
  PROVE  Url(h, "plain") \in Urls /\ Url(h, "plain").form = "plain" /\ Url(h, "plain").host = h
BY DEF Url, Urls, Forms

\* What is rendered of a URL that is not refused has no credential in it.
LEMMA RecordableIsPlain ==
  ASSUME NEW u \in Urls
  PROVE  /\ ~ Unusable(u) => Recordable(u) \in Urls /\ Recordable(u).form = "plain"
         /\ ScrubbedOrigin(u) \in Urls /\ ScrubbedOrigin(u).form = "plain"
<1>1. u.host \in Hosts
  BY DEF Urls
<1> QED
  BY <1>1, PlainUrl DEF Recordable, ScrubbedOrigin

LEMMA OfAConfig ==
  ASSUME NEW c \in Configs
  PROVE  /\ c.gateway \in GatewayConfigs \union {None} /\ c.models \in Setups \union {None}
BY DEF Configs

LEMMA OfAGateway ==
  ASSUME NEW g \in GatewayConfigs
  PROVE  /\ g # None /\ g.url \in Urls /\ g.typed \in BOOLEAN
         /\ g.source \in {"named", "default", "absent"}
         /\ g.key # None => g.key \in Keys
         /\ \A e \in BOOLEAN : KeyOf(g, e) \in {None, g.key}
<1>1. g # None
  BY Given
<1> QED
  BY <1>1 DEF GatewayConfigs, KeyOf

LEMMA NoConfigTyped == NoConfig \in Configs /\ NoConfig.gateway = None
BY DEF NoConfig, Configs

\* The requests an exchange with u leaves behind go to its host, and carry its key.
LEMMA RequestsOf ==
  ASSUME NEW p, NEW c, NEW u, NEW key, NEW answer, NEW q \in Request(p, c, u, key, answer)
  PROVE  q.by = p /\ q.call = c /\ q.to = u.host /\ q.key = key /\ Reachable(u)
BY DEF Request, Reached

-----------------------------------------------------------------------------
(* What setup makes of what it was given. *)

LEMMA OfASetup ==
  ASSUME NEW g \in Asked
  PROVE  /\ UrlOf(g) \in Urls
         /\ ~ Unusable(UrlOf(g)) => MeantBy(g) \in GatewayConfigs /\ AsSetupLeaves(MeantBy(g))
<1>1. g.url \in Typed /\ g.key \in {"stored", "var", None}
  BY GatewayAssumption
<1>2. UrlOf(g) \in Urls
  BY <1>1, Given DEF UrlOf, IsGiven, Typed
<1> DEFINE u == UrlOf(g)
           t == IsGiven(g.url)
           s == SourceOf(g)
           k == IF g.key # None THEN [kind |-> g.key, home |-> OriginOf(UrlOf(g))] ELSE None
<1>3. t \in BOOLEAN /\ s \in {"named", "default"} /\ (~ t => u = OrcaRouter /\ s = "default")
  BY DEF IsGiven, SourceOf, UrlOf
<1>4. k = None \/ (k \in Keys /\ k.home = OriginOf(u))
  BY <1>1, <1>2, UrlsHave DEF Keys
<1>5. MeantBy(g) = [url |-> u, source |-> s, typed |-> t, key |-> k]
  BY DEF MeantBy
<1> HIDE DEF u, t, s, k
<1>6. /\ MeantBy(g).url = u /\ MeantBy(g).source = s /\ MeantBy(g).typed = t
      /\ MeantBy(g).key = k
  BY ONLY <1>5
<1>7. u \in Urls
  BY ONLY <1>2 DEF u
<1>8. MeantBy(g) \in GatewayConfigs
  BY ONLY <1>3, <1>4, <1>5, <1>7 DEF GatewayConfigs
<1>9. ~ Unusable(u) => AsSetupLeaves(MeantBy(g))
  BY ONLY <1>3, <1>4, <1>6 DEF AsSetupLeaves, SameOrigin
<1> QED
  BY <1>2, <1>8, <1>9 DEF u

-----------------------------------------------------------------------------
(* The invariant: what each invocation knows, and what has left.            *)

Kept(c) == c.gateway # None => AsSetupLeaves(c.gateway)

\* A setup writes what it was given, never a URL it refuses, never no gateway.
SetupRight(s) ==
  /\ Kept(read[s])
  /\ doing[s] \in {"read", "stage", "fill", "install", "probe"} => given[s] \in Asked
  /\ doing[s] = "read" => ~ Unusable(UrlOf(given[s]))
  /\ doing[s] \in {"stage", "fill", "install", "probe"} => read[s].gateway # None
  /\ staging[s] # None => Kept(staging[s])
  /\ doing[s] = "install" /\ staging[s] # None => staging[s].gateway # None

\* A plan names no upstream orca refuses, the user's own where one was given, and
\* its key belongs to the gateway it is for.
PlanRight(r) ==
  LET up == plan[r].upstream IN
  /\ plan[r] \in LivePlans
  /\ \A u \in Origins(up) : ~ Unusable(u)
  /\ plan[r].home # None /\ plan[r].key # None => plan[r].key.home = OriginOf(plan[r].home)
  /\ up["openai-responses"] = up["openai"]
  /\ IsGiven(given[r].anthropic) => up["anthropic"] = given[r].anthropic
  /\ IsGiven(given[r].openai) => up["openai"] = given[r].openai
LiveRight(r) ==
  /\ Kept(read[r])
  /\ doing[r] \in {"plan", "live"} => given[r] \in Told
  /\ doing[r] = "live" => PlanRight(r)

\* A run is sent where the user typed, with a key for that place.
SyncRight(p) ==
  /\ doing[p] = "start" => plan[p] = None /\ given[p] = None
  /\ doing[p] = "send" =>
       /\ plan[p] \in SyncPlans /\ plan[p].url \in Urls
       /\ Unusable(plan[p].url) =>
            given[p] # None /\ plan[p].url \in {given[p].flag, given[p].env}
       /\ plan[p].key # None /\ plan[p].typed
       /\ plan[p].key.home = OriginOf(plan[p].url)

\* What a live run's request says of where it may go (GoesWhereNamed).
CallGoesRight(q) ==
  LET configured == {u.host : u \in Origins(plan[q.by].upstream)} IN
  IF given[q.by].model = None \/ KindOf(q.call) = "retrieval"
    THEN q.to \in Meant(q.by, q.call)
    ELSE q.to \in configured \/
         /\ q.to \in {Vendor[d] : d \in Dialects}
         /\ q.call.client # "codex" =>
              \E d \in {"anthropic", "openai"} : plan[q.by].upstream[d] = None

\* A request went where it may, and who sent it has nothing left to do.
WentRight(q) ==
  /\ q.key # None => q.to = q.key.home
  /\ q.by \in Lives \union Syncs => doing[q.by] = "done"
  /\ q.by \in Lives => CallGoesRight(q)
  /\ q.by \in Syncs /\ plan[q.by] # None => plan[q.by].typed /\ q.key # None

Sound ==
  /\ Kept(config)
  /\ \A s \in Setups : SetupRight(s)
  /\ \A r \in Lives : LiveRight(r)
  /\ \A p \in Syncs : SyncRight(p)
  /\ \A q \in wire : WentRight(q)
  /\ \A u \in written : u.form = "plain" \/ TypedToSync(u)
  /\ (\E s \in Setups : Saved(s)) => config.gateway # None

LEMMA SoundIsEnough == Sound => KeysStayHome /\ GoesWhereNamed
BY DEF Sound, WentRight, CallGoesRight, KeysStayHome, GoesWhereNamed

LEMMA GatewayInitTypes == GatewayInit => GatewayTypeOK
<1> SUFFICES ASSUME GatewayInit PROVE GatewayTypeOK
  OBVIOUS
<1>1. config \in Configs
  BY GatewayAssumption DEF GatewayInit
<1>2. NoConfig \in Configs
  BY NoConfigTyped
<1> QED
  BY <1>1, <1>2 DEF GatewayInit, GatewayTypeOK, Phases

LEMMA GatewayInitSound == GatewayInit => Sound
<1> SUFFICES ASSUME GatewayInit PROVE Sound
  OBVIOUS
<1>1. Kept(config)
  BY GatewayAssumption DEF GatewayInit, Kept
<1>2. Kept(NoConfig)
  BY DEF Kept, NoConfig
<1>3. /\ \A p \in Invocations : doing[p] = "start"
      /\ \A p \in Setups \union Lives : read[p] = NoConfig
      /\ \A s \in Setups : staging[s] = None
      /\ \A p \in Syncs : plan[p] = None /\ given[p] = None
      /\ wire = {} /\ written = {}
  BY DEF GatewayInit, Invocations
<1>4. \A s \in Setups : SetupRight(s) /\ ~ Saved(s)
  BY <1>2, <1>3 DEF SetupRight, Saved, Invocations
<1>5. \A r \in Lives : LiveRight(r)
  BY <1>2, <1>3 DEF LiveRight, Invocations
<1>6. \A p \in Syncs : SyncRight(p)
  BY <1>3 DEF SyncRight, Invocations
<1> QED
  BY <1>1, <1>3, <1>4, <1>5, <1>6 DEF Sound

-----------------------------------------------------------------------------
(* Steps of one invocation.                                                  *)

LEMMA Edited ==
  ASSUME NEW S, NEW V, NEW f \in [S -> V], NEW x \in S, NEW v \in V
  PROVE  /\ [f EXCEPT ![x] = v] \in [S -> V]
         /\ [f EXCEPT ![x] = v][x] = v
         /\ \A y \in S \ {x} : [f EXCEPT ![x] = v][y] = f[y]
OBVIOUS

LEMMA MovesTo ==
  ASSUME GatewayTypeOK, NEW p \in Invocations, NEW to \in Phases, Moves(p, to)
  PROVE  /\ doing' \in [Invocations -> Phases]
         /\ doing'[p] = to
         /\ \A o \in Invocations \ {p} : doing'[o] = doing[o]
BY DEF GatewayTypeOK, Moves

\* Nobody else's state changes.
Own(p) ==
  /\ \A o \in Invocations \ {p} : doing'[o] = doing[o] /\ given'[o] = given[o]
  /\ \A o \in (Setups \union Lives) \ {p} : read'[o] = read[o]
  /\ \A o \in (Lives \union Syncs) \ {p} : plan'[o] = plan[o]
  /\ \A o \in Setups \ {p} : staging'[o] = staging[o]

LEMMA OneMoves ==
  ASSUME Sound, NEW p \in Invocations, doing[p] # "done", Own(p), Kept(config)',
         p \in Setups => SetupRight(p)',
         p \in Lives => LiveRight(p)',
         p \in Syncs => SyncRight(p)',
         \A q \in wire' : q \in wire \/ WentRight(q)',
         p \in Syncs => given'[p] = given[p] \/ given[p] = None,
         \A u \in written' : u \in written \/ u.form = "plain" \/ TypedToSync(u)',
         config'.gateway # None \/ (config' = config /\ (p \in Setups /\ Saved(p)' => Saved(p)))
  PROVE  Sound'
<1>1. \A s \in Setups : SetupRight(s)'
  <2> SUFFICES ASSUME NEW s \in Setups, s # p PROVE SetupRight(s)'
    OBVIOUS
  <2> QED
    BY DEF Own, Sound, SetupRight, Kept, Invocations
<1>2. \A r \in Lives : LiveRight(r)'
  <2> SUFFICES ASSUME NEW r \in Lives, r # p PROVE LiveRight(r)'
    OBVIOUS
  <2>1. doing'[r] = doing[r] /\ given'[r] = given[r] /\ read'[r] = read[r] /\ plan'[r] = plan[r]
    BY DEF Own, Invocations
  <2>2. LiveRight(r)
    BY DEF Sound
  <2>3. PlanRight(r) => PlanRight(r)'
    BY ONLY <2>1 DEF PlanRight, Origins
  <2> QED
    BY ONLY <2>1, <2>2, <2>3 DEF LiveRight, Kept
<1>3. \A o \in Syncs : SyncRight(o)'
  <2> SUFFICES ASSUME NEW o \in Syncs, o # p PROVE SyncRight(o)'
    OBVIOUS
  <2> QED
    BY DEF Own, Sound, SyncRight, Invocations
<1>4. \A q \in wire' : WentRight(q)'
  <2> SUFFICES ASSUME NEW q \in wire PROVE WentRight(q)'
    OBVIOUS
  <2>1. WentRight(q)
    BY DEF Sound
  <2>2. q.by \in Lives \union Syncs =>
          /\ doing'[q.by] = doing[q.by] /\ given'[q.by] = given[q.by]
             /\ plan'[q.by] = plan[q.by]
    BY <2>1 DEF WentRight, Own, Invocations
  <2>3. q.by \in Lives /\ CallGoesRight(q) => CallGoesRight(q)'
    BY ONLY <2>2 DEF CallGoesRight, Meant, Origins
  <2> QED
    BY ONLY <2>1, <2>2, <2>3 DEF WentRight
<1>5. \A u \in written' : u.form = "plain" \/ TypedToSync(u)'
  <2>1. \A o \in Syncs : given'[o] = given[o] \/ given[o] = None
    BY DEF Own, Invocations
  <2>2. \A u : TypedToSync(u) => TypedToSync(u)'
    BY ONLY <2>1 DEF TypedToSync, Unusable
  <2> QED
    BY <2>2 DEF Sound
<1>6. (\E s \in Setups : Saved(s)') => config'.gateway # None
  <2> SUFFICES ASSUME NEW s \in Setups, Saved(s)', config'.gateway = None PROVE FALSE
    OBVIOUS
  <2>1. Saved(s)
    BY DEF Own, Saved, Invocations
  <2> QED
    BY <2>1 DEF Sound
<1> QED
  BY <1>1, <1>2, <1>3, <1>4, <1>5, <1>6 DEF Sound

-----------------------------------------------------------------------------
(* orca setup.                                                              *)

LEMMA InvocationsAre ==
  /\ \A s \in Setups : s \in Invocations /\ s \notin Lives /\ s \notin Syncs
  /\ \A r \in Lives : r \in Invocations /\ r \notin Setups /\ r \notin Syncs
  /\ \A p \in Syncs : p \in Invocations /\ p \notin Setups /\ p \notin Lives
BY Given DEF Invocations

LEMMA SetupOf ==
  ASSUME GatewayTypeOK, Sound, NEW s \in Setups
  PROVE  /\ s \in Invocations /\ SetupRight(s) /\ Kept(config)
         /\ config \in Configs /\ read[s] \in Configs /\ staging[s] \in Configs \union {None}
BY DEF GatewayTypeOK, Sound, Invocations

LEMMA SetupBeginsKeeps ==
  ASSUME GatewayTypeOK, Sound, NEW s \in Setups, SetupBegins(s)
  PROVE  GatewayTypeOK' /\ Sound'
<1>1. PICK g \in Asked :
        /\ given' = [given EXCEPT ![s] = g]
        /\ QuietlyMoves(s, IF Unusable(UrlOf(g)) THEN "refused" ELSE "read")
  BY DEF SetupBegins
<1> DEFINE to == IF Unusable(UrlOf(g)) THEN "refused" ELSE "read"
<1>2. /\ doing[s] = "start" /\ Moves(s, to)
      /\ UNCHANGED <<config, staging, read, plan, wire, written>>
  BY <1>1 DEF SetupBegins, QuietlyMoves, FileAlone
<1>3. to \in Phases /\ s \in Invocations /\ SetupRight(s)
  BY SetupOf DEF Phases
<1>4. /\ doing' \in [Invocations -> Phases] /\ doing'[s] = to
      /\ \A o \in Invocations \ {s} : doing'[o] = doing[o]
  BY <1>2, <1>3, MovesTo
<1>5. /\ given' \in [Invocations -> Asked \union Told \union Pointed \union {None}]
      /\ given'[s] = g
      /\ \A o \in Invocations \ {s} : given'[o] = given[o]
  BY <1>1, <1>3, Edited DEF GatewayTypeOK
<1>6. GatewayTypeOK'
  BY ONLY GatewayTypeOK, <1>2, <1>4, <1>5 DEF GatewayTypeOK
<1>7. Own(s)
  BY ONLY <1>2, <1>4, <1>5 DEF Own
<1>8. SetupRight(s)'
  BY ONLY <1>2, <1>3, <1>4, <1>5 DEF SetupRight, Kept
<1>9. Sound'
  BY ONLY Sound, <1>2, <1>3, <1>4, <1>7, <1>8, OneMoves, s \in Setups, SetupOf, GatewayTypeOK,
          InvocationsAre
     DEF Saved, Kept
<1> QED
  BY <1>6, <1>9

LEMMA SetupReadsKeeps ==
  ASSUME GatewayTypeOK, Sound, NEW s \in Setups, SetupReads(s)
  PROVE  GatewayTypeOK' /\ Sound'
<1> DEFINE c == [gateway |-> MeantBy(given[s]), models |-> config.models]
<1>1. /\ doing[s] = "read" /\ read' = [read EXCEPT ![s] = c] /\ Moves(s, "stage")
      /\ UNCHANGED <<config, staging, given, plan, wire, written>>
  BY DEF SetupReads, QuietlyMoves, FileAlone
<1>2. s \in Invocations /\ SetupRight(s) /\ config \in Configs
  BY SetupOf
<1>3. given[s] \in Asked /\ ~ Unusable(UrlOf(given[s]))
  BY <1>1, <1>2 DEF SetupRight
<1>4. MeantBy(given[s]) \in GatewayConfigs /\ AsSetupLeaves(MeantBy(given[s]))
  BY <1>3, OfASetup
<1>5. c \in Configs /\ Kept(c) /\ c.gateway # None
  BY <1>2, <1>4, OfAConfig, OfAGateway DEF Configs, Kept
<1> HIDE DEF c
<1>6. /\ doing' \in [Invocations -> Phases] /\ doing'[s] = "stage"
      /\ \A o \in Invocations \ {s} : doing'[o] = doing[o]
  BY <1>1, <1>2, MovesTo DEF Phases
<1>7. /\ read' \in [Setups \union Lives -> Configs] /\ read'[s] = c
      /\ \A o \in (Setups \union Lives) \ {s} : read'[o] = read[o]
  BY <1>1, <1>5, Edited DEF GatewayTypeOK
<1>8. GatewayTypeOK'
  BY ONLY GatewayTypeOK, <1>1, <1>6, <1>7 DEF GatewayTypeOK
<1>9. Own(s)
  BY ONLY <1>1, <1>6, <1>7 DEF Own
<1>10. SetupRight(s)'
  BY ONLY <1>1, <1>2, <1>3, <1>5, <1>6, <1>7 DEF SetupRight
<1>11. Sound'
  BY ONLY Sound, <1>1, <1>2, <1>6, <1>9, <1>10, OneMoves, s \in Setups, SetupOf, GatewayTypeOK,
          InvocationsAre
     DEF Saved, Kept
<1> QED
  BY <1>8, <1>11

LEMMA OpenStagingKeeps ==
  ASSUME GatewayTypeOK, Sound, NEW s \in Setups, OpenStaging(s)
  PROVE  GatewayTypeOK' /\ Sound'
<1>1. /\ doing[s] = "stage" /\ staging' = [staging EXCEPT ![s] = NoConfig] /\ Moves(s, "fill")
      /\ UNCHANGED <<config, given, read, plan, wire, written>>
  BY DEF OpenStaging, QuietlyMoves, StagingOf
<1>2. s \in Invocations /\ SetupRight(s)
  BY SetupOf
<1>3. /\ doing' \in [Invocations -> Phases] /\ doing'[s] = "fill"
      /\ \A o \in Invocations \ {s} : doing'[o] = doing[o]
  BY <1>1, <1>2, MovesTo DEF Phases
<1>4. /\ staging' \in [Setups -> Configs \union {None}] /\ staging'[s] = NoConfig
      /\ \A o \in Setups \ {s} : staging'[o] = staging[o]
  BY <1>1, NoConfigTyped, Edited DEF GatewayTypeOK
<1>5. GatewayTypeOK'
  BY ONLY GatewayTypeOK, <1>1, <1>3, <1>4 DEF GatewayTypeOK
<1>6. Own(s)
  BY ONLY <1>1, <1>3, <1>4 DEF Own
<1>7. SetupRight(s)'
  BY ONLY <1>1, <1>2, <1>3, <1>4, NoConfigTyped DEF SetupRight, Kept
<1>8. Sound'
  BY ONLY Sound, <1>1, <1>2, <1>3, <1>6, <1>7, OneMoves, s \in Setups, SetupOf, GatewayTypeOK,
          InvocationsAre
     DEF Saved, Kept
<1> QED
  BY <1>5, <1>8

LEMMA FillStagingKeeps ==
  ASSUME GatewayTypeOK, Sound, NEW s \in Setups, FillStaging(s)
  PROVE  GatewayTypeOK' /\ Sound'
<1>1. /\ doing[s] = "fill" /\ staging' = [staging EXCEPT ![s] = read[s]] /\ Moves(s, "install")
      /\ UNCHANGED <<config, given, read, plan, wire, written>>
  BY DEF FillStaging, QuietlyMoves, StagingOf
<1>2. s \in Invocations /\ SetupRight(s) /\ read[s] \in Configs
  BY SetupOf
<1>3. /\ doing' \in [Invocations -> Phases] /\ doing'[s] = "install"
      /\ \A o \in Invocations \ {s} : doing'[o] = doing[o]
  BY <1>1, <1>2, MovesTo DEF Phases
<1>4. /\ staging' \in [Setups -> Configs \union {None}] /\ staging'[s] = read[s]
      /\ \A o \in Setups \ {s} : staging'[o] = staging[o]
  BY <1>1, <1>2, Edited DEF GatewayTypeOK
<1>5. GatewayTypeOK'
  BY ONLY GatewayTypeOK, <1>1, <1>3, <1>4 DEF GatewayTypeOK
<1>6. Own(s)
  BY ONLY <1>1, <1>3, <1>4 DEF Own
<1>7. SetupRight(s)'
  BY ONLY <1>1, <1>2, <1>3, <1>4 DEF SetupRight, Kept
<1>8. Sound'
  BY ONLY Sound, <1>1, <1>2, <1>3, <1>6, <1>7, OneMoves, s \in Setups, SetupOf, GatewayTypeOK,
          InvocationsAre
     DEF Saved, Kept
<1> QED
  BY <1>5, <1>8

LEMMA InstallConfigKeeps ==
  ASSUME GatewayTypeOK, Sound, NEW s \in Setups, InstallConfig(s)
  PROVE  GatewayTypeOK' /\ Sound'
<1> DEFINE to == IF read[s].models = s THEN "done" ELSE "probe"
           u == read[s].gateway.url
<1>1. /\ doing[s] = "install" /\ staging[s] # None /\ config' = staging[s]
      /\ staging' = [staging EXCEPT ![s] = None] /\ Moves(s, to)
      /\ written' = written \union {Recordable(u)}
      /\ UNCHANGED <<given, read, plan, wire>>
  BY DEF InstallConfig, StagingOf, Says
<1>2. /\ s \in Invocations /\ SetupRight(s) /\ read[s] \in Configs
      /\ staging[s] \in Configs \union {None}
  BY SetupOf
<1>3. /\ given[s] \in Asked /\ read[s].gateway # None
      /\ Kept(staging[s]) /\ staging[s].gateway # None /\ Kept(read[s])
  BY <1>1, <1>2 DEF SetupRight
<1>4. u \in Urls /\ ~ Unusable(u)
  BY <1>2, <1>3, OfAConfig, OfAGateway DEF Kept, AsSetupLeaves
<1>5. Recordable(u) \in Urls /\ Recordable(u).form = "plain"
  BY <1>4, RecordableIsPlain
<1>6. to \in Phases
  BY DEF Phases
<1>7. /\ doing' \in [Invocations -> Phases] /\ doing'[s] = to
      /\ \A o \in Invocations \ {s} : doing'[o] = doing[o]
  BY <1>1, <1>2, <1>6, MovesTo
<1>8. /\ staging' \in [Setups -> Configs \union {None}] /\ staging'[s] = None
      /\ \A o \in Setups \ {s} : staging'[o] = staging[o]
  BY <1>1, Edited DEF GatewayTypeOK
<1>9. GatewayTypeOK'
  BY ONLY GatewayTypeOK, <1>1, <1>2, <1>5, <1>7, <1>8 DEF GatewayTypeOK
<1>10. Own(s)
  BY ONLY <1>1, <1>7, <1>8 DEF Own
<1>11. SetupRight(s)'
  BY ONLY <1>1, <1>2, <1>3, <1>7, <1>8 DEF SetupRight, Kept
<1>12. Kept(config)' /\ config'.gateway # None
  BY ONLY <1>1, <1>3 DEF Kept
<1>13. Sound'
  BY ONLY Sound, <1>1, <1>2, <1>5, <1>7, <1>10, <1>11, <1>12, OneMoves, s \in Setups,
          InvocationsAre
<1> QED
  BY <1>9, <1>13

LEMMA WriteConfigFailsKeeps ==
  ASSUME GatewayTypeOK, Sound, NEW s \in Setups, WriteConfigFails(s)
  PROVE  GatewayTypeOK' /\ Sound'
<1>1. /\ doing[s] \in {"fill", "install"} /\ staging' = [staging EXCEPT ![s] = None]
      /\ Moves(s, "failed") /\ UNCHANGED <<config, given, read, plan, wire, written>>
  BY DEF WriteConfigFails, QuietlyMoves, StagingOf
<1>2. s \in Invocations /\ SetupRight(s)
  BY SetupOf
<1>3. /\ doing' \in [Invocations -> Phases] /\ doing'[s] = "failed"
      /\ \A o \in Invocations \ {s} : doing'[o] = doing[o]
  BY <1>1, <1>2, MovesTo DEF Phases
<1>4. /\ staging' \in [Setups -> Configs \union {None}] /\ staging'[s] = None
      /\ \A o \in Setups \ {s} : staging'[o] = staging[o]
  BY <1>1, Edited DEF GatewayTypeOK
<1>5. GatewayTypeOK'
  BY ONLY GatewayTypeOK, <1>1, <1>3, <1>4 DEF GatewayTypeOK
<1>6. Own(s)
  BY ONLY <1>1, <1>3, <1>4 DEF Own
<1>7. SetupRight(s)'
  BY ONLY <1>1, <1>2, <1>3, <1>4 DEF SetupRight, Kept
<1>8. Sound'
  BY ONLY Sound, <1>1, <1>2, <1>3, <1>6, <1>7, OneMoves, s \in Setups, SetupOf, GatewayTypeOK,
          InvocationsAre
     DEF Saved, Kept
<1> QED
  BY <1>5, <1>8

LEMMA SetupDiesKeeps ==
  ASSUME GatewayTypeOK, Sound, NEW s \in Setups, SetupDies(s)
  PROVE  GatewayTypeOK' /\ Sound'
<1>1. /\ doing[s] \in {"stage", "fill", "install", "probe"} /\ Moves(s, "dead")
      /\ UNCHANGED <<config, staging, given, read, plan, wire, written>>
  BY DEF SetupDies, QuietlyMoves, FileAlone
<1>2. s \in Invocations /\ SetupRight(s)
  BY SetupOf
<1>3. /\ doing' \in [Invocations -> Phases] /\ doing'[s] = "dead"
      /\ \A o \in Invocations \ {s} : doing'[o] = doing[o]
  BY <1>1, <1>2, MovesTo DEF Phases
<1>4. GatewayTypeOK'
  BY ONLY GatewayTypeOK, <1>1, <1>3 DEF GatewayTypeOK
<1>5. Own(s)
  BY ONLY <1>1, <1>3 DEF Own
<1>6. SetupRight(s)'
  BY ONLY <1>1, <1>2, <1>3 DEF SetupRight, Kept
<1>7. Sound'
  BY ONLY Sound, <1>1, <1>2, <1>3, <1>5, <1>6, OneMoves, s \in Setups, SetupOf, GatewayTypeOK,
          InvocationsAre
     DEF Saved, Kept
<1> QED
  BY <1>4, <1>7

LEMMA ProbeModelsKeeps ==
  ASSUME GatewayTypeOK, Sound, NEW s \in Setups, ProbeModels(s)
  PROVE  GatewayTypeOK' /\ Sound'
<1> DEFINE gateway == read[s].gateway
           u == gateway.url
           key == KeyOf(gateway, given[s].exported)
<1>1. PICK answer \in {"ok", "error", "redirect"} :
        LET chooses == Answered(u, answer) /\ given[s].models IN
        /\ Leaves(Request(s, None, u, key, answer))
        /\ Says(IF Answered(u, answer) THEN {} ELSE {Recordable(u)})
        /\ read' = IF chooses THEN [read EXCEPT ![s].models = s] ELSE read
        /\ Moves(s, IF chooses THEN "stage" ELSE "done")
  BY DEF ProbeModels
<1> DEFINE chooses == Answered(u, answer) /\ given[s].models
           to == IF chooses THEN "stage" ELSE "done"
           requests == Request(s, None, u, key, answer)
<1>2. /\ wire' = wire \union requests /\ written' \subseteq written \union {Recordable(u)}
      /\ Moves(s, to)
      /\ doing[s] = "probe" /\ UNCHANGED <<config, staging, given, plan>>
  BY <1>1 DEF ProbeModels, Leaves, Says, FileAlone
<1>3. /\ s \in Invocations /\ SetupRight(s) /\ read[s] \in Configs
  BY SetupOf
<1>4. /\ given[s] \in Asked /\ gateway # None /\ Kept(read[s])
  BY <1>2, <1>3 DEF SetupRight
<1>5. /\ gateway \in GatewayConfigs /\ u \in Urls /\ ~ Unusable(u)
      /\ gateway.key # None => gateway.key.home = OriginOf(u)
  BY <1>3, <1>4, OfAConfig, OfAGateway DEF Kept, AsSetupLeaves
<1>6. given[s].exported \in BOOLEAN
  BY <1>4, GatewayAssumption
<1>7. key # None => key.home = OriginOf(u)
  BY <1>5, <1>6, OfAGateway
<1>8. to \in Phases
  BY DEF Phases
<1>9. /\ doing' \in [Invocations -> Phases] /\ doing'[s] = to
      /\ \A o \in Invocations \ {s} : doing'[o] = doing[o]
  BY <1>2, <1>3, <1>8, MovesTo
<1>10. /\ read' \in [Setups \union Lives -> Configs]
       /\ read'[s].gateway = read[s].gateway
       /\ \A o \in (Setups \union Lives) \ {s} : read'[o] = read[o]
  <2> DEFINE c == [read[s] EXCEPT !.models = s]
  <2>1. c \in Configs /\ c.gateway = read[s].gateway
    BY <1>3 DEF Configs
  <2>2. read \in [Setups \union Lives -> Configs]
    BY DEF GatewayTypeOK
  <2>3. read' = [read EXCEPT ![s] = c] \/ read' = read
    BY <1>1, <2>2
  <2> HIDE DEF c
  <2> QED
    BY ONLY <2>1, <2>2, <2>3, s \in Setups
<1>11. Recordable(u) \in Urls /\ Recordable(u).form = "plain" /\ u.host \in Hosts
  BY <1>5, RecordableIsPlain, UrlsHave
<1>12. \A q \in requests : /\ q.by = s /\ q.to \in Hosts
                           /\ q.key # None => q.to = q.key.home
  <2> TAKE q \in requests
  <2>1. q.by = s /\ q.to = u.host /\ q.key = key
    BY RequestsOf
  <2> QED
    BY ONLY <2>1, <1>5, <1>7, <1>11, UrlsHave
<1> HIDE DEF requests
<1>13. GatewayTypeOK'
  BY ONLY GatewayTypeOK, <1>2, <1>3, <1>9, <1>10, <1>11, <1>12 DEF GatewayTypeOK
<1>14. Own(s)
  BY ONLY <1>2, <1>9, <1>10 DEF Own
<1>15. SetupRight(s)'
  BY ONLY <1>2, <1>3, <1>4, <1>9, <1>10 DEF SetupRight, Kept
<1>16. \A q \in wire' : q \in wire \/ WentRight(q)'
  BY ONLY <1>2, <1>12, s \in Setups, InvocationsAre DEF WentRight
<1>17. Sound'
  BY ONLY Sound, <1>2, <1>3, <1>9, <1>11, <1>14, <1>15, <1>16, OneMoves, s \in Setups, SetupOf,
          GatewayTypeOK, InvocationsAre
     DEF Saved, Kept
<1> QED
  BY <1>13, <1>17

-----------------------------------------------------------------------------
(* The upstream plan of a live command, and where its calls go.              *)

LEMMA OfALive ==
  ASSUME NEW g \in Told
  PROVE  /\ g.anthropic \in Typed /\ g.openai \in Typed /\ g.exported \in BOOLEAN
         /\ g.model \in {"claude", "gpt", None}
BY GatewayAssumption

LEMMA OfAnUpstream ==
  ASSUME NEW g \in Told, NEW x \in Urls \union {None}
  PROVE  LET up == Resolved(g, x) IN
         /\ up \in [Dialects -> Urls \union {None}]
         /\ up["openai-responses"] = up["openai"]
         /\ IsGiven(g.anthropic) => up["anthropic"] = g.anthropic
         /\ IsGiven(g.openai) => up["openai"] = g.openai
<1> DEFINE a == LET u == Else(g.anthropic, x) IN IF IsGiven(u) THEN u ELSE None
           o == LET u == Else(g.openai, x) IN IF IsGiven(u) THEN u ELSE None
           up == Resolved(g, x)
<1>1. a \in Urls \union {None} /\ o \in Urls \union {None}
  BY OfALive DEF Else, IsGiven, Typed
<1>2. /\ IsGiven(g.anthropic) => a = g.anthropic
      /\ IsGiven(g.openai) => o = g.openai
  BY DEF Else, IsGiven
<1>3. ~ IsGiven(None)
  BY DEF IsGiven
<1>4. up = [d \in Dialects |-> IF d = "anthropic" THEN a ELSE IF d = "codex" THEN None ELSE o]
  <2>1. \A d \in Dialects :
          (LET u == CASE d = "anthropic" -> Else(g.anthropic, x)
                      [] d = "codex" -> None
                      [] OTHER -> Else(g.openai, x)
           IN IF IsGiven(u) THEN u ELSE None)
          = (IF d = "anthropic" THEN a ELSE IF d = "codex" THEN None ELSE o)
    BY <1>3 DEF Dialects
  <2> HIDE DEF a, o
  <2> QED
    BY <2>1 DEF Resolved, Upstream
<1> HIDE DEF a, o, up
<1>5. /\ up \in [Dialects -> Urls \union {None}]
      /\ up["anthropic"] = a /\ up["openai"] = o /\ up["openai-responses"] = o
  BY ONLY <1>1, <1>4 DEF Dialects
<1> QED
  BY <1>2, <1>5 DEF up

LEMMA LiveOf ==
  ASSUME GatewayTypeOK, Sound, NEW r \in Lives
  PROVE  /\ r \in Invocations /\ LiveRight(r) /\ Kept(config)
         /\ config \in Configs /\ read[r] \in Configs
BY DEF GatewayTypeOK, Sound, Invocations

LEMMA LiveReadsKeeps ==
  ASSUME GatewayTypeOK, Sound, NEW r \in Lives, LiveReads(r)
  PROVE  GatewayTypeOK' /\ Sound'
<1>1. PICK g \in Told : given' = [given EXCEPT ![r] = g]
  BY DEF LiveReads
<1>2. /\ doing[r] = "start" /\ read' = [read EXCEPT ![r] = config] /\ Moves(r, "plan")
      /\ UNCHANGED <<config, staging, plan, wire, written>>
  BY DEF LiveReads, QuietlyMoves, FileAlone
<1>3. r \in Invocations /\ LiveRight(r) /\ config \in Configs /\ Kept(config)
  BY LiveOf
<1>4. /\ doing' \in [Invocations -> Phases] /\ doing'[r] = "plan"
      /\ \A o \in Invocations \ {r} : doing'[o] = doing[o]
  BY <1>2, <1>3, MovesTo DEF Phases
<1>5. /\ given' \in [Invocations -> Asked \union Told \union Pointed \union {None}]
      /\ given'[r] = g
      /\ \A o \in Invocations \ {r} : given'[o] = given[o]
  BY <1>1, <1>3, Edited DEF GatewayTypeOK
<1>6. /\ read' \in [Setups \union Lives -> Configs] /\ read'[r] = config
      /\ \A o \in (Setups \union Lives) \ {r} : read'[o] = read[o]
  BY <1>2, <1>3, Edited DEF GatewayTypeOK
<1>7. GatewayTypeOK'
  BY ONLY GatewayTypeOK, <1>2, <1>4, <1>5, <1>6 DEF GatewayTypeOK
<1>8. Own(r)
  BY ONLY <1>2, <1>4, <1>5, <1>6 DEF Own
<1>9. LiveRight(r)'
  BY ONLY <1>3, <1>4, <1>5, <1>6 DEF LiveRight, Kept
<1>10. Sound'
  BY ONLY Sound, <1>2, <1>3, <1>4, <1>8, <1>9, OneMoves, r \in Lives, InvocationsAre DEF Kept
<1> QED
  BY <1>7, <1>10

LEMMA UpstreamPlanKeeps ==
  ASSUME GatewayTypeOK, Sound, NEW r \in Lives, UpstreamPlan(r)
  PROVE  GatewayTypeOK' /\ Sound'
<1> DEFINE gateway == read[r].gateway
           x == IF config.gateway = None THEN None ELSE config.gateway.url
           up == Resolved(given[r], x)
           there == GoesToGateway(up, gateway)
           key == IF there THEN KeyOf(gateway, given[r].exported) ELSE None
           home == IF there THEN gateway.url ELSE None
           settled == [upstream |-> up, key |-> key, home |-> home]
           to == IF \E u \in Origins(up) : Unusable(u) THEN "refused" ELSE "live"
<1>1. /\ doing[r] = "plan" /\ plan' = [plan EXCEPT ![r] = settled] /\ Moves(r, to)
      /\ UNCHANGED <<config, staging, given, read, wire, written>>
  BY DEF UpstreamPlan, QuietlyMoves, FileAlone
<1>2. r \in Invocations /\ LiveRight(r) /\ config \in Configs /\ read[r] \in Configs
  BY LiveOf
<1>3. given[r] \in Told /\ Kept(read[r])
  BY <1>1, <1>2 DEF LiveRight
<1>4. x \in Urls \union {None}
  BY <1>2, OfAConfig, OfAGateway
<1>5. /\ up \in [Dialects -> Urls \union {None}]
      /\ up["openai-responses"] = up["openai"]
      /\ IsGiven(given[r].anthropic) => up["anthropic"] = given[r].anthropic
      /\ IsGiven(given[r].openai) => up["openai"] = given[r].openai
  BY <1>3, <1>4, OfAnUpstream
<1>6. there => gateway \in GatewayConfigs /\ AsSetupLeaves(gateway)
  BY <1>2, <1>3, OfAConfig DEF GoesToGateway, Kept
<1>7. /\ key = None \/ key \in Keys
      /\ home \in Urls \union {None}
      /\ home # None /\ key # None => key.home = OriginOf(home)
  <2>1. CASE there
    <3>1. /\ gateway \in GatewayConfigs /\ AsSetupLeaves(gateway)
          /\ home = gateway.url /\ (key = None \/ key = gateway.key)
      BY <2>1, <1>3, <1>6, OfAGateway, OfALive
    <3> QED
      BY ONLY <3>1, OfAGateway DEF AsSetupLeaves
  <2>2. CASE ~ there
    BY <2>2
  <2> QED
    BY <2>1, <2>2
<1>8. to \in Phases
  BY DEF Phases
<1>9. to = "live" => \A u \in Origins(up) : ~ Unusable(u)
  OBVIOUS
<1> HIDE DEF up, key, home, to
<1>10. settled \in LivePlans
  BY ONLY <1>5, <1>7 DEF LivePlans
<1>11. settled.upstream = up /\ settled.key = key /\ settled.home = home
  OBVIOUS
<1> HIDE DEF settled
<1>12. /\ doing' \in [Invocations -> Phases] /\ doing'[r] = to
       /\ \A o \in Invocations \ {r} : doing'[o] = doing[o]
  BY <1>1, <1>2, <1>8, MovesTo
<1>13. /\ plan' \in [Lives \union Syncs -> LivePlans \union SyncPlans \union {None}]
       /\ plan'[r] = settled
       /\ \A o \in (Lives \union Syncs) \ {r} : plan'[o] = plan[o]
  BY <1>1, <1>10, Edited DEF GatewayTypeOK
<1>14. GatewayTypeOK'
  BY ONLY GatewayTypeOK, <1>1, <1>12, <1>13 DEF GatewayTypeOK
<1>15. Own(r)
  BY ONLY <1>1, <1>12, <1>13 DEF Own
<1>16. to = "live" => PlanRight(r)'
  BY ONLY <1>1, <1>5, <1>7, <1>9, <1>10, <1>11, <1>13 DEF PlanRight, Origins
<1>17. LiveRight(r)'
  BY ONLY <1>1, <1>2, <1>3, <1>12, <1>16 DEF LiveRight, Kept
<1>18. Sound'
  BY ONLY Sound, GatewayTypeOK, <1>1, <1>2, <1>12, <1>15, <1>17, OneMoves, r \in Lives, LiveOf,
          InvocationsAre
     DEF Kept
<1> QED
  BY <1>14, <1>18

\* Every origin of a call is a usable URL: one the plan names, one the client
\* announced, or a vendor.
LEMMA OriginsOf ==
  ASSUME NEW up \in [Dialects -> Urls \union {None}]
  PROVE  /\ \A u \in Origins(up) : u \in Urls
         /\ \A d \in Dialects : up[d] # None => up[d] \in Origins(up)
BY DEF Origins

LEMMA OfACall ==
  ASSUME NEW c \in Calls
  PROVE  /\ c.client \in Dialects /\ c.kind \in {"model", "retrieval", "opaque"}
         /\ c.announced \in Urls \union {None}
         /\ Forwarded(c) # None => /\ c.announced # None /\ c.announced.form = "plain"
                                   /\ Forwarded(c) = c.announced
         /\ c.announced # None /\ c.announced.form = "plain" => Forwarded(c) # None
         /\ c.announced = None => KindOf(c) = c.kind
         /\ KindOf(c) \in {c.kind, "opaque"}
BY GatewayAssumption DEF Forwarded, KindOf

LEMMA TargetIsADialect ==
  ASSUME NEW d \in Dialects, NEW model \in {"claude", "gpt", None}
  PROVE  /\ TargetOf(d, model) \in {d, "anthropic", "openai"}
         /\ model = None => TargetOf(d, model) = d
BY DEF TargetOf

\* Where a call goes, and what follows of it from the plan.
LEMMA WhereCallsGo ==
  ASSUME NEW r \in Lives, PlanRight(r), given[r] \in Told, NEW c \in Calls
  PROVE  LET u == CallOrigin(r, c)
             up == plan[r].upstream
             vendors == {Url(Vendor[d], "plain") : d \in Dialects} IN
         /\ u \in Urls /\ ~ Unusable(u)
         /\ given[r].model = None \/ KindOf(c) = "retrieval" =>
              \/ c.announced # None /\ c.announced.form = "plain" /\ u = c.announced
              \/ /\ c.announced = None \/ c.announced.form # "plain"
                 /\ u \in Origins(up) \union {Url(Vendor[c.client], "plain"),
                                              Url(Vendor["openai"], "plain")}
                 /\ c.kind = "model" /\ c.announced = None /\ c.client # "codex" =>
                      (up[c.client] # None => u = up[c.client])
         /\ ~ (given[r].model = None \/ KindOf(c) = "retrieval") =>
              \/ u \in Origins(up)
              \/ /\ u \in vendors
                 /\ c.client # "codex" => \E d \in {"anthropic", "openai"} : up[d] = None
<1> DEFINE up == plan[r].upstream
           u == CallOrigin(r, c)
           free == given[r].model = None \/ KindOf(c) = "retrieval"
<1>1. /\ up \in [Dialects -> Urls \union {None}]
      /\ \A v \in Origins(up) : ~ Unusable(v)
      /\ up["openai-responses"] = up["openai"]
  BY DEF PlanRight, LivePlans
<1>2. given[r].model \in {"claude", "gpt", None}
  BY OfALive
<1>3. \A d \in Dialects : /\ Url(Vendor[d], "plain") \in Urls
                          /\ ~ Unusable(Url(Vendor[d], "plain"))
                          /\ Url(Vendor[d], "plain") # None
  BY Given, PlainUrl, UrlsHave DEF Unusable
<1>4. \A v \in Origins(up) : v \in Urls /\ ~ Unusable(v)
  BY <1>1, OriginsOf
<1>5. \A d \in Dialects : up[d] # None => up[d] \in Origins(up)
  BY <1>1, OriginsOf
<1> HIDE DEF up
<1>6. CASE Forwarded(c) # None /\ free
  <2>1. u = Forwarded(c)
    BY <1>6, OfACall DEF CallOrigin, ModelOrigin, PassthroughOrigin, KindOf
  <2>2. c.announced # None /\ c.announced \in Urls /\ c.announced.form = "plain"
        /\ u = c.announced
    BY <2>1, <1>6, OfACall
  <2>3. u \in Urls /\ ~ Unusable(u)
    BY ONLY <2>2 DEF Unusable
  <2> HIDE DEF u
  <2> QED
    BY <2>2, <2>3, <1>6 DEF u
<1>7. CASE KindOf(c) = "model" /\ ~ (Forwarded(c) # None /\ free)
  <2> DEFINE target == TargetOf(c.client, given[r].model)
  <2>1. u = Else(up[target], Else(up[c.client], Url(Vendor[target], "plain")))
    BY <1>7 DEF CallOrigin, ModelOrigin, up
  <2>2. target \in {c.client, "anthropic", "openai"} /\ c.client \in Dialects
        /\ (given[r].model = None => target = c.client)
    BY <1>2, OfACall, TargetIsADialect
  <2>3. target \in Dialects
    BY <2>2 DEF Dialects
  <2> HIDE DEF target, u
  <2>4. \/ u \in Origins(up) /\ (u = up[target] \/ (up[target] = None /\ u = up[c.client]))
        \/ up[target] = None /\ up[c.client] = None /\ u = Url(Vendor[target], "plain")
    BY ONLY <2>1, <2>2, <2>3, <1>5 DEF Else
  <2>5. u \in Urls /\ ~ Unusable(u)
    BY ONLY <2>3, <2>4, <1>3, <1>4
  <2>6. CASE free
    <3>1. given[r].model = None /\ target = c.client
      BY <1>7, <2>2, <2>6
    <3>2. c.announced = None \/ c.announced.form # "plain"
      BY <1>7, <2>6, OfACall
    <3>3. u \in Origins(up) \union {Url(Vendor[c.client], "plain")}
          /\ (up[c.client] # None => u = up[c.client])
      BY ONLY <2>4, <3>1
    <3> QED
      BY <2>5, <2>6, <3>2, <3>3 DEF up, u
  <2>7. CASE ~ free
    <3>1. u \notin Origins(up) /\ c.client # "codex" =>
            \E d \in {"anthropic", "openai"} : up[d] = None
      <4>1. u \notin Origins(up) => up[c.client] = None
        BY ONLY <2>4
      <4>2. c.client \in {"anthropic", "openai", "openai-responses", "codex"}
        BY <2>2 DEF Dialects
      <4> QED
        BY ONLY <4>1, <4>2, <1>1 DEF up
    <3>2. u \in Origins(up) \/ u \in {Url(Vendor[d], "plain") : d \in Dialects}
      BY ONLY <2>3, <2>4
    <3> QED
      BY <2>5, <2>7, <3>1, <3>2 DEF up, u
  <2> QED
    BY <2>6, <2>7
<1>8. CASE KindOf(c) # "model" /\ ~ (Forwarded(c) # None /\ free)
  <2> DEFINE family == IF c.client = "anthropic" THEN "anthropic" ELSE "openai"
  <2>1. u = IF Cardinality(Origins(up)) = 1 THEN CHOOSE v \in Origins(up) : TRUE
            ELSE Else(up[family], Url(Vendor[family], "plain"))
    <3>1. ~ (Forwarded(c) # None /\ (KindOf(c) = "retrieval" \/ given[r].model = None))
      BY <1>8
    <3> QED
      BY <1>8, <3>1 DEF CallOrigin, PassthroughOrigin, up
  <2>2. family \in Dialects /\ family \in {"anthropic", "openai"}
        /\ family \in {c.client, "openai"}
    BY DEF Dialects
  <2> HIDE DEF family, u
  <2>3. Cardinality(Origins(up)) = 1 => Origins(up) # {}
    BY FS_EmptySet
  <2>4. \/ u \in Origins(up)
        \/ up[family] = None /\ u = Url(Vendor[family], "plain")
    BY ONLY <2>1, <2>2, <2>3, <1>5 DEF Else
  <2>5. u \in Urls /\ ~ Unusable(u)
    BY ONLY <2>2, <2>4, <1>3, <1>4
  <2>6. CASE free
    <3>1. c.announced = None \/ c.announced.form # "plain"
      BY <1>8, <2>6, OfACall
    <3>2. ~ (c.kind = "model" /\ c.announced = None)
      BY <1>8, OfACall
    <3> QED
      BY <2>2, <2>4, <2>5, <2>6, <3>1, <3>2 DEF up, u
  <2>7. CASE ~ free
    BY <2>2, <2>4, <2>5, <2>7 DEF up, u
  <2> QED
    BY <2>6, <2>7
<1> QED
  BY <1>6, <1>7, <1>8

LEMMA CallGoesLiveKeeps ==
  ASSUME GatewayTypeOK, Sound, NEW r \in Lives, CallGoesLive(r)
  PROVE  GatewayTypeOK' /\ Sound'
<1>1. PICK c \in Calls, answer \in {"ok", "error", "redirect"} :
        LET u == CallOrigin(r, c) IN
        /\ Leaves(Request(r, c, u, HeadersForOrigin(r, u), answer))
        /\ Says(Traces(u) \union IF Reachable(u) /\ answer # "redirect" THEN {} ELSE Reasons(u))
  BY DEF CallGoesLive
<1> DEFINE u == CallOrigin(r, c)
           up == plan[r].upstream
           key == HeadersForOrigin(r, u)
           requests == Request(r, c, u, key, answer)
<1>2. /\ wire' = wire \union requests
      /\ written' \subseteq written \union {Recordable(u), ScrubbedOrigin(u)}
      /\ Moves(r, "done") /\ doing[r] = "live"
      /\ UNCHANGED <<config, staging, given, read, plan>>
  BY <1>1 DEF CallGoesLive, Leaves, Says, Traces, Reasons, FileAlone
<1>3. r \in Invocations /\ LiveRight(r)
  BY LiveOf
<1>4. given[r] \in Told /\ PlanRight(r)
  BY <1>2, <1>3 DEF LiveRight
<1>5. u \in Urls /\ ~ Unusable(u)
  BY <1>4, WhereCallsGo
<1>6. /\ Recordable(u) \in Urls /\ Recordable(u).form = "plain"
      /\ ScrubbedOrigin(u) \in Urls /\ ScrubbedOrigin(u).form = "plain"
      /\ u.host \in Hosts /\ OriginOf(u) = u.host
  BY <1>5, RecordableIsPlain, UrlsHave
<1>7. key # None => key.home = u.host
  <2>1. key # None => /\ plan[r].home # None /\ OriginOf(u) = OriginOf(plan[r].home)
                      /\ key = plan[r].key
    BY DEF HeadersForOrigin, SameOrigin
  <2> QED
    BY <2>1, <1>4, <1>6 DEF PlanRight
<1>8. /\ doing' \in [Invocations -> Phases] /\ doing'[r] = "done"
      /\ \A o \in Invocations \ {r} : doing'[o] = doing[o]
  BY <1>2, <1>3, MovesTo DEF Phases
<1>9. \A q \in requests : q.by = r /\ q.call = c /\ q.to = u.host /\ q.key = key
  BY RequestsOf
<1>10. \A q \in requests : CallGoesRight(q)
  <2> TAKE q \in requests
  <2> DEFINE free == given[r].model = None \/ KindOf(c) = "retrieval"
             told == IF c.client = "anthropic" THEN given[r].anthropic ELSE given[r].openai
  <2>1. q.by = r /\ q.call = c /\ q.to = u.host
    BY <1>9
  <2>2. \A d \in Dialects : Url(Vendor[d], "plain").host = Vendor[d]
    BY DEF Url
  <2>3. c.client \in Dialects /\ "openai" \in Dialects
    BY OfACall DEF Dialects
  <2>4. CASE free
    <3>1. \/ c.announced # None /\ c.announced.form = "plain" /\ u = c.announced
          \/ /\ c.announced = None \/ c.announced.form # "plain"
             /\ u \in Origins(up) \union {Url(Vendor[c.client], "plain"),
                                          Url(Vendor["openai"], "plain")}
             /\ c.kind = "model" /\ c.announced = None /\ c.client # "codex" =>
                  (up[c.client] # None => u = up[c.client])
      BY <2>4, <1>4, WhereCallsGo
    <3>2. c.client # "codex" /\ IsGiven(told) => up[c.client] = told /\ told # None
      BY <1>4, <2>3 DEF PlanRight, Dialects, IsGiven
    <3> HIDE DEF u, up, told
    <3>3. Meant(r, c) = IF c.announced # None /\ c.announced.form = "plain"
                          THEN {c.announced.host}
                        ELSE IF c.kind = "model" /\ c.client # "codex" /\ c.announced = None
                                  /\ IsGiven(told)
                          THEN {told.host}
                        ELSE {v.host : v \in Origins(up)}
                               \union {Vendor[c.client], Vendor["openai"]}
      BY DEF Meant, told, up
    <3>4. u.host \in Meant(r, c)
      BY ONLY <3>1, <3>2, <3>3, <2>2, <2>3
    <3> QED
      BY <2>1, <2>4, <3>4 DEF CallGoesRight
  <2>5. CASE ~ free
    <3>1. \/ u \in Origins(up)
          \/ /\ u \in {Url(Vendor[d], "plain") : d \in Dialects}
             /\ c.client # "codex" => \E d \in {"anthropic", "openai"} : up[d] = None
      BY <2>5, <1>4, WhereCallsGo
    <3> HIDE DEF u
    <3>2. \/ u.host \in {v.host : v \in Origins(up)}
          \/ /\ u.host \in {Vendor[d] : d \in Dialects}
             /\ c.client # "codex" => \E d \in {"anthropic", "openai"} : up[d] = None
      BY ONLY <3>1, <2>2
    <3> QED
      BY ONLY <2>1, <2>5, <3>2 DEF CallGoesRight
  <2> QED
    BY <2>4, <2>5
<1> HIDE DEF requests, key, u, up
<1>11. \A q \in requests : WentRight(q)'
  <2> TAKE q \in requests
  <2>1. CallGoesRight(q)'
    BY ONLY <1>2, <1>10, q \in requests DEF CallGoesRight, Meant, Origins
  <2> QED
    BY ONLY <1>7, <1>8, <1>9, <2>1, r \in Lives, InvocationsAre, q \in requests DEF WentRight
<1>12. GatewayTypeOK'
  BY ONLY GatewayTypeOK, <1>2, <1>3, <1>6, <1>8, <1>9 DEF GatewayTypeOK
<1>13. Own(r)
  BY ONLY <1>2, <1>8 DEF Own
<1>14. LiveRight(r)'
  BY ONLY <1>2, <1>3, <1>8 DEF LiveRight, Kept
<1>15. Sound'
  BY ONLY Sound, GatewayTypeOK, <1>2, <1>3, <1>6, <1>11, <1>13, <1>14, OneMoves, r \in Lives,
          LiveOf, InvocationsAre
     DEF Kept
<1> QED
  BY <1>12, <1>15

-----------------------------------------------------------------------------
(* push, pull, list and models.                                              *)

LEMMA OfASync ==
  ASSUME NEW g \in Pointed
  PROVE  /\ g.flag \in Typed /\ g.env \in Typed /\ g.key \in BOOLEAN /\ g.exported \in BOOLEAN
BY GatewayAssumption

\* What a sync command settles on, if it goes on at all.
LEMMA OfASyncPlan ==
  ASSUME NEW g \in Pointed, NEW gateway \in GatewayConfigs \union {None},
         gateway # None => AsSetupLeaves(gateway)
  PROVE  LET u == Else(g.flag, Else(g.env, NamedPushDestination(gateway)))
             key == IF IsGiven(u) THEN SyncKey(g, gateway, u) ELSE None
             typed == IsGiven(g.flag) \/ IsGiven(g.env) \/ (gateway # None /\ gateway.typed)
         IN /\ u \in Typed /\ typed \in BOOLEAN
            /\ key = None \/ key \in [kind : {"stored", "var", "exported"},
                                      home : Hosts \union {"null", "unknown"}]
            /\ key # None => u \in Urls /\ typed /\ key.home = OriginOf(u)
<1> DEFINE n == NamedPushDestination(gateway)
           u == Else(g.flag, Else(g.env, n))
           key == IF IsGiven(u) THEN SyncKey(g, gateway, u) ELSE None
           typed == IsGiven(g.flag) \/ IsGiven(g.env) \/ (gateway # None /\ gateway.typed)
<1>1. g.flag \in Typed /\ g.env \in Typed /\ g.exported \in BOOLEAN
  BY OfASync
<1>2. gateway # None => /\ gateway.url \in Urls /\ gateway.typed \in BOOLEAN
                        /\ gateway.key # None => gateway.key \in Keys
                        /\ KeyOf(gateway, g.exported) \in {None, gateway.key}
                        /\ AsSetupLeaves(gateway)
  BY <1>1, OfAGateway
<1>3. n # None => gateway # None /\ n = gateway.url /\ gateway.typed
  BY <1>2 DEF NamedPushDestination, AsSetupLeaves
<1> HIDE DEF n
<1>4. u \in Typed /\ typed \in BOOLEAN
  BY <1>1, <1>2, <1>3 DEF Typed, Else, IsGiven
<1>5. IsGiven(u) => typed /\ u \in Urls
  BY <1>1, <1>3, <1>4 DEF Typed, Else, IsGiven
<1>6. key # None => IsGiven(u) /\ key = SyncKey(g, gateway, u)
  OBVIOUS
<1>7. CASE key # None /\ EnvKeyApplies(g, u)
  <2>1. key = EnvKey(g) /\ u \in Urls /\ IsGiven(u) /\ typed
    BY <1>5, <1>6, <1>7 DEF SyncKey
  <2>2. EnvKey(g).home = OriginOf(u)
    <3>1. CASE IsGiven(g.env)
      BY <1>7, <3>1 DEF EnvKeyApplies, EnvKey, SameOrigin
    <3>2. CASE ~ IsGiven(g.env)
      <4>1. g.flag # None /\ u = g.flag
        BY <1>7, <3>2 DEF EnvKeyApplies, Else
      <4> QED
        BY <3>2, <4>1 DEF EnvKey
    <3> QED
      BY <3>1, <3>2
  <2>3. EnvKey(g) = [kind |-> "exported", home |-> OriginOf(u)]
    BY <2>2 DEF EnvKey
  <2>4. OriginOf(u) \in Hosts \union {"null"}
    BY <2>1, UrlsHave
  <2> HIDE DEF u, key, typed
  <2>5. key \in [kind : {"stored", "var", "exported"}, home : Hosts \union {"null", "unknown"}]
    BY ONLY <2>1, <2>3, <2>4
  <2> QED
    BY <2>1, <2>2, <2>5, <1>4 DEF u, key, typed, n
<1>8. CASE key # None /\ ~ EnvKeyApplies(g, u)
  <2>1. /\ gateway # None /\ SameOrigin(u, gateway.url) /\ key = KeyOf(gateway, g.exported)
        /\ u \in Urls /\ typed
    BY <1>5, <1>6, <1>8 DEF SyncKey
  <2>2. key = gateway.key /\ key \in Keys /\ key.home = OriginOf(u)
    BY <2>1, <1>2, <1>8 DEF AsSetupLeaves, SameOrigin
  <2> HIDE DEF u, key, typed
  <2>3. key \in [kind : {"stored", "var", "exported"}, home : Hosts \union {"null", "unknown"}]
    BY ONLY <2>2 DEF Keys
  <2> QED
    BY <2>1, <2>2, <2>3, <1>4 DEF u, key, typed, n
<1>9. CASE key = None
  BY <1>4, <1>9 DEF n
<1> QED
  BY <1>7, <1>8, <1>9

LEMMA SyncOf ==
  ASSUME GatewayTypeOK, Sound, NEW p \in Syncs
  PROVE  /\ p \in Invocations /\ SyncRight(p) /\ Kept(config)
         /\ config \in Configs /\ config.gateway \in GatewayConfigs \union {None}
BY OfAConfig DEF GatewayTypeOK, Sound, Invocations

LEMMA ResolveGatewayKeeps ==
  ASSUME GatewayTypeOK, Sound, NEW p \in Syncs, ResolveGateway(p)
  PROVE  GatewayTypeOK' /\ Sound'
<1> DEFINE gateway == config.gateway
           At(g) == Else(g.flag, Else(g.env, NamedPushDestination(gateway)))
           KeyFor(g) == IF IsGiven(At(g)) THEN SyncKey(g, gateway, At(g)) ELSE None
           Said(g) == IsGiven(g.flag) \/ IsGiven(g.env) \/ (gateway # None /\ gateway.typed)
<1>1. PICK g \in Pointed :
        /\ given' = [given EXCEPT ![p] = g]
        /\ plan' = [plan EXCEPT ![p] = [url |-> At(g), key |-> KeyFor(g), typed |-> Said(g)]]
        /\ Moves(p, IF KeyFor(g) = None THEN "refused" ELSE "send")
        /\ Says(IF ~ IsGiven(At(g)) /\ gateway # None THEN {Recordable(gateway.url)} ELSE {})
  BY DEF ResolveGateway
<1> DEFINE u == At(g)
           key == KeyFor(g)
           typed == Said(g)
           settled == [url |-> u, key |-> key, typed |-> typed]
           to == IF key = None THEN "refused" ELSE "send"
<1>2. /\ doing[p] = "start" /\ plan' = [plan EXCEPT ![p] = settled] /\ Moves(p, to)
      /\ UNCHANGED <<config, staging, read, wire>>
      /\ \/ written' = written
         \/ gateway # None /\ written' = written \union {Recordable(gateway.url)}
  BY <1>1 DEF ResolveGateway, FileAlone, Says
<1>3. /\ p \in Invocations /\ Kept(config) /\ config \in Configs
      /\ gateway \in GatewayConfigs \union {None} /\ SyncRight(p)
  BY SyncOf
<1>4. gateway # None => AsSetupLeaves(gateway)
  BY <1>3 DEF Kept
<1>5. /\ u \in Typed /\ typed \in BOOLEAN
      /\ key = None \/ key \in [kind : {"stored", "var", "exported"},
                                home : Hosts \union {"null", "unknown"}]
      /\ key # None => u \in Urls /\ typed /\ key.home = OriginOf(u)
  BY <1>3, <1>4, OfASyncPlan
<1>6. gateway # None => /\ Recordable(gateway.url) \in Urls
                        /\ Recordable(gateway.url).form = "plain"
  BY <1>3, <1>4, OfAGateway, RecordableIsPlain DEF AsSetupLeaves
<1>7. to \in Phases
  BY DEF Phases
<1>8. given' = [given EXCEPT ![p] = g] /\ g # None
  BY <1>1, Given
<1>19. key # None /\ Unusable(u) => u \in {g.flag, g.env}
  <2>1. CASE g.flag # None \/ g.env # None
    BY <2>1 DEF Else
  <2>2. CASE g.flag = None /\ g.env = None
    <3>1. u = None \/ (gateway # None /\ u = gateway.url)
      BY <2>2 DEF Else, NamedPushDestination
    <3> QED
      BY <3>1, <1>4, <1>5, UrlsHave DEF AsSetupLeaves
  <2> QED
    BY <2>1, <2>2
<1>9. to = "send" => key # None
  OBVIOUS
<1> HIDE DEF u, key, typed, to, gateway
<1>10. settled \in SyncPlans
  BY ONLY <1>5 DEF SyncPlans
<1>11. settled.url = u /\ settled.key = key /\ settled.typed = typed
  OBVIOUS
<1> HIDE DEF settled
<1>12. /\ doing' \in [Invocations -> Phases] /\ doing'[p] = to
       /\ \A o \in Invocations \ {p} : doing'[o] = doing[o]
  BY <1>2, <1>3, <1>7, MovesTo
<1>13. /\ plan' \in [Lives \union Syncs -> LivePlans \union SyncPlans \union {None}]
       /\ plan'[p] = settled
       /\ \A o \in (Lives \union Syncs) \ {p} : plan'[o] = plan[o]
  BY <1>2, <1>10, Edited DEF GatewayTypeOK
<1>14. /\ given' \in [Invocations -> Asked \union Told \union Pointed \union {None}]
       /\ given'[p] = g /\ given[p] = None
       /\ \A o \in Invocations \ {p} : given'[o] = given[o]
  BY <1>2, <1>8, <1>3, Edited DEF GatewayTypeOK, SyncRight
<1>15. GatewayTypeOK'
  BY ONLY GatewayTypeOK, <1>2, <1>6, <1>12, <1>13, <1>14 DEF GatewayTypeOK
<1>16. Own(p)
  BY ONLY <1>2, <1>12, <1>13, <1>14 DEF Own
<1>17. SyncRight(p)'
  <2>1. to # "start"
    BY DEF to
  <2> QED
    BY ONLY <2>1, <1>5, <1>8, <1>9, <1>10, <1>11, <1>12, <1>13, <1>14, <1>19 DEF SyncRight
<1>18. Sound'
  BY ONLY Sound, <1>2, <1>3, <1>6, <1>14, <1>16, <1>17, OneMoves, p \in Syncs, InvocationsAre
     DEF Kept
<1> QED
  BY <1>15, <1>18

LEMMA SyncSendsKeeps ==
  ASSUME GatewayTypeOK, Sound, NEW p \in Syncs, SyncSends(p)
  PROVE  GatewayTypeOK' /\ Sound'
<1> DEFINE u == plan[p].url
           key == plan[p].key
<1>1. PICK answer \in {"ok", "error", "redirect"} :
        /\ Leaves(Request(p, None, u, key, answer))
        /\ Says({Recordable(u)})
  BY DEF SyncSends
<1> DEFINE requests == Request(p, None, u, key, answer)
<1>2. /\ doing[p] = "send" /\ Moves(p, "done")
      /\ wire' = wire \union requests
      /\ written' = written \union {Recordable(u)}
      /\ UNCHANGED <<config, staging, given, read, plan>>
  BY <1>1 DEF SyncSends, Leaves, Says, FileAlone
<1>3. p \in Invocations /\ SyncRight(p)
  BY SyncOf
<1>4. u \in Urls /\ key # None /\ plan[p].typed /\ key.home = OriginOf(u)
  BY <1>2, <1>3 DEF SyncRight
<1>5. /\ Recordable(u) \in Urls
      /\ Recordable(u).form = "plain" \/ TypedToSync(Recordable(u))'
  <2>1. CASE ~ Unusable(u)
    BY <2>1, <1>4, RecordableIsPlain
  <2>2. CASE Unusable(u)
    BY <2>2, <1>2, <1>3, <1>4 DEF SyncRight, Recordable, TypedToSync, Unusable
  <2> QED
    BY <2>1, <2>2
<1>6. /\ doing' \in [Invocations -> Phases] /\ doing'[p] = "done"
      /\ \A o \in Invocations \ {p} : doing'[o] = doing[o]
  BY <1>2, <1>3, MovesTo DEF Phases
<1>7. \A q \in requests : q.by = p /\ q.key = key /\ q.to = key.home /\ q.to \in Hosts
  BY <1>4, RequestsOf, UrlsHave
<1> HIDE DEF requests
<1>8. \A q \in requests : WentRight(q)'
  BY ONLY <1>2, <1>4, <1>6, <1>7, p \in Syncs, InvocationsAre DEF WentRight
<1>9. GatewayTypeOK'
  BY ONLY GatewayTypeOK, <1>2, <1>3, <1>5, <1>6, <1>7 DEF GatewayTypeOK
<1>10. Own(p)
  BY ONLY <1>2, <1>6 DEF Own
<1>11. SyncRight(p)'
  BY ONLY <1>6 DEF SyncRight
<1>12. Sound'
  BY ONLY Sound, GatewayTypeOK, <1>2, <1>3, <1>5, <1>8, <1>10, <1>11, OneMoves, p \in Syncs,
          SyncOf, InvocationsAre
     DEF Kept
<1> QED
  BY <1>9, <1>12

LEMMA ModelsCommandKeeps ==
  ASSUME GatewayTypeOK, Sound, NEW p \in Syncs, ModelsCommand(p)
  PROVE  GatewayTypeOK' /\ Sound'
<1> DEFINE gateway == config.gateway
           u == gateway.url
           key == KeyOf(gateway, TRUE)
<1>1. /\ p \in Invocations /\ SyncRight(p) /\ Kept(config)
      /\ gateway \in GatewayConfigs \union {None}
  BY SyncOf
<1>2. /\ doing[p] = "start" /\ UNCHANGED <<config, staging, given, read, plan>>
  BY DEF ModelsCommand, FileAlone
<1>3. CASE gateway = None \/ Unusable(u)
  <2>1. UNCHANGED <<wire, written>> /\ Moves(p, "refused")
    BY <1>3 DEF ModelsCommand
  <2>2. /\ doing' \in [Invocations -> Phases] /\ doing'[p] = "refused"
        /\ \A o \in Invocations \ {p} : doing'[o] = doing[o]
    BY <2>1, <1>1, MovesTo DEF Phases
  <2>3. GatewayTypeOK'
    BY ONLY GatewayTypeOK, <1>2, <2>1, <2>2 DEF GatewayTypeOK
  <2>4. Own(p) /\ SyncRight(p)'
    BY ONLY <1>2, <2>2 DEF Own, SyncRight
  <2>5. Sound'
    BY ONLY Sound, <1>1, <1>2, <2>1, <2>4, OneMoves, p \in Syncs, InvocationsAre DEF Kept
  <2> QED
    BY <2>3, <2>5
<1>4. CASE gateway # None /\ ~ Unusable(u)
  <2>1. PICK answer \in {"ok", "error", "redirect"} :
          /\ Leaves(Request(p, None, u, key, answer))
          /\ Says(IF Answered(u, answer) THEN {} ELSE {Recordable(u)})
    BY <1>4 DEF ModelsCommand
  <2> DEFINE requests == Request(p, None, u, key, answer)
  <2>2. /\ wire' = wire \union requests /\ written' \subseteq written \union {Recordable(u)}
        /\ Moves(p, "done")
    BY <2>1, <1>4 DEF ModelsCommand, Leaves, Says
  <2>3. /\ u \in Urls /\ (key = None \/ key = gateway.key)
        /\ gateway.key # None => gateway.key.home = OriginOf(u)
    BY <1>1, <1>4, OfAGateway DEF Kept, AsSetupLeaves
  <2>4. Recordable(u) \in Urls /\ Recordable(u).form = "plain"
    BY <2>3, <1>4, RecordableIsPlain
  <2>5. \A q \in requests : /\ q.by = p /\ q.to \in Hosts
                            /\ q.key # None => q.to = q.key.home
    <3>1. u.host \in Hosts /\ OriginOf(u) = u.host
      BY <2>3, <1>4, UrlsHave
    <3> HIDE DEF key, u, gateway
    <3>2. \A q \in requests : q.by = p /\ q.to = u.host /\ q.key = key
      BY ONLY RequestsOf
    <3> HIDE DEF requests
    <3> QED
      BY ONLY <3>1, <3>2, <2>3
  <2> HIDE DEF requests
  <2>6. /\ doing' \in [Invocations -> Phases] /\ doing'[p] = "done"
        /\ \A o \in Invocations \ {p} : doing'[o] = doing[o]
    BY <2>2, <1>1, MovesTo DEF Phases
  <2>7. GatewayTypeOK'
    BY ONLY GatewayTypeOK, <1>1, <1>2, <2>2, <2>4, <2>5, <2>6 DEF GatewayTypeOK
  <2>8. Own(p) /\ SyncRight(p)'
    BY ONLY <1>2, <2>6 DEF Own, SyncRight
  <2>9. \A q \in requests : WentRight(q)'
    <3>1. plan[p] = None
      BY <1>1, <1>2 DEF SyncRight
    <3> QED
      BY ONLY <3>1, <1>2, <2>5, <2>6, p \in Syncs, InvocationsAre DEF WentRight
  <2>10. Sound'
    BY ONLY Sound, <1>1, <1>2, <2>2, <2>4, <2>8, <2>9, OneMoves, p \in Syncs, InvocationsAre
       DEF Kept
  <2> QED
    BY <2>7, <2>10
<1> QED
  BY <1>3, <1>4

-----------------------------------------------------------------------------
LEMMA GatewayStep ==
  ASSUME GatewayTypeOK, Sound, [GatewayNext]_gatewayVars
  PROVE  GatewayTypeOK' /\ Sound'
<1>1. ASSUME NEW s \in Setups, SetupStep(s)
      PROVE  GatewayTypeOK' /\ Sound'
  BY <1>1, SetupBeginsKeeps, SetupReadsKeeps, OpenStagingKeeps, FillStagingKeeps,
     InstallConfigKeeps, WriteConfigFailsKeeps, ProbeModelsKeeps, SetupDiesKeeps
     DEF SetupStep
<1>2. ASSUME NEW r \in Lives, LiveReads(r) \/ UpstreamPlan(r) \/ CallGoesLive(r)
      PROVE  GatewayTypeOK' /\ Sound'
  BY <1>2, LiveReadsKeeps, UpstreamPlanKeeps, CallGoesLiveKeeps
<1>3. ASSUME NEW p \in Syncs, ResolveGateway(p) \/ SyncSends(p) \/ ModelsCommand(p)
      PROVE  GatewayTypeOK' /\ Sound'
  BY <1>3, ResolveGatewayKeeps, SyncSendsKeeps, ModelsCommandKeeps
<1>4. CASE UNCHANGED gatewayVars
  <2>1. GatewayTypeOK'
    BY <1>4 DEF gatewayVars, GatewayTypeOK
  <2>2. UNCHANGED <<config, staging, doing, given, read, plan, wire, written>>
    BY <1>4 DEF gatewayVars
  <2>3. \A s \in Setups : SetupRight(s)' /\ (Saved(s)' <=> Saved(s))
    BY <2>2 DEF Sound, SetupRight, Kept, Saved
  <2>4. \A r \in Lives : LiveRight(r)'
    BY <2>2 DEF Sound, LiveRight, PlanRight, Origins, Kept
  <2>5. \A p \in Syncs : SyncRight(p)'
    BY <2>2 DEF Sound, SyncRight
  <2>6. \A q \in wire' : WentRight(q)'
    <3> SUFFICES ASSUME NEW q \in wire PROVE WentRight(q)'
      BY <2>2
    <3>1. WentRight(q)
      BY DEF Sound
    <3>2. CallGoesRight(q) => CallGoesRight(q)'
      BY ONLY <2>2 DEF CallGoesRight, Meant, Origins
    <3> QED
      BY ONLY <2>2, <3>1, <3>2 DEF WentRight
  <2>7. Kept(config)' /\ \A u \in written' : u.form = "plain" \/ TypedToSync(u)'
    <3>1. \A u : TypedToSync(u) => TypedToSync(u)'
      BY ONLY <2>2 DEF TypedToSync, Unusable
    <3>2. \A u \in written : u.form = "plain" \/ TypedToSync(u)
      BY DEF Sound
    <3>3. Kept(config)'
      BY <2>2 DEF Sound, Kept
    <3> QED
      BY ONLY <2>2, <3>1, <3>2, <3>3
  <2>8. (\E s \in Setups : Saved(s)') => config'.gateway # None
    BY <2>2, <2>3 DEF Sound
  <2>9. Sound'
    BY ONLY <2>3, <2>4, <2>5, <2>6, <2>7, <2>8 DEF Sound
  <2> QED
    BY <2>1, <2>9
<1> QED
  BY <1>1, <1>2, <1>3, <1>4 DEF GatewayNext

\* The types of the file, of what each invocation knows, and of what has left, for
\* any number of setups, live commands and sync commands.
THEOREM GatewayTypes == GatewaySpec => []GatewayTypeOK
<1>1. GatewayTypeOK /\ Sound /\ [GatewayNext]_gatewayVars => GatewayTypeOK' /\ Sound'
  BY GatewayStep
<1> QED
  BY GatewayInitTypes, GatewayInitSound, <1>1, PTL DEF GatewaySpec

\* A gateway key reaches only the origin it was set up for, and no URL is rendered
\* with what may be a credential in it, but for one without a scheme that a push, pull
\* or list was itself given; whatever the hosts, the flags, the variables, the calls
\* and the answers, and however many commands run at once.
THEOREM KeysAlwaysStayHome == GatewaySpec => []KeysStayHome
<1>1. GatewayTypeOK /\ Sound /\ [GatewayNext]_gatewayVars => GatewayTypeOK' /\ Sound'
  BY GatewayStep
<1>2. Sound => KeysStayHome
  BY SoundIsEnough
<1> QED
  BY GatewayInitTypes, GatewayInitSound, <1>1, <1>2, PTL DEF GatewaySpec

\* Every call goes where its client or the user meant it, a fork's to a configured
\* origin or a vendor, a run only where the user typed and with a key; and a
\* gateway setup saved is never lost to another setup.
THEOREM GoesOnlyWhereNamed == GatewaySpec => []GoesWhereNamed
<1>1. GatewayTypeOK /\ Sound /\ [GatewayNext]_gatewayVars => GatewayTypeOK' /\ Sound'
  BY GatewayStep
<1>2. Sound => GoesWhereNamed
  BY SoundIsEnough
<1> QED
  BY GatewayInitTypes, GatewayInitSound, <1>1, <1>2, PTL DEF GatewaySpec

=============================================================================
