------------------------------- MODULE RunLock -------------------------------
(***************************************************************************)
(* The lock file beside a run: withRunLock and its helpers of              *)
(* packages/cli/src/commands/sync.ts.                                      *)
(*                                                                         *)
(* A pull creates <run>.lock with O_EXCL and a token of its own.  A lock   *)
(* file whose mtime is older than STALE_LOCK_MS is broken by renaming it   *)
(* aside, examining it there and removing it or linking it back; the       *)
(* release does the same with the holder's own file.  A heartbeat keeps    *)
(* the file of a living holder young.  Each action is what a process does  *)
(* between two awaits, and a process may be killed between any two.        *)
(*                                                                         *)
(* A token is used by one session, so a lock file is named by its pull.    *)
(***************************************************************************)
EXTENDS Naturals, FiniteSets

CONSTANTS
  Pulls,      \* the sessions of withRunLock on one run
  NoOne,      \* no lock file
  MaxTrouble  \* bound: kills, file operations that fail, and stalls of a living
              \*   holder that are long enough for it to look stale, together

ASSUME LockAssumption ==
  NoOne \notin Pulls /\ MaxTrouble \in Nat

VARIABLES
  at,         \* where each session is
  lock,       \* whose file is at <run>.lock
  aside,      \* whose file each session has renamed aside
  litter,     \* whose files were left aside for good
  stale,      \* whose files are older than STALE_LOCK_MS
  touching,   \* sessions whose heartbeat has read its own token and not touched yet
  trouble     \* how much of it there was

lockVars == <<at, lock, aside, litter, stale, touching, trouble>>

Outside == {"left", "refused", "dead"}
Stages == Outside \union
  {"trying", "breaking", "judging", "restoring",
   "in", "releasing", "inspecting", "returning"}

Go(p, stage) == at' = [at EXCEPT ![p] = stage]

\* Something outside of the program goes wrong, or nothing does.
Trouble == trouble < MaxTrouble /\ trouble' = trouble + 1
Fine == UNCHANGED trouble

-----------------------------------------------------------------------------
(* Acquiring: writeFile with 'wx', up to 60 attempts. *)

Create(p) ==
  /\ at[p] = "trying" /\ lock = NoOne
  /\ lock' = p
  /\ stale' = stale \ {p}
  /\ Go(p, "in")
  /\ UNCHANGED <<aside, litter, touching, trouble>>

FindStale(p) ==
  /\ at[p] = "trying" /\ lock \in stale
  /\ Go(p, "breaking")
  /\ UNCHANGED <<lock, aside, litter, stale, touching, trouble>>

\* The last attempt found the file there, or creating it failed for good.
GiveUp(p) ==
  /\ at[p] = "trying"
  /\ IF lock # NoOne THEN Fine ELSE Trouble
  /\ Go(p, "refused")
  /\ UNCHANGED <<lock, aside, litter, stale, touching>>

-----------------------------------------------------------------------------
(* claimLockFile and restoreLockFile, for the break and for the release. *)

\* rename() takes whatever file is there, or fails.
ClaimAndGo(p, taken, nothing) ==
  /\ \/ /\ lock # NoOne /\ Fine
        /\ aside' = [aside EXCEPT ![p] = lock]
        /\ lock' = NoOne
        /\ Go(p, taken)
     \/ /\ IF lock = NoOne THEN Fine ELSE Trouble
        /\ UNCHANGED <<aside, lock>>
        /\ Go(p, nothing)
  /\ UNCHANGED <<litter, stale, touching>>

Keep(p, next) ==
  /\ Go(p, next)
  /\ UNCHANGED <<lock, aside, litter, stale, touching>>

LeaveAside(p, next) ==
  /\ litter' = litter \union {aside[p]}
  /\ aside' = [aside EXCEPT ![p] = NoOne]
  /\ Go(p, next)
  /\ UNCHANGED <<lock, stale, touching>>

RemoveAside(p, next) ==
  \/ /\ aside' = [aside EXCEPT ![p] = NoOne]
     /\ stale' = stale \ {aside[p]}
     /\ Go(p, next) /\ Fine
     /\ UNCHANGED <<lock, litter, touching>>
  \/ LeaveAside(p, next) /\ Trouble

\* link() fails while another file is at the path, or for good; after five
\* attempts the file stays aside.  The name it had there is removed in the same
\* step: nobody looks for it.
PutBack(p, next) ==
  \/ /\ lock = NoOne /\ lock' = aside[p]
     /\ aside' = [aside EXCEPT ![p] = NoOne]
     /\ Go(p, next) /\ Fine
     /\ UNCHANGED <<litter, stale, touching>>
  \/ lock # NoOne /\ LeaveAside(p, next) /\ Fine
  \/ lock = NoOne /\ LeaveAside(p, next) /\ Trouble

-----------------------------------------------------------------------------
(* breakStaleRunLock and releaseRunLock. *)

Claim(p) ==
  \/ at[p] = "breaking" /\ ClaimAndGo(p, "judging", "trying")
  \/ at[p] = "releasing" /\ ClaimAndGo(p, "inspecting", "left")

\* Fault: what was judged stale at the path is taken to be stale still.
JudgeByVerdict(p) ==
  /\ at[p] = "judging"
  /\ RemoveAside(p, "trying")

\* The age is asked again of the file now held aside.
Judge(p) ==
  /\ at[p] = "judging"
  /\ \/ aside[p] \in stale /\ RemoveAside(p, "trying")
     \/ aside[p] \notin stale /\ Keep(p, "restoring") /\ Fine
     \/ aside[p] \in stale /\ Keep(p, "restoring") /\ Trouble

Restore(p) ==
  \/ at[p] = "restoring" /\ PutBack(p, "trying")
  \/ at[p] = "returning" /\ PutBack(p, "left")

\* lockStillHeld
StillHeld(p) == lock = p

\* A lock that cannot be read is not the session's own.
Release(p) ==
  /\ at[p] = "in"
  /\ \/ StillHeld(p) /\ Keep(p, "releasing") /\ Fine
     \/ ~ StillHeld(p) /\ Keep(p, "left") /\ Fine
     \/ StillHeld(p) /\ Keep(p, "left") /\ Trouble

Inspect(p) ==
  /\ at[p] = "inspecting"
  /\ \/ aside[p] = p /\ RemoveAside(p, "left")
     \/ aside[p] # p /\ Keep(p, "returning") /\ Fine
     \/ aside[p] = p /\ Keep(p, "returning") /\ Trouble

-----------------------------------------------------------------------------
(* The heartbeat, time and kills. *)

\* A beat that finds its file young changes nothing and is left out.
BeatAsks(p) ==
  /\ at[p] = "in" /\ StillHeld(p) /\ p \in stale /\ p \notin touching
  /\ touching' = touching \union {p}
  /\ UNCHANGED <<at, lock, aside, litter, stale, trouble>>

\* utimes() touches whatever file is at the path by then.
BeatTouches(p) ==
  /\ p \in touching /\ at[p] # "dead"
  /\ touching' = touching \ {p}
  /\ stale' = stale \ {lock}
  /\ UNCHANGED <<at, lock, aside, litter, trouble>>

FileExists(p) == lock = p \/ (\E q \in Pulls : aside[q] = p)

\* Ten minutes pass for a file: freely when its session is over, within the
\* bound when it lives and its heartbeats did not land.
Ages(p) ==
  /\ FileExists(p) /\ p \notin stale
  /\ stale' = stale \union {p}
  /\ IF at[p] \in Outside THEN Fine ELSE Trouble
  /\ UNCHANGED <<at, lock, aside, litter, touching>>

\* SIGKILL, ^C or power loss.
Kill(p) ==
  /\ at[p] \notin Outside
  /\ Trouble
  /\ Go(p, "dead")
  /\ UNCHANGED <<lock, aside, litter, stale, touching>>

\* One session may have been killed long ago and have left its lock.
LockInit ==
  /\ lock \in Pulls \union {NoOne}
  /\ at = [p \in Pulls |-> IF p = lock THEN "dead" ELSE "trying"]
  /\ aside = [p \in Pulls |-> NoOne]
  /\ stale = {lock} \ {NoOne}
  /\ litter = {} /\ touching = {}
  /\ trouble = 0

\* Everything but the end of the work under the lock.
LockStep(p) ==
  \/ Create(p) \/ FindStale(p) \/ GiveUp(p)
  \/ Claim(p) \/ Judge(p) \/ Restore(p) \/ Inspect(p)
  \/ BeatAsks(p) \/ BeatTouches(p) \/ Ages(p) \/ Kill(p)

-----------------------------------------------------------------------------
(* Properties. *)

LockTypeOK ==
  /\ at \in [Pulls -> Stages]
  /\ lock \in Pulls \union {NoOne}
  /\ aside \in [Pulls -> Pulls \union {NoOne}]
  /\ litter \subseteq Pulls
  /\ stale \subseteq Pulls
  /\ touching \subseteq Pulls
  /\ trouble \in 0..MaxTrouble

(***************************************************************************)
(* "Break a lock judged stale, without ever removing a LIVE one": a young  *)
(* lock file disappears only when its own session takes it away.           *)
(***************************************************************************)
LiveLockKept ==
  [][\A p \in Pulls :
       (FileExists(p) \/ p \in litter) /\ ~ (FileExists(p) \/ p \in litter)'
         => p \in stale \/ (at[p] = "inspecting" /\ at'[p] = "left")]_lockVars

\* A session holds a file aside between its claim and what it decides, and may
\* be killed with it.
Claiming == {"judging", "restoring", "inspecting", "returning"}
AsideWhileClaiming ==
  \A p \in Pulls :
    /\ at[p] \in Claiming => aside[p] # NoOne
    /\ aside[p] # NoOne => at[p] \in Claiming \union {"dead"}

\* Before it creates its lock, a session has no file anywhere.
Waiting == {"trying", "breaking", "judging", "restoring", "refused"}
NoFileYet == \A p \in Pulls : at[p] \in Waiting => ~ FileExists(p)

(***************************************************************************)
(* One lock file is in one place: two sessions that claim at once never    *)
(* both have it, and a file that was linked back is not held aside as well *)
(* (claimLockFile: "exactly one racer can take it").                       *)
(***************************************************************************)
OnePlace ==
  \A p, q \in Pulls :
    /\ aside[p] # NoOne => aside[p] # lock
    /\ aside[p] # NoOne /\ aside[p] = aside[q] => p = q
=============================================================================
