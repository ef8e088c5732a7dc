------------------------------- MODULE Checkout -------------------------------
(***************************************************************************)
(* The working tree around an exact replay: which directory it runs in,    *)
(* what is copied before the recording is written over it, what is refused,*)
(* and how the tree comes back (replayWorkspace and what it calls,         *)
(* packages/cli/src/commands/replay.ts, over the shadow git store of       *)
(* packages/fs-capture).                                                   *)
(*                                                                         *)
(* Every file git writes, every removal and every rename is a step of its  *)
(* own; between two the command may fail or be killed, and the agent, the  *)
(* user and other programs write too.  "orca destroys only what it took a  *)
(* copy of first."                                                         *)
(***************************************************************************)
EXTENDS Naturals, Sequences, FiniteSets

CONSTANTS
  Paths,      \* the paths of the workspace, in the order git writes them
  Under,      \* the directory among them a path is in, or None
  Contents,   \* what a file can hold
  Links,      \* those that are links to a directory elsewhere
  None, Absent, Dir, Gitlink,
  Scenes,     \* bound: what a replay starts from
  Written,    \* bound: what others and a straying agent write
  MaxWrites,  \* bound: how often they do
  MaxFaults   \* bound: steps that fail, or a kill

Stands == Contents \union {Absent, Dir}
Kinds == {"tracked", "ignored", "sensitive", "nested"}
Scene ==
  [ask : SUBSET {"worktree", "in-place"}, home : BOOLEAN, snapshots : {"none", "dropped", "held"},
   kind : [Paths -> Kinds], roots : SUBSET Paths, tree : [Paths -> Stands],
   trees : Seq([Paths -> Contents \union {Absent, Gitlink}])]

ASSUME CheckoutAssumption ==
  /\ Paths \subseteq Nat /\ IsFiniteSet(Paths)
  /\ Under \in [Paths -> Paths \union {None}] /\ None \notin Paths
  /\ \A p \in Paths : Under[p] # None => Under[Under[p]] = None
  /\ Links \subseteq Contents /\ Written \subseteq Contents
  /\ None \notin [Paths -> Contents \union {Absent}]
  /\ {Absent, Dir, Gitlink} \intersect Contents = {} /\ Cardinality({Absent, Dir, Gitlink}) = 3
  /\ Scenes \subseteq Scene /\ \A s \in Scenes : Len(s.trees) > 0
  \* only a directory has anything in it
  /\ \A s \in Scenes : \A p \in Paths :
       Under[p] # None /\ s.tree[p] # Absent => s.tree[Under[p]] = Dir
  /\ MaxWrites \in Nat /\ MaxFaults \in Nat

VARIABLES
  scene,      \* the invocation, the recording, and what git is told to ignore
  at,         \* the step the command is at
  tree,       \* the working tree
  aside,      \* what a removal has set aside, under a name of its own
  outside,    \* what stands at these paths behind a link
  copy,       \* the safety copy, or None when there is no store of it
  introduced, \* the paths the put-back takes away again
  made,       \* the directories it takes away
  todo,       \* the paths the step at hand has yet to reach
  thrown,     \* the replay is being undone because something threw
  named,      \* paths the user has been told about
  theirs,     \* history: what is the user's at each path
  strayed,    \* history: paths the agent wrote that no snapshot answers for
  writes, faults

checkoutVars == <<scene, at, tree, aside, outside, copy, introduced, made, todo, thrown, named,
                  theirs, strayed, writes, faults>>
treeVars == <<tree, aside, outside>>
planVars == <<copy, introduced, made>>
pastVars == <<theirs, strayed, writes>>

First == scene.trees[1]
Trees == {scene.trees[i] : i \in 1..Len(scene.trees)}
\* The versions of a path the recording holds.
Versions(p) == {t[p] : t \in Trees} \intersect Contents
FilesOf(t) == {p \in Paths : t[p] \in Contents}
Earliest(S) == CHOOSE p \in S : \A q \in S : p <= q

\* Behind a link, a file that would pass for the recording's.
AnyOf(S) == CHOOSE c \in S : TRUE
Elsewhere ==
  [p \in Paths |-> IF Under[p] # None /\ Versions(p) # {} THEN AnyOf(Versions(p)) ELSE Absent]

CheckoutInit ==
  /\ scene \in Scenes
  /\ at = "asked"
  /\ tree = scene.tree /\ theirs = scene.tree
  /\ aside = [p \in Paths |-> Absent]
  /\ outside = Elsewhere
  /\ copy = None /\ introduced = {} /\ made = {} /\ todo = {}
  /\ thrown = FALSE /\ named = {} /\ strayed = {}
  /\ writes = 0 /\ faults = 0

\* git checkout-index -f of one file: a file or a link where a directory is
\* needed goes, and so does a directory where the file is needed.
Put(t, p, c) ==
  [q \in Paths |-> IF q = p THEN c ELSE IF q = Under[p] THEN Dir
                   ELSE IF Under[q] = p THEN Absent ELSE t[q]]

-----------------------------------------------------------------------------
(* Which directory, and what is refused before anything is written.        *)

\* Fault: --in-place and the missing snapshot are looked at before --worktree.
WayPreferringInPlace ==
  IF "in-place" \in scene.ask \/ scene.snapshots = "none" THEN "as it stands"
  ELSE IF scene.snapshots = "dropped" THEN "refused"
  ELSE IF "worktree" \in scene.ask THEN "worktree"
  ELSE IF ~ scene.home THEN "as it stands" ELSE "restored"
\* --worktree is a promise never to touch the user's files; a directory the run
\* was not recorded in is never restored over.
Way ==
  IF scene.ask = {"worktree", "in-place"} THEN "refused"
  ELSE IF scene.ask = {"in-place"} THEN "as it stands"
  ELSE IF scene.snapshots = "none"
    THEN IF "worktree" \in scene.ask THEN "refused" ELSE "as it stands"
  ELSE IF "worktree" \in scene.ask
    THEN IF scene.snapshots = "held" THEN "worktree" ELSE "refused"
  ELSE IF ~ scene.home THEN "as it stands"
  ELSE IF scene.snapshots = "held" THEN "restored" ELSE "refused"

\* What the reset removes: the declared paths, and what is in them.
Declared == {p \in Paths : p \in scene.roots \/ Under[p] \in scene.roots}

\* assertRestorable: a nested repository of the recording that the reset reaches, or
\* reaches into.
Restorable ==
  \A p \in Paths : First[p] = Gitlink => p \notin Declared /\ \A r \in scene.roots : Under[r] # p

Decides ==
  /\ at = "asked"
  /\ at' = CASE Way = "refused" -> "threw"
             [] Way = "worktree" -> "elsewhere"
             [] Way = "as it stands" -> "unguarded"
             [] Way = "restored" -> IF Restorable THEN "copy" ELSE "threw"
  /\ UNCHANGED <<scene, treeVars, planVars, todo, thrown, named, pastVars, faults>>

\* The agent runs in a scratch copy, or in the directory as it stands.
RunsUnrestored ==
  /\ at \in {"elsewhere", "unguarded"}
  /\ at' = "returned"
  /\ UNCHANGED <<scene, treeVars, planVars, todo, thrown, named, pastVars, faults>>

\* git add -A, and add -f of the declared paths; neither takes what the
\* sensitive pathspecs name or what is inside another repository.
Copied(p) ==
  \/ scene.kind[p] = "tracked"
  \/ scene.kind[p] = "ignored" /\ p \in Declared

TakesCopy ==
  /\ at = "copy"
  /\ copy' = [p \in Paths |-> IF tree[p] \in Contents /\ Copied(p) THEN tree[p] ELSE Absent]
  /\ named' = {p \in Paths : scene.kind[p] = "nested" /\ tree[p] # Absent}
              \union {p \in Paths : First[p] = Gitlink}
  /\ at' = "check"
  /\ UNCHANGED <<scene, treeVars, introduced, made, todo, thrown, pastVars, faults>>

\* snapshotTurn throws; its scratch store is left empty.
CopyFails ==
  /\ at = "copy" /\ faults < MaxFaults
  /\ at' = "threw" /\ faults' = faults + 1
  /\ UNCHANGED <<scene, treeVars, planVars, todo, thrown, named, pastVars>>

-----------------------------------------------------------------------------
(* The destructive part.  Whatever throws in it is undone by release().    *)

\* Fault: nobody asks whether the copy holds what the reset deletes.
ResettableAlways == TRUE
\* assertResettable
Resettable == \A p \in Declared : tree[p] \in Contents => copy[p] # Absent

\* What writing p destroys: a file where a directory is needed, or what is there.
InTheWay(p) ==
  IF Under[p] # None /\ tree[Under[p]] \in Contents THEN Under[p]
  ELSE IF tree[p] # Absent THEN p ELSE None

\* Fault: only the tree the restore writes is looked at.
UncopiedOfFirst == {p \in FilesOf(First) : copy[p] = Absent}
\* The files of every recorded tree that the copy has none of.
Uncopied == {p \in UNION {FilesOf(t) : t \in Trees} : copy[p] = Absent}

\* Held one level up: the put-back clears what the restore made of it.
Overwritten ==
  {p \in Uncopied : LET b == InTheWay(p)
                    IN b # None /\ ~ (b # p /\ copy[b] # Absent)}

\* assertResettable, then assertOverwritable.
Checks ==
  /\ at = "check"
  /\ IF Resettable /\ Overwritten = {}
     THEN LET fresh == {p \in Uncopied : InTheWay(p) = None}
          IN /\ introduced' = fresh
             /\ made' = {d \in {Under[p] : p \in fresh} \ {None} : tree[d] = Absent}
             /\ at' = "reset" /\ todo' = Declared
             /\ UNCHANGED thrown
     ELSE /\ thrown' = TRUE /\ at' = "put back" /\ todo' = FilesOf(copy)
          /\ UNCHANGED <<introduced, made>>
  /\ UNCHANGED <<scene, treeVars, copy, named, pastVars, faults>>

\* resetArtifacts: rm -r of each declared path, a directory after what is in it.
Resets ==
  /\ at = "reset"
  /\ \E p \in todo :
       /\ \A q \in todo : Under[q] # p
       /\ tree' = [tree EXCEPT ![p] = Absent]
       /\ todo' = todo \ {p}
  /\ UNCHANGED <<scene, at, aside, outside, planVars, thrown, named, pastVars, faults>>

ResetDone ==
  /\ at = "reset" /\ todo = {}
  /\ at' = "restore" /\ todo' = FilesOf(First)
  /\ UNCHANGED <<scene, treeVars, planVars, thrown, named, pastVars, faults>>

\* recorded.restore
Restores ==
  /\ at = "restore" /\ todo # {}
  /\ tree' = Put(tree, Earliest(todo), First[Earliest(todo)])
  /\ todo' = todo \ {Earliest(todo)}
  /\ UNCHANGED <<scene, at, aside, outside, planVars, thrown, named, pastVars, faults>>

Restored ==
  /\ at = "restore" /\ todo = {}
  /\ at' = "running"
  /\ UNCHANGED <<scene, treeVars, planVars, todo, thrown, named, pastVars, faults>>

\* A reset or a restore that fails part-way, or a throw while the agent runs.
Throws ==
  /\ at \in {"reset", "restore", "running"} /\ faults < MaxFaults
  /\ at' = "put back" /\ todo' = FilesOf(copy)
  /\ thrown' = TRUE /\ faults' = faults + 1
  /\ UNCHANGED <<scene, treeVars, planVars, named, pastVars>>

\* The child has exited.
AgentDone ==
  /\ at = "running"
  /\ at' = "put back" /\ todo' = FilesOf(copy)
  /\ UNCHANGED <<scene, treeVars, planVars, thrown, named, pastVars, faults>>

-----------------------------------------------------------------------------
(* release(): the copy is put back, what the recording introduced is taken *)
(* away, and then the copy goes.                                           *)

PutsBack ==
  /\ at = "put back" /\ todo # {}
  /\ tree' = Put(tree, Earliest(todo), copy[Earliest(todo)])
  /\ todo' = todo \ {Earliest(todo)}
  /\ UNCHANGED <<scene, at, aside, outside, planVars, thrown, named, pastVars, faults>>

\* Fault: only what the copy holds is put back.
TakenNone == {}
\* What the recording wrote where there was nothing goes again.
Taken == introduced

PutBackDone ==
  /\ at = "put back" /\ todo = {}
  /\ at' = "take" /\ todo' = Taken
  /\ UNCHANGED <<scene, treeVars, planVars, thrown, named, pastVars, faults>>

\* Fault: the scratch store goes whatever became of the put-back.
DropsCopy == None
\* The copy is kept, and the user is told where it is.
KeepsCopy == copy

PutBackFails ==
  /\ at = "put back" /\ faults < MaxFaults
  /\ at' = "threw" /\ faults' = faults + 1
  /\ copy' = KeepsCopy /\ named' = Paths
  /\ UNCHANGED <<scene, treeVars, introduced, made, todo, thrown, pastVars>>

\* Fault: a link on the way is followed.
ThroughAnything(p) == TRUE
ThroughDirectories(p) == Under[p] # None => tree[Under[p]] = Dir

\* takeIfRecorded sets the file aside, so that what is judged is what goes; the
\* file of a path that leads through a link is one elsewhere.
SetsAside ==
  /\ at = "take" /\ todo # {}
  /\ LET p == Earliest(todo)
         linked == Under[p] # None /\ tree[Under[p]] \in Links
     IN IF ~ ThroughDirectories(p) \/ (~ linked /\ tree[p] \in {Absent, Dir})
        THEN /\ todo' = todo \ {p}
             /\ named' = IF ThroughDirectories(p) /\ tree[p] = Dir THEN named \union {p} ELSE named
             /\ UNCHANGED <<at, treeVars>>
        ELSE /\ at' = "judge" /\ UNCHANGED <<todo, named>>
             /\ IF linked
                THEN /\ aside' = [aside EXCEPT ![p] = outside[p]]
                     /\ outside' = [outside EXCEPT ![p] = Absent] /\ UNCHANGED tree
                ELSE /\ aside' = [aside EXCEPT ![p] = tree[p]]
                     /\ tree' = [tree EXCEPT ![p] = Absent] /\ UNCHANGED outside
  /\ UNCHANGED <<scene, planVars, thrown, pastVars, faults>>

\* Fault: whatever is at the path is taken for what the replay put there.
RecordedAny(p) == TRUE
\* Its bytes are a version the recording holds for that path.
IsRecorded(p) == aside[p] \in Versions(p)

\* Back where it was, unless something has taken the path; then it stays under
\* its other name, and is named.
Judges ==
  LET p == Earliest(todo) IN
  /\ at = "judge"
  /\ at' = "take" /\ todo' = todo \ {p}
  /\ IF IsRecorded(p) THEN aside' = [aside EXCEPT ![p] = Absent] /\ UNCHANGED <<tree, named>>
     ELSE /\ named' = named \union {p}
          /\ IF tree[p] = Absent
             THEN tree' = Put(tree, p, aside[p]) /\ aside' = [aside EXCEPT ![p] = Absent]
             ELSE UNCHANGED <<tree, aside>>
  /\ UNCHANGED <<scene, outside, planVars, thrown, pastVars, faults>>

\* rmdir takes a directory only while it is empty.
RemovesDirs ==
  /\ at = "take" /\ todo = {}
  /\ tree' = [p \in Paths |->
       IF /\ p \in made /\ tree[p] = Dir
          /\ \A q \in Paths : Under[q] = p => tree[q] = Absent /\ aside[q] = Absent
       THEN Absent ELSE tree[p]]
  /\ at' = "tidy"
  /\ UNCHANGED <<scene, aside, outside, planVars, todo, thrown, named, pastVars, faults>>

RemovesCopy ==
  /\ at = "tidy"
  /\ copy' = None
  /\ at' = IF thrown THEN "threw" ELSE "returned"
  /\ UNCHANGED <<scene, treeVars, introduced, made, todo, thrown, named, pastVars, faults>>

Working == {"copy", "check", "reset", "restore", "running", "put back", "take", "judge", "tidy"}

Dies ==
  /\ at \in Working /\ faults < MaxFaults
  /\ at' = "killed" /\ faults' = faults + 1
  /\ UNCHANGED <<scene, treeVars, planVars, todo, thrown, named, pastVars>>

-----------------------------------------------------------------------------
(* Everybody else. *)

MayWrite == writes < MaxWrites /\ writes' = writes + 1
\* Not through a link, nor over what another program has just written there.
Direct(p) ==
  /\ Under[p] # None => tree[Under[p]] \notin Links
  /\ \A q \in introduced : (q = p \/ Under[q] = p \/ Under[p] = q) => theirs[q] \notin Contents

\* The agent does what it did: a file gets a version the recording holds, or goes.
AgentWrites(p, c) ==
  /\ at = "running" /\ c \in Versions(p) \ {tree[p]} /\ Direct(p)
  /\ tree' = Put(tree, p, c)
  /\ UNCHANGED <<scene, at, aside, outside, planVars, todo, thrown, named, pastVars, faults>>

AgentDeletes(p) ==
  /\ at = "running" /\ Versions(p) # {} /\ tree[p] \in Contents /\ Direct(p)
  /\ tree' = [tree EXCEPT ![p] = Absent]
  /\ UNCHANGED <<scene, at, aside, outside, planVars, todo, thrown, named, pastVars, faults>>

\* What it did where no snapshot looks, in an ignored path or another repository;
\* it clears no file away to make a directory there.
AgentWritesUnseen(p, c) ==
  /\ at = "running" /\ ~ Copied(p) /\ Versions(p) = {} /\ tree[p] \notin {Dir, c}
  /\ Under[p] # None => tree[Under[p]] \notin Contents
  /\ MayWrite
  /\ tree' = Put(tree, p, c) /\ strayed' = strayed \union {p}
  /\ UNCHANGED <<scene, at, aside, outside, planVars, todo, thrown, named, theirs, faults>>

\* It goes its own way, in a file the copy or the recording answers for.
AgentStrays(p, c) ==
  /\ at = "running" /\ (copy[p] # Absent \/ p \in introduced) /\ tree[p] # Dir /\ Direct(p)
  /\ MayWrite
  /\ tree' = Put(tree, p, c) /\ strayed' = strayed \union {p}
  /\ UNCHANGED <<scene, at, aside, outside, planVars, todo, thrown, named, theirs, faults>>

\* Or makes a directory a link to one elsewhere.
AgentLinks(d, c) ==
  /\ at = "running" /\ c \in Links /\ d \in made /\ tree[d] = Dir /\ Direct(d)
  /\ MayWrite
  /\ tree' = Put(tree, d, c) /\ strayed' = strayed \union {d}
  /\ UNCHANGED <<scene, at, aside, outside, planVars, todo, thrown, named, theirs, faults>>

\* The user, or a watcher: a file of their own, where they had none when the
\* replay began, while it runs and while it is undone.  Not between the check
\* and the restore, which is not atomic with it.
OthersWrite(p, c) ==
  /\ at \in {"running", "put back", "take", "judge"} /\ MayWrite
  /\ c \notin Versions(p) \union {tree[p]} \union Links
  /\ p \in introduced /\ tree[p] # Dir
  /\ Under[p] # None => tree[Under[p]] = Dir
  /\ tree' = Put(tree, p, c)
  /\ theirs' = Put(theirs, p, c)
  /\ UNCHANGED <<scene, at, aside, outside, planVars, todo, thrown, named, strayed, faults>>

-----------------------------------------------------------------------------
Command ==
  \/ Decides \/ RunsUnrestored \/ TakesCopy \/ CopyFails \/ Checks
  \/ Resets \/ ResetDone \/ Restores \/ Restored \/ Throws \/ AgentDone
  \/ PutsBack \/ PutBackDone \/ PutBackFails
  \/ SetsAside \/ Judges \/ RemovesDirs \/ RemovesCopy \/ Dies
Agent ==
  \/ \E p \in Paths, c \in Contents : AgentWrites(p, c)
  \/ \E p \in Paths : AgentDeletes(p)
  \/ \E p \in Paths, c \in Written : AgentWritesUnseen(p, c) \/ AgentStrays(p, c) \/ AgentLinks(p, c)

CheckoutNext == Command \/ Agent \/ \E p \in Paths, c \in Written : OthersWrite(p, c)
CheckoutSpec == CheckoutInit /\ [][CheckoutNext]_checkoutVars

-----------------------------------------------------------------------------
(* Properties. *)

CheckoutTypeOK ==
  /\ scene \in Scene
  /\ at \in Working \union {"asked", "elsewhere", "unguarded", "returned", "threw", "killed"}
  /\ tree \in [Paths -> Stands] /\ theirs \in [Paths -> Stands]
  /\ aside \in [Paths -> Contents \union {Absent}]
  /\ outside \in [Paths -> Contents \union {Absent}]
  /\ copy = None \/ copy \in [Paths -> Contents \union {Absent}]
  /\ introduced \subseteq Paths /\ made \subseteq Paths /\ todo \subseteq Paths
  /\ thrown \in BOOLEAN /\ named \subseteq Paths /\ strayed \subseteq Paths
  /\ writes \in 0..MaxWrites /\ faults \in 0..MaxFaults

\* At every instant, and so wherever the command is killed or fails, each file of
\* the user's is in the tree, in the copy, or beside its path: "orca destroys only
\* what it took a copy of first".  Excepted is what the agent wrote over where no
\* snapshot looks.
HeldSomewhere ==
  \A p \in Paths \ strayed : theirs[p] \in Contents =>
    \/ tree[p] = theirs[p] \/ aside[p] = theirs[p]
    \/ copy # None /\ copy[p] = theirs[p]

\* A file of the user's made while the replay ran is theirs also where the agent
\* strayed first, and nothing behind a link is ever taken.
TakesOnlyItsOwn ==
  /\ \A p \in introduced : theirs[p] \in Contents => theirs[p] \in {tree[p], aside[p]}
  /\ outside = Elsewhere

\* A replay that is over and was not killed left the tree as the user has it: each
\* of their files is back, and nothing is there that they did not put there, unless
\* the agent wrote what no snapshot answers for or the user was told.
ComesBack ==
  at \in {"returned", "threw"} =>
    \A p \in Paths \ (named \union strayed) :
      /\ aside[p] = Absent
      /\ theirs[p] \in Contents => tree[p] = theirs[p]
      /\ theirs[p] = Absent => tree[p] \in {Absent, Dir}
      /\ theirs[p] = Absent /\ tree[p] = Dir => \E q \in Paths : Under[q] = p /\ tree[q] # Absent

\* A replay asked for with --worktree never runs in the user's directory, and one
\* that is refused, runs elsewhere or as the tree stands writes nothing into it.
KeepsOut ==
  /\ "worktree" \in scene.ask => at \in {"asked", "elsewhere", "returned", "threw"}
  /\ "worktree" \in scene.ask \/ ~ scene.home \/ "in-place" \in scene.ask => tree = theirs

\* "A replay is observationally a no-op on your checkout": with nothing named, the
\* tree of a replay that returned is the user's.
NoOp ==
  at = "returned" /\ named = {} =>
    \A p \in Paths : theirs[p] \in Contents => tree[p] = theirs[p]
=============================================================================
