---------------------------- MODULE WorkspaceProofs -----------------------------
(***************************************************************************)
(* The workspace, for every one of them, recording and replay of it,       *)
(* whatever fails, strays or writes beside it: "Orca destroys only what it *)
(* took a copy of first" (Checkout.tla), and what a trace says of the      *)
(* workspace it was recorded in is so (Checkpoints.tla).                   *)
(*                                                                         *)
(* Checkout.  Everything rests on what is settled before the first file is *)
(* removed (Vetted): a file the recording writes or the reset removes is   *)
(* in the copy, or is nowhere and will be taken away again, or lies under  *)
(* a file that the copy has.  So the three kinds of file do not meet: what *)
(* is copied may be written over and comes back, what the recording        *)
(* introduces is beside no file of the user's, and no write reaches the    *)
(* rest.  World says so of the tree, whichever step the command is at;     *)
(* Steps says what each step has done so far, and Removal where a removal  *)
(* stands.  The proof goes edit by edit: what a write, a removal of one    *)
(* path and a write of another program's keep of World, then the actions.  *)
(*                                                                         *)
(* Checkpoints.  RecorderBooks ties the queue, the deriver's maps and the  *)
(* snapshot being taken to the trace: a call that is pending is where it   *)
(* is said to be (Called), a result that is in the trace is closed         *)
(* (Returned), an entry of the queue has an id of its own (Answers), what  *)
(* FsCapture compares with is the last snapshot (Compared), and what a     *)
(* snapshot has read is no older than any request before it (Asked,        *)
(* Looked).  That a fork starts at no older tree then follows from the     *)
(* order of the turns (InTurn).                                            *)
(***************************************************************************)
EXTENDS Checkout, Checkpoints, FiniteSetTheorems, SequenceTheorems, WellFoundedInduction, TLAPS

Was == scene.tree
\* What the copy holds once it is taken.
Kept == [p \in Paths |-> IF Was[p] \in Contents /\ Copied(p) THEN Was[p] ELSE Absent]

Early == {"asked", "elsewhere", "unguarded", "copy", "check"}
Over == {"returned", "threw", "killed"}
Removing == {"take", "judge", "tidy"}

Shaped(t) == \A p \in Paths : Under[p] # None /\ t[p] # Absent => t[Under[p]] = Dir

\* Nothing has been done to the tree, and nothing will be.
Untouched ==
  introduced = {} /\ made = {} /\ strayed = {} /\ tree = Was /\ theirs = Was

\* What assertResettable and assertOverwritable have established.
Vetted ==
  /\ \A p \in Declared : Was[p] \in Contents => Kept[p] # Absent
  /\ \A p \in Paths : Versions(p) # {} /\ Kept[p] = Absent /\ p \notin introduced =>
       Was[p] = Absent /\ Under[p] # None /\ Kept[Under[p]] # Absent
  /\ \A p \in introduced :
       Versions(p) # {} /\ Was[p] = Absent /\ (Under[p] # None => Was[Under[p]] \notin Contents)
  /\ \A p \in introduced : Under[p] # None /\ Was[Under[p]] = Absent => Under[p] \in made
  /\ \A d \in made : Was[d] = Absent /\ \E p \in introduced : Under[p] = d

\* What the user has made meanwhile is at an introduced path, and no recorded version.
TheirsRight ==
  \A p \in Paths :
    /\ Was[p] \in Contents => theirs[p] = Was[p]
    /\ theirs[p] \in Contents =>
         theirs[p] = Was[p] \/ (p \in introduced /\ theirs[p] \notin Versions(p))
    /\ theirs[p] = Absent => Was[p] = Absent

\* A file that is not in the copy has not been written over; what is neither the
\* user's nor astray is a recorded version; and a directory that is not the
\* replay's to remove holds something.
Spared == \A p \in Paths \ strayed : Was[p] \in Contents /\ Kept[p] = Absent => tree[p] = Was[p]
Accounted ==
  \A p \in Paths \ strayed : tree[p] \in Contents /\ Versions(p) = {} => Was[p] \in Contents
Filled ==
  \A p \in Paths \ made : Was[p] = Absent /\ tree[p] = Dir =>
    \E q \in Paths : Under[q] = p /\ Versions(q) = {} /\ tree[q] \in Contents
Standing == Shaped(tree) /\ Spared /\ Accounted /\ Filled
World == scene \in Scenes /\ TheirsRight /\ Standing

\* A file of the user's made while the replay runs is in the tree or beside it.
OwnHeld == \A p \in introduced : theirs[p] \in Contents => theirs[p] \in {tree[p], aside[p]}

Steps ==
  /\ at \in Early => Untouched
  /\ at \in {"asked", "elsewhere", "unguarded", "copy"} => copy = None
  /\ at \in Working \ {"copy"} => copy = Kept
  /\ at \in {"reset", "restore", "running", "judge"} => Vetted
  /\ Untouched \/ Vetted
  /\ at \in {"reset", "restore"} => theirs = Was /\ strayed = {}
  /\ at = "reset" => todo \subseteq Declared /\ \A p \in Paths : tree[p] \in {Was[p], Absent}
  /\ at = "reset" => \A p \in Paths : Under[p] \in todo => tree[p] = Absent \/ p \in todo
  /\ at = "restore" => todo \subseteq FilesOf(First)
  /\ at = "put back" =>
       todo \subseteq FilesOf(Kept) /\ \A p \in FilesOf(Kept) \ todo : tree[p] = Kept[p]

\* The user's files that were copied are back, and of the introduced paths only
\* those still to be reached may hold what nobody answers for.
Removal ==
  /\ at \notin Removing \union Over => \A p \in Paths : aside[p] = Absent
  /\ at \in Removing =>
       /\ todo \subseteq introduced
       /\ \A p \in FilesOf(Kept) : tree[p] = Kept[p]
       /\ \A p \in Paths \ (named \union strayed) :
            theirs[p] = Absent /\ tree[p] \in Contents => p \in todo
       /\ \A p \in Paths : aside[p] # Absent /\ ~ (at = "judge" /\ p = Earliest(todo)) =>
            p \in introduced \ todo /\ p \in named /\ tree[p] \notin {Absent, Dir}
  /\ at = "judge" =>
       /\ todo # {}
       /\ LET p == Earliest(todo)
          IN /\ aside[p] \in Contents /\ tree[p] \in {Absent, theirs[p]} \ {Dir}
             /\ Under[p] # None => tree[Under[p]] = Dir
  /\ at = "tidy" =>
       /\ todo = {}
       /\ \A p \in made : tree[p] = Dir => \E q \in Paths : Under[q] = p /\ tree[q] # Absent

Ended == at \in Over => HeldSomewhere /\ ComesBack

CheckoutInv ==
  CheckoutTypeOK /\ World /\ OwnHeld /\ outside = Elsewhere /\ Steps /\ Removal /\ Ended

-----------------------------------------------------------------------------
(* Paths, what can stand at them, and the earliest of some. *)

\* Only a directory has anything in it, and nothing is in what is in one.
LEMMA PathsNest ==
  /\ None \notin Paths
  /\ \A p \in Paths : Under[p] \in Paths \union {None} /\ Under[p] # p
  /\ \A p \in Paths : Under[p] # None => Under[Under[p]] = None
<1>1. \A p \in Paths : Under[p] \in Paths \union {None}
  BY CheckoutAssumption
<1>2. \A p \in Paths : Under[p] # None => Under[Under[p]] = None
  BY CheckoutAssumption
<1>3. \A p \in Paths : Under[p] # p
  BY <1>2, CheckoutAssumption
<1> QED
  BY <1>1, <1>2, <1>3, CheckoutAssumption

\* Nothing, a directory and a file are told apart.
LEMMA StandsApart == Absent \notin Contents /\ Dir \notin Contents /\ Absent # Dir
<1>1. Absent \notin Contents /\ Dir \notin Contents
  BY CheckoutAssumption
<1>2. Absent # Dir
  <2> SUFFICES ASSUME Absent = Dir PROVE FALSE
    OBVIOUS
  <2>1. {Absent, Dir, Gitlink} = {Gitlink} \union {Absent}
    OBVIOUS
  <2>2. IsFiniteSet({Gitlink}) /\ Cardinality({Gitlink}) = 1
    BY FS_Singleton
  <2>3. Cardinality({Gitlink} \union {Absent}) \in {1, 2}
    BY <2>2, FS_AddElement
  <2>4. Cardinality({Absent, Dir, Gitlink}) = 3
    BY CheckoutAssumption
  <2> QED
    BY <2>1, <2>3, <2>4
<1> QED
  BY <1>1, <1>2

\* A path's recorded versions are contents, and a file of the first tree has one.
LEMMA VersionsAreContents ==
  ASSUME scene \in Scenes, NEW p \in Paths
  PROVE  Versions(p) \subseteq Contents /\ (p \in FilesOf(First) => First[p] \in Versions(p))
<1>1. Len(scene.trees) > 0 /\ scene.trees \in Seq([Paths -> Contents \union {Absent, Gitlink}])
  BY CheckoutAssumption DEF Scene
<1>2. 1 \in 1..Len(scene.trees)
  BY <1>1
<1>3. First \in Trees
  BY <1>2 DEF First, Trees
<1> QED
  BY <1>3 DEF Versions, FilesOf

\* What the tree was, and what is kept of it.
LEMMA WasAndKept ==
  ASSUME scene \in Scenes
  PROVE  /\ Was \in [Paths -> Stands] /\ Shaped(Was)
         /\ Kept \in [Paths -> Contents \union {Absent}]
         /\ \A p \in Paths : Kept[p] # Absent => Was[p] \in Contents /\ Kept[p] = Was[p]
         /\ FilesOf(Kept) = {p \in Paths : Kept[p] # Absent}
<1>1. Was \in [Paths -> Stands]
  BY CheckoutAssumption DEF Was, Scene
<1>2. Shaped(Was)
  BY CheckoutAssumption DEF Shaped, Was
<1>3. Kept \in [Paths -> Contents \union {Absent}]
  BY DEF Kept
<1>4. \A p \in Paths : Kept[p] # Absent => Was[p] \in Contents /\ Kept[p] = Was[p]
  BY DEF Kept
<1>5. FilesOf(Kept) = {p \in Paths : Kept[p] # Absent}
  BY <1>3, StandsApart DEF FilesOf
<1> QED
  BY <1>1, <1>2, <1>3, <1>4, <1>5

\* The earliest of some paths is one of them.
LEMMA EarliestIsOne ==
  ASSUME NEW S \in SUBSET Paths, S # {}
  PROVE  Earliest(S) \in S
<1> DEFINE before(t) == {s \in S : s < t}
           T == {before(t) : t \in S}
<1>1. IsFiniteSet(S)
  BY CheckoutAssumption, FS_Subset
<1>2. T \subseteq SUBSET S /\ T # {}
  OBVIOUS
<1>3. PICK r \in S : \A t \in S : <<before(t), before(r)>> \notin StrictSubsetOrdering(S)
  <2>1. PICK x \in T : \A y \in T : <<y, x>> \notin StrictSubsetOrdering(S)
    <3> HIDE DEF T
    <3>1. IsWellFoundedOn(StrictSubsetOrdering(S), SUBSET S)
      BY <1>1, FS_StrictSubsetOrderingWellFounded, FS_FiniteSubsetsOfFinite
    <3> QED
      BY <1>2, <3>1, WFMin
  <2> QED
    BY <2>1
<1>4. \A t \in S : r <= t
  <2> SUFFICES ASSUME NEW t \in S, ~ (r <= t) PROVE FALSE
    OBVIOUS
  <2>0. t < r /\ ~ (t < t) /\ \A s \in S : s < t => s < r
    BY CheckoutAssumption
  <2>1. /\ before(t) \subseteq before(r) /\ t \in before(r) /\ t \notin before(t)
        /\ before(t) \in SUBSET S /\ before(r) \in SUBSET S
    BY ONLY <2>0, r \in S, t \in S
  <2>2. \A x, y \in SUBSET S : x \subseteq y /\ x # y => <<x, y>> \in StrictSubsetOrdering(S)
    BY DEF StrictSubsetOrdering
  <2>3. before(t) # before(r)
    BY <2>1
  <2>4. <<before(t), before(r)>> \notin StrictSubsetOrdering(S)
    BY <1>3
  <2> HIDE DEF before
  <2> QED
    BY <2>1, <2>2, <2>3, <2>4
<1> QED
  BY <1>4 DEF Earliest

-----------------------------------------------------------------------------
(* The three kinds of file do not meet. *)

\* No introduced path is, holds or is in a file that is copied.
LEMMA IntroducedApart ==
  ASSUME scene \in Scenes, Vetted \/ Untouched, NEW p \in introduced, p \in Paths
  PROVE  /\ Vetted /\ Was[p] = Absent /\ Versions(p) # {} /\ Kept[p] = Absent
         /\ \A r \in FilesOf(Kept) : r # p /\ r # Under[p] /\ Under[r] # p
<1>1. Vetted /\ Was[p] = Absent /\ Versions(p) # {}
  BY DEF Vetted, Untouched
<1>2. Under[p] # None => Was[Under[p]] \notin Contents
  BY <1>1 DEF Vetted
<1>3. Kept[p] = Absent
  BY <1>1, WasAndKept, StandsApart
<1>4. ASSUME NEW r \in FilesOf(Kept) PROVE r # p /\ r # Under[p] /\ Under[r] # p
  <2>1. r \in Paths /\ Was[r] \in Contents
    BY WasAndKept, <1>4
  <2>2. Under[r] # None => Was[Under[r]] = Dir
    BY <2>1, WasAndKept, StandsApart DEF Shaped
  <2> QED
    BY <1>1, <1>2, <2>1, <2>2, StandsApart, PathsNest
<1> QED
  BY <1>1, <1>3, <1>4

\* No path that is written is, holds or is in a file of the user's that is not
\* copied.
LEMMA UncopiedApart ==
  ASSUME scene \in Scenes, Vetted, NEW p \in Paths, Versions(p) # {} \/ Kept[p] # Absent,
         NEW r \in Paths, Was[r] \in Contents, Kept[r] = Absent
  PROVE  r # p /\ r # Under[p] /\ Under[r] # p
<1>2. Versions(r) = {}
  BY StandsApart DEF Vetted
<1>3. r # p
  BY <1>2
<1>4. ASSUME r = Under[p] PROVE FALSE
  <2>1. Was[p] = Absent
    BY <1>4, WasAndKept, StandsApart, PathsNest DEF Shaped
  <2>2. Kept[p] = Absent /\ Versions(p) # {}
    BY <2>1, WasAndKept, StandsApart
  <2>3. CASE p \in introduced
    BY <2>3, <1>4, PathsNest DEF Vetted
  <2>4. CASE p \notin introduced
    BY <2>4, <2>2, <1>4 DEF Vetted
  <2> QED
    BY <2>3, <2>4
<1>5. ASSUME Under[r] = p PROVE FALSE
  <2>1. Was[p] = Dir
    BY <1>5, WasAndKept, StandsApart, PathsNest DEF Shaped
  <2>2. Kept[p] = Absent /\ Versions(p) # {}
    BY <2>1, WasAndKept, StandsApart
  <2> QED
    BY <2>1, <2>2, StandsApart DEF Vetted
<1> QED
  BY <1>3, <1>4, <1>5

\* A directory that was not there and is not the replay's to remove has nothing
\* recorded or copied in it.
LEMMA NothingRecordedUnder ==
  ASSUME scene \in Scenes, Vetted, NEW p \in Paths, NEW d \in Paths \ made,
         Under[p] = d, Was[d] = Absent
  PROVE  Versions(p) = {} /\ Kept[p] = Absent
<1>1. Was[p] = Absent /\ Under[p] # None
  BY WasAndKept, StandsApart, PathsNest DEF Shaped
<1>2. Kept[p] = Absent /\ Kept[d] = Absent
  BY <1>1, WasAndKept, StandsApart
<1>3. p \notin introduced
  BY <1>1 DEF Vetted
<1> QED
  BY <1>2, <1>3 DEF Vetted

-----------------------------------------------------------------------------
(* What an edit of the tree keeps of World. *)

\* The recording and what was there before do not change.
LEMMA SceneStays ==
  ASSUME scene' = scene
  PROVE  /\ Was' = Was /\ Kept' = Kept /\ First' = First /\ Declared' = Declared
         /\ FilesOf(First)' = FilesOf(First) /\ FilesOf(Kept)' = FilesOf(Kept)
         /\ \A p \in Paths : Versions(p)' = Versions(p)
<1>1. Was' = Was /\ First' = First /\ Declared' = Declared
  BY DEF Was, First, Declared
<1>2. Kept' = Kept
  BY <1>1 DEF Kept, Copied
<1>3. \A p \in Paths : Versions(p)' = Versions(p)
  BY DEF Versions, Trees
<1> QED
  BY <1>1, <1>2, <1>3 DEF FilesOf

LEMMA VettedStays ==
  ASSUME scene' = scene, introduced' = introduced, made' = made, introduced \subseteq Paths
  PROVE  Vetted => Vetted'
<1>1. /\ Was' = Was /\ Kept' = Kept /\ Declared' = Declared
      /\ \A p \in Paths : Versions(p)' = Versions(p)
  BY SceneStays
<1> QED
  BY <1>1 DEF Vetted

\* Git's write of one file: the directory it is in is there, and nothing is in it.
LEMMA PutWorks ==
  ASSUME NEW t \in [Paths -> Stands], NEW p \in Paths, NEW c \in Contents
  PROVE  /\ Put(t, p, c) \in [Paths -> Stands]
         /\ Put(t, p, c)[p] = c
         /\ \A q \in Paths : Put(t, p, c)[q] # Absent =>
              (Put(t, p, c)[q] = t[q] /\ Under[q] # p) \/ q = p \/ q = Under[p]
         /\ Under[p] # None => Put(t, p, c)[Under[p]] = Dir
         /\ \A q \in Paths : q # p /\ q # Under[p] /\ Under[q] # p => Put(t, p, c)[q] = t[q]
         /\ \A q \in Paths : q # p /\ Put(t, p, c)[q] # t[q] =>
              Put(t, p, c)[q] \in {Absent, Dir}
         /\ Shaped(t) => Shaped(Put(t, p, c))
<1> DEFINE u == Put(t, p, c)
<1>1. \A q \in Paths : u[q] = IF q = p THEN c ELSE IF q = Under[p] THEN Dir
                              ELSE IF Under[q] = p THEN Absent ELSE t[q]
  BY DEF Put
<1>2. u \in [Paths -> Stands]
  BY DEF Put, Stands
<1>3. Under[p] # None => Under[p] \in Paths /\ Under[p] # p
  BY PathsNest
<1> HIDE DEF u
<1>4. ASSUME Shaped(t) PROVE Shaped(u)
  <2> SUFFICES ASSUME NEW q \in Paths, Under[q] # None, u[q] # Absent PROVE u[Under[q]] = Dir
    BY DEF Shaped
  <2>1. Under[q] \in Paths /\ Under[Under[q]] = None /\ p # None
    BY PathsNest
  <2>2. CASE q = p
    BY <2>2, <2>1, <1>1, <1>3
  <2>3. CASE q # p
    <3>1. q # Under[p]
      BY PathsNest
    <3>2. Under[q] # p /\ u[q] = t[q]
      BY <2>3, <3>1, <1>1
    <3>3. t[Under[q]] = Dir
      BY <1>4, <3>2 DEF Shaped
    <3> QED
      BY <2>1, <3>2, <3>3, <1>1
  <2> QED
    BY <2>2, <2>3
<1>5. \A q \in Paths : q # p /\ u[q] # t[q] => u[q] \in {Absent, Dir}
  BY <1>1
<1>6. \A q \in Paths : u[q] # Absent => (u[q] = t[q] /\ Under[q] # p) \/ q = p \/ q = Under[p]
  BY <1>1
<1>7. \A q \in Paths : q # p /\ q # Under[p] /\ Under[q] # p => u[q] = t[q]
  BY <1>1
<1> QED
  BY <1>1, <1>2, <1>3, <1>4, <1>5, <1>6, <1>7 DEF u

\* Who writes a path may: the recording or the copy has it, or the agent strays to
\* a directory of the replay's, or to where no file stands in its way.
MayPut(p) ==
  \/ Versions(p) # {} \/ Kept[p] # Absent
  \/ p \in strayed' /\ p \in made
  \/ /\ p \in strayed' /\ tree[p] # Dir /\ Versions(p) = {}
     /\ Under[p] # None => tree[Under[p]] \notin Contents

LEMMA PutKeepsStanding ==
  ASSUME CheckoutTypeOK, World, Vetted, NEW p \in Paths, NEW c \in Contents, MayPut(p),
         tree' = Put(tree, p, c), scene' = scene,
         introduced' = introduced, made' = made, strayed \subseteq strayed'
  PROVE  Standing'
<1>0. /\ scene \in Scenes /\ Shaped(tree) /\ TheirsRight /\ Spared /\ Accounted /\ Filled
      /\ tree \in [Paths -> Stands] /\ introduced \subseteq Paths /\ made \subseteq Paths
  BY DEF World, Standing, CheckoutTypeOK
<1>1. /\ Was' = Was /\ Kept' = Kept /\ \A q \in Paths : Versions(q)' = Versions(q)
  BY SceneStays
<1>2. /\ tree'[p] = c
      /\ \A q \in Paths : q # p /\ q # Under[p] /\ Under[q] # p => tree'[q] = tree[q]
      /\ \A q \in Paths : q # p /\ tree'[q] # tree[q] => tree'[q] \in {Absent, Dir}
      /\ Shaped(tree)'
  <2>1. Shaped(Put(tree, p, c))
    BY <1>0, PutWorks
  <2> QED
    BY <1>0, <2>1, PutWorks DEF Shaped
<1>3. Spared'
  <2> SUFFICES ASSUME NEW r \in Paths, r \notin strayed', Was[r] \in Contents, Kept[r] = Absent
               PROVE  tree'[r] = Was[r]
    BY <1>1 DEF Spared
  <2>1. tree[r] = Was[r] /\ r \notin strayed
    BY <1>0 DEF Spared
  <2>2. Under[r] # None => tree[Under[r]] = Dir /\ Was[Under[r]] = Dir
    BY <2>1, <1>0, WasAndKept, StandsApart DEF Shaped
  <2>3. CASE Versions(p) # {} \/ Kept[p] # Absent
    <3>1. r # p /\ r # Under[p] /\ Under[r] # p
      BY <2>3, <1>0, UncopiedApart
    <3> QED
      BY <3>1, <2>1, <1>2
  <2>4. CASE p \in strayed' /\ p \in made
    <3>1. Was[p] = Absent /\ \E q \in introduced : Under[q] = p
      BY <2>4 DEF Vetted
    <3>2. Under[p] = None
      BY <3>1, <1>0, PathsNest
    <3>3. r # p /\ r # Under[p] /\ Under[r] # p
      BY <2>2, <2>4, <3>1, <3>2, PathsNest, StandsApart
    <3> QED
      BY <3>3, <2>1, <1>2
  <2>5. CASE /\ p \in strayed' /\ tree[p] # Dir
             /\ Under[p] # None => tree[Under[p]] \notin Contents
    <3>1. r # p /\ r # Under[p] /\ Under[r] # p
      BY <2>1, <2>2, <2>5, PathsNest
    <3> QED
      BY <3>1, <2>1, <1>2
  <2> QED
    BY <2>3, <2>4, <2>5 DEF MayPut
<1>4. Accounted'
  <2> SUFFICES ASSUME NEW r \in Paths, r \notin strayed', tree'[r] \in Contents,
                      Versions(r) = {}
               PROVE  Was[r] \in Contents
    BY <1>1 DEF Accounted
  <2>1. CASE r = p
    BY <2>1, <1>0, WasAndKept DEF MayPut
  <2>2. CASE r # p
    BY <2>2, <1>0, <1>2, StandsApart DEF Accounted
  <2> QED
    BY <2>1, <2>2
<1>5. Filled'
  <2> SUFFICES ASSUME NEW d \in Paths \ made, Was[d] = Absent, tree'[d] = Dir
               PROVE  \E q \in Paths : Under[q] = d /\ Versions(q) = {} /\ tree'[q] \in Contents
    BY <1>1 DEF Filled
  <2>1. d # p
    BY <1>2, StandsApart
  <2>2. CASE d = Under[p]
    <3>1. Versions(p) = {}
      BY <2>2, <1>0, NothingRecordedUnder
    <3> QED
      BY <2>2, <3>1, <1>2
  <2>3. CASE d # Under[p]
    <3>1. tree[d] = Dir /\ Under[d] # p
      <4>1. tree'[d] = IF d = p THEN c ELSE IF d = Under[p] THEN Dir
                       ELSE IF Under[d] = p THEN Absent ELSE tree[d]
        BY DEF Put
      <4> QED
        BY <4>1, <2>1, <2>3, StandsApart
    <3>2. PICK q \in Paths : Under[q] = d /\ Versions(q) = {} /\ tree[q] \in Contents
      BY <1>0, <3>1 DEF Filled
    <3>3. q # p /\ q # Under[p] /\ Under[q] # p
      BY <3>2, <2>1, <2>3, PathsNest
    <3> QED
      BY <3>2, <3>3, <1>2
  <2> QED
    BY <2>2, <2>3
<1> QED
  BY <1>2, <1>3, <1>4, <1>5 DEF Standing

\* A path is emptied: of what is copied, recorded or strayed to, with nothing in it.
LEMMA EmptyingKeepsStanding ==
  ASSUME CheckoutTypeOK, World, NEW p \in Paths,
         \A q \in Paths : Under[q] = p => tree[q] = Absent,
         Was[p] \in Contents => Kept[p] # Absent,
         Versions(p) # {} \/ Was[p] # Absent \/ tree[p] \notin Contents,
         tree' = [tree EXCEPT ![p] = Absent], scene' = scene,
         introduced' = introduced, made' = made, strayed' = strayed
  PROVE  Standing'
<1>0. /\ scene \in Scenes /\ Shaped(tree) /\ TheirsRight /\ Spared /\ Accounted /\ Filled
      /\ tree \in [Paths -> Stands]
  BY DEF World, Standing, CheckoutTypeOK
<1>1. /\ Was' = Was /\ Kept' = Kept /\ \A q \in Paths : Versions(q)' = Versions(q)
  BY SceneStays
<1>2. tree'[p] = Absent /\ \A q \in Paths : q # p => tree'[q] = tree[q]
  BY <1>0
<1>3. Shaped(tree)'
  BY <1>0, <1>2 DEF Shaped
<1>4. Spared'
  BY <1>0, <1>1, <1>2 DEF Spared
<1>5. Accounted'
  BY <1>0, <1>1, <1>2, StandsApart DEF Accounted
<1>6. Filled'
  <2> SUFFICES ASSUME NEW d \in Paths \ made, Was[d] = Absent, tree'[d] = Dir
               PROVE  \E q \in Paths : Under[q] = d /\ Versions(q) = {} /\ tree'[q] \in Contents
    BY <1>1 DEF Filled
  <2>1. tree[d] = Dir /\ d # p
    BY <1>2, StandsApart
  <2>2. PICK q \in Paths : Under[q] = d /\ Versions(q) = {} /\ tree[q] \in Contents
    BY <1>0, <2>1 DEF Filled
  <2>3. Under[q] # None /\ Was[q] = Absent
    BY <2>2, <1>0, WasAndKept, StandsApart, PathsNest DEF Shaped
  <2>4. q # p
    BY <2>2, <2>3
  <2> QED
    BY <2>2, <2>4, <1>2
<1> QED
  BY <1>3, <1>4, <1>5, <1>6 DEF Standing

\* Directories of the replay's go, each with nothing in it.
LEMMA DirsGoKeepsStanding ==
  ASSUME CheckoutTypeOK, World, NEW S \in SUBSET made,
         \A d \in S : tree[d] = Dir /\ \A q \in Paths : Under[q] = d => tree[q] = Absent,
         tree' = [p \in Paths |-> IF p \in S THEN Absent ELSE tree[p]], scene' = scene,
         introduced' = introduced, made' = made, strayed' = strayed
  PROVE  Standing'
<1>0. /\ scene \in Scenes /\ Shaped(tree) /\ Spared /\ Accounted /\ Filled
      /\ tree \in [Paths -> Stands] /\ made \subseteq Paths
  BY DEF World, Standing, CheckoutTypeOK
<1>1. /\ Was' = Was /\ Kept' = Kept /\ \A q \in Paths : Versions(q)' = Versions(q)
  BY SceneStays
<1>2. \A q \in Paths : tree'[q] = tree[q] \/ (q \in S /\ tree[q] = Dir /\ tree'[q] = Absent)
  OBVIOUS
<1>3. Shaped(tree)'
  <2> SUFFICES ASSUME NEW q \in Paths, Under[q] # None, tree'[q] # Absent
               PROVE  tree'[Under[q]] = Dir
    BY DEF Shaped
  <2>1. tree[q] # Absent /\ Under[q] \in Paths /\ tree[Under[q]] = Dir
    BY <1>0, <1>2, PathsNest DEF Shaped
  <2>2. Under[q] \notin S
    BY <2>1
  <2> QED
    BY <2>1, <2>2
<1>4. Spared'
  BY <1>0, <1>1, <1>2, StandsApart DEF Spared
<1>5. Accounted'
  BY <1>0, <1>1, <1>2, StandsApart DEF Accounted
<1>6. Filled'
  BY <1>0, <1>1, <1>2, StandsApart DEF Filled
<1> QED
  BY <1>3, <1>4, <1>5, <1>6 DEF Standing

\* What the user makes is at an introduced path, and is none of the recording's.
LEMMA TheirsPutKeepsTheirs ==
  ASSUME CheckoutTypeOK, World, Vetted, NEW p \in introduced, NEW c \in Contents \ Versions(p),
         theirs' = Put(theirs, p, c), scene' = scene, introduced' = introduced
  PROVE  TheirsRight'
<1>0. /\ scene \in Scenes /\ TheirsRight /\ theirs \in [Paths -> Stands] /\ p \in Paths
  BY DEF World, CheckoutTypeOK
<1>1. /\ Was' = Was /\ \A q \in Paths : Versions(q)' = Versions(q)
  BY SceneStays
<1>2. Was[p] = Absent /\ (Under[p] # None => Was[Under[p]] \notin Contents)
  BY DEF Vetted
<1>3. \A q \in Paths : theirs'[q] = IF q = p THEN c ELSE IF q = Under[p] THEN Dir
                                    ELSE IF Under[q] = p THEN Absent ELSE theirs[q]
  BY DEF Put
<1>4. \A q \in Paths : Under[q] = p => Was[q] = Absent
  BY <1>0, <1>2, WasAndKept, StandsApart, PathsNest DEF Shaped
<1> QED
  <2> SUFFICES ASSUME NEW q \in Paths
               PROVE  /\ Was[q] \in Contents => theirs'[q] = Was[q]
                      /\ theirs'[q] \in Contents =>
                           \/ theirs'[q] = Was[q]
                           \/ q \in introduced /\ theirs'[q] \notin Versions(q)
                      /\ theirs'[q] = Absent => Was[q] = Absent
    BY <1>1 DEF TheirsRight
  <2>1. CASE q = p
    BY <2>1, <1>2, <1>3, StandsApart
  <2>2. CASE q # p /\ q = Under[p]
    BY <2>2, <1>2, <1>3, StandsApart, PathsNest
  <2>3. CASE q # p /\ q # Under[p] /\ Under[q] = p
    BY <2>3, <1>3, <1>4, StandsApart
  <2>4. CASE q # p /\ q # Under[p] /\ Under[q] # p
    BY <2>4, <1>0, <1>3 DEF TheirsRight
  <2> QED
    BY <2>1, <2>2, <2>3, <2>4

LEMMA TheirsStays ==
  ASSUME theirs' = theirs, scene' = scene, introduced' = introduced
  PROVE  TheirsRight => TheirsRight'
<1>1. /\ Was' = Was /\ \A q \in Paths : Versions(q)' = Versions(q)
  BY SceneStays
<1> QED
  BY <1>1 DEF TheirsRight

-----------------------------------------------------------------------------
(* Steps that leave the tree alone. *)

Quiet == UNCHANGED <<scene, tree, aside, outside, introduced, made, theirs, strayed>>

LEMMA QuietKeeps ==
  ASSUME CheckoutTypeOK, World, OwnHeld, outside = Elsewhere, Quiet
  PROVE  /\ World' /\ OwnHeld' /\ outside' = Elsewhere'
         /\ (Vetted => Vetted') /\ (Untouched => Untouched')
         /\ Was' = Was /\ Kept' = Kept /\ FilesOf(First)' = FilesOf(First)
         /\ FilesOf(Kept)' = FilesOf(Kept) /\ Declared' = Declared
<1>0. /\ scene' = scene /\ tree' = tree /\ aside' = aside /\ outside' = outside
      /\ introduced' = introduced /\ made' = made /\ theirs' = theirs /\ strayed' = strayed
  BY DEF Quiet
<1>1. /\ Was' = Was /\ Kept' = Kept /\ FilesOf(First)' = FilesOf(First)
      /\ FilesOf(Kept)' = FilesOf(Kept) /\ Declared' = Declared
      /\ \A q \in Paths : Versions(q)' = Versions(q)
  BY <1>0, SceneStays
<1>2. TheirsRight'
  BY <1>0, TheirsStays DEF World
<1>3. Standing'
  BY <1>0, <1>1 DEF World, Standing, Shaped, Spared, Accounted, Filled
<1>4. World'
  BY <1>0, <1>2, <1>3 DEF World
<1>5. OwnHeld'
  BY <1>0 DEF OwnHeld
<1>6. outside' = Elsewhere'
  BY <1>0, <1>1 DEF Elsewhere
<1>7. Vetted => Vetted'
  BY <1>0, VettedStays DEF CheckoutTypeOK
<1>8. Untouched => Untouched'
  BY <1>0, <1>1 DEF Untouched
<1> QED
  BY <1>1, <1>4, <1>5, <1>6, <1>7, <1>8

\* While the command is at work, each of the user's files is somewhere.
LEMMA HeldAtWork ==
  ASSUME CheckoutInv, at \notin Over
  PROVE  HeldSomewhere
<1> SUFFICES ASSUME NEW p \in Paths \ strayed, theirs[p] \in Contents
             PROVE  \/ tree[p] = theirs[p] \/ aside[p] = theirs[p]
                    \/ copy # None /\ copy[p] = theirs[p]
  BY DEF HeldSomewhere
<1>1. /\ CheckoutTypeOK /\ World /\ OwnHeld /\ Steps
      /\ scene \in Scenes /\ TheirsRight /\ Spared
  BY DEF CheckoutInv, World, Standing
<1>2. CASE at \in Early
  BY <1>1, <1>2 DEF Steps, Untouched
<1>3. CASE at \notin Early
  <2>1. at \in Working \ {"copy"}
    BY <1>1, <1>3 DEF CheckoutTypeOK, Working, Early, Over
  <2>2. copy = Kept /\ Kept # None
    BY <1>1, <2>1, WasAndKept, CheckoutAssumption DEF Steps
  <2>3. CASE theirs[p] = Was[p] /\ Kept[p] # Absent
    BY <1>1, <2>2, <2>3, WasAndKept
  <2>4. CASE theirs[p] = Was[p] /\ Kept[p] = Absent
    BY <1>1, <2>4 DEF Spared
  <2>5. CASE p \in introduced
    BY <1>1, <2>5 DEF OwnHeld
  <2> QED
    BY <1>1, <2>3, <2>4, <2>5 DEF TheirsRight
<1> QED
  BY <1>2, <1>3

\* Nothing is missing, and nothing to be told, where nothing was done.
LEMMA UntouchedEnds ==
  ASSUME Untouched', \A p \in Paths : aside'[p] = Absent
  PROVE  Ended'
<1>1. tree' = theirs'
  BY DEF Untouched
<1>2. HeldSomewhere'
  BY <1>1 DEF HeldSomewhere
<1>3. ComesBack'
  BY <1>1, StandsApart DEF ComesBack
<1> QED
  BY <1>2, <1>3 DEF Ended

LEMMA DecidesKeeps ==
  ASSUME CheckoutInv, Decides
  PROVE  CheckoutInv'
<1>1. /\ CheckoutTypeOK /\ World /\ OwnHeld /\ outside = Elsewhere /\ Steps /\ Removal
      /\ at = "asked" /\ Quiet /\ UNCHANGED <<copy, todo, thrown, named, writes, faults>>
  BY DEF CheckoutInv, Decides, Quiet, treeVars, planVars, pastVars
<1>2. at' \in {"threw", "elsewhere", "unguarded", "copy"}
  BY DEF Decides, Way
<1>3. CheckoutTypeOK'
  BY <1>1, <1>2 DEF CheckoutTypeOK, Quiet, Working
<1>4. /\ World' /\ OwnHeld' /\ outside' = Elsewhere' /\ Untouched'
  BY <1>1, QuietKeeps DEF Steps, Early
<1>5. copy' = None /\ \A p \in Paths : aside'[p] = Absent
  BY <1>1 DEF Steps, Removal, Quiet, Removing, Over
<1>6. Steps'
  BY <1>2, <1>4, <1>5 DEF Steps, Early, Working
<1>7. Removal'
  BY <1>2, <1>5 DEF Removal, Removing
<1> QED
  BY <1>3, <1>4, <1>5, <1>6, <1>7, UntouchedEnds DEF CheckoutInv

LEMMA RunsUnrestoredKeeps ==
  ASSUME CheckoutInv, RunsUnrestored
  PROVE  CheckoutInv'
<1>1. /\ CheckoutTypeOK /\ World /\ OwnHeld /\ outside = Elsewhere /\ Steps /\ Removal
      /\ at \in {"elsewhere", "unguarded"} /\ at' = "returned"
      /\ Quiet /\ UNCHANGED <<copy, todo, thrown, named, writes, faults>>
  BY DEF CheckoutInv, RunsUnrestored, Quiet, treeVars, planVars, pastVars
<1>2. CheckoutTypeOK'
  BY <1>1 DEF CheckoutTypeOK, Quiet
<1>3. /\ World' /\ OwnHeld' /\ outside' = Elsewhere' /\ Untouched'
  BY <1>1, QuietKeeps DEF Steps, Early
<1>4. \A p \in Paths : aside'[p] = Absent
  BY <1>1 DEF Removal, Quiet, Removing, Over
<1>5. Steps' /\ Removal'
  BY <1>1, <1>3, <1>4 DEF Steps, Removal, Early, Working, Removing, Over
<1> QED
  BY <1>2, <1>3, <1>4, <1>5, UntouchedEnds DEF CheckoutInv

LEMMA TakesCopyKeeps ==
  ASSUME CheckoutInv, TakesCopy
  PROVE  CheckoutInv'
<1>1. /\ CheckoutTypeOK /\ World /\ OwnHeld /\ outside = Elsewhere /\ Steps /\ Removal
      /\ at = "copy" /\ at' = "check" /\ Quiet /\ UNCHANGED <<todo, thrown, writes, faults>>
  BY DEF CheckoutInv, TakesCopy, Quiet, treeVars, pastVars
<1>2. /\ World' /\ OwnHeld' /\ outside' = Elsewhere' /\ Untouched' /\ tree = Was /\ Kept' = Kept
  BY <1>1, QuietKeeps DEF Steps, Early, Untouched
<1>3. copy' = Kept
  BY <1>2 DEF TakesCopy, Kept
<1>4. CheckoutTypeOK'
  <2>1. copy' \in [Paths -> Contents \union {Absent}]
    BY <1>1, <1>3, WasAndKept DEF World
  <2>2. named' \subseteq Paths
    BY DEF TakesCopy
  <2> QED
    BY <1>1, <2>1, <2>2 DEF CheckoutTypeOK, Quiet, Working
<1>5. \A p \in Paths : aside'[p] = Absent
  BY <1>1 DEF Removal, Quiet, Removing, Over
<1>6. Steps' /\ Removal'
  BY <1>1, <1>2, <1>3, <1>5 DEF Steps, Removal, Early, Working, Removing
<1> QED
  BY <1>2, <1>4, <1>5, <1>6, UntouchedEnds DEF CheckoutInv

LEMMA CopyFailsKeeps ==
  ASSUME CheckoutInv, CopyFails
  PROVE  CheckoutInv'
<1>1. /\ CheckoutTypeOK /\ World /\ OwnHeld /\ outside = Elsewhere /\ Steps /\ Removal
      /\ at = "copy" /\ at' = "threw" /\ faults < MaxFaults /\ faults' = faults + 1
      /\ Quiet /\ UNCHANGED <<copy, todo, thrown, named, writes>>
  BY DEF CheckoutInv, CopyFails, Quiet, treeVars, planVars, pastVars
<1>2. CheckoutTypeOK'
  BY <1>1, CheckoutAssumption DEF CheckoutTypeOK, Quiet
<1>3. /\ World' /\ OwnHeld' /\ outside' = Elsewhere' /\ Untouched'
  BY <1>1, QuietKeeps DEF Steps, Early
<1>4. \A p \in Paths : aside'[p] = Absent
  BY <1>1 DEF Removal, Quiet, Removing, Over
<1>5. Steps' /\ Removal'
  BY <1>1, <1>3, <1>4 DEF Steps, Removal, Early, Working, Removing, Over
<1> QED
  BY <1>2, <1>3, <1>4, <1>5, UntouchedEnds DEF CheckoutInv

\* The check refuses and nothing has been done, or it answers for every write.
LEMMA ChecksVets ==
  ASSUME CheckoutInv, Checks, at' = "reset"
  PROVE  Vetted' /\ introduced' \subseteq {p \in Paths : Was[p] = Absent}
<1>1. /\ scene \in Scenes /\ tree = Was /\ copy = Kept /\ at = "check" /\ scene' = scene
  BY DEF CheckoutInv, World, Steps, Untouched, Early, Working, Checks
<1>2. /\ Resettable /\ Overwritten = {}
      /\ introduced' = {p \in Uncopied : InTheWay(p) = None}
      /\ made' = {d \in {Under[p] : p \in introduced'} \ {None} : tree[d] = Absent}
  BY DEF Checks
<1>3. /\ Was' = Was /\ Kept' = Kept /\ Declared' = Declared
      /\ \A q \in Paths : Versions(q)' = Versions(q)
  BY <1>1, SceneStays
<1>4. /\ Was \in [Paths -> Stands] /\ Shaped(Was)
      /\ Kept \in [Paths -> Contents \union {Absent}]
  BY <1>1, WasAndKept
<1>5. Uncopied = {p \in Paths : Versions(p) # {} /\ Kept[p] = Absent}
  BY <1>1 DEF Uncopied, Versions, FilesOf
<1>6. \A p \in Paths :
        InTheWay(p) = IF Under[p] # None /\ Was[Under[p]] \in Contents THEN Under[p]
                      ELSE IF Was[p] # Absent THEN p ELSE None
  BY <1>1 DEF InTheWay
<1>7. \A p \in Uncopied : InTheWay(p) = None \/ (InTheWay(p) # p /\ Kept[InTheWay(p)] # Absent)
  BY <1>1, <1>2 DEF Overwritten
<1>8. \A p \in Declared : Was[p] \in Contents => Kept[p] # Absent
  BY <1>1, <1>2 DEF Resettable
<1>9. ASSUME NEW p \in Paths, Versions(p) # {}, Kept[p] = Absent, p \notin introduced'
      PROVE  Was[p] = Absent /\ Under[p] # None /\ Kept[Under[p]] # Absent
  <2>1. p \in Uncopied /\ InTheWay(p) # None
    BY <1>2, <1>5, <1>9
  <2>2. InTheWay(p) # p /\ Kept[InTheWay(p)] # Absent
    BY <1>7, <2>1
  <2>3. Under[p] # None /\ Was[Under[p]] \in Contents /\ InTheWay(p) = Under[p]
    BY <1>6, <2>1, <2>2
  <2> QED
    BY <1>4, <2>2, <2>3, StandsApart DEF Shaped
<1>10. ASSUME NEW p \in introduced'
       PROVE  /\ p \in Paths /\ Versions(p) # {} /\ Was[p] = Absent
              /\ Under[p] # None => Was[Under[p]] \notin Contents
  BY <1>2, <1>5, <1>6, PathsNest
<1>11. \A p \in introduced' : Under[p] # None /\ Was[Under[p]] = Absent => Under[p] \in made'
  BY <1>1, <1>2
<1>12. \A d \in made' : Was[d] = Absent /\ \E p \in introduced' : Under[p] = d
  BY <1>1, <1>2
<1> QED
  BY <1>3, <1>8, <1>9, <1>10, <1>11, <1>12 DEF Vetted

LEMMA ChecksKeeps ==
  ASSUME CheckoutInv, Checks
  PROVE  CheckoutInv'
<1>1. /\ CheckoutTypeOK /\ World /\ OwnHeld /\ outside = Elsewhere /\ Steps /\ Removal
      /\ at = "check" /\ copy = Kept /\ Untouched /\ scene \in Scenes /\ TheirsRight
      /\ UNCHANGED <<copy, scene, tree, aside, outside, named, theirs, strayed, writes, faults>>
  BY DEF CheckoutInv, World, Steps, Early, Working, Checks, treeVars, pastVars
<1>2. /\ Was' = Was /\ Kept' = Kept /\ Declared' = Declared
      /\ FilesOf(Kept)' = FilesOf(Kept)
      /\ \A q \in Paths : Versions(q)' = Versions(q)
  BY <1>1, SceneStays
<1>3. \A p \in Paths : aside'[p] = Absent
  BY <1>1 DEF Removal, Removing, Over
<1>4. outside' = Elsewhere'
  BY <1>1, <1>2 DEF Elsewhere
<1>5. CASE at' = "reset"
  <2>1. Vetted' /\ introduced' \subseteq {p \in Paths : Was[p] = Absent}
    BY <1>5, ChecksVets
  <2>2. todo' = Declared /\ made' \subseteq Paths
    BY <1>5, PathsNest, <2>1 DEF Checks
  <2>3. CheckoutTypeOK'
    BY <1>1, <1>5, <2>1, <2>2 DEF CheckoutTypeOK, Working, Declared, Checks
  <2>4. World'
    <3>1. TheirsRight'
      BY <1>1, <1>2 DEF TheirsRight, Untouched
    <3>2. Standing'
      BY <1>1, <1>2, WasAndKept, StandsApart
         DEF Standing, Shaped, Spared, Accounted, Filled, Untouched
    <3> QED
      BY <1>1, <3>1, <3>2 DEF World
  <2>5. OwnHeld'
    BY <1>1, <2>1, StandsApart DEF OwnHeld, Untouched
  <2>6. \A p \in Paths : Under[p] \in Declared => p \in Declared
    <3>1. None \notin scene.roots
      BY <1>1, PathsNest DEF CheckoutTypeOK, Scene
    <3> QED
      BY <3>1, PathsNest DEF Declared
  <2>7. Steps'
    BY <1>1, <1>2, <1>5, <2>1, <2>2, <2>6 DEF Steps, Untouched, Early, Working
  <2>8. Removal' /\ Ended'
    BY <1>3, <1>5 DEF Removal, Ended, Removing, Over
  <2> QED
    BY <1>4, <2>3, <2>4, <2>5, <2>7, <2>8 DEF CheckoutInv
<1>6. CASE at' # "reset"
  <2>1. /\ at' = "put back" /\ todo' = FilesOf(Kept) /\ thrown' = TRUE
        /\ introduced' = introduced /\ made' = made
    BY <1>1, <1>6 DEF Checks
  <2>2. Quiet
    BY <1>1, <2>1 DEF Quiet
  <2>3. /\ World' /\ OwnHeld' /\ Untouched'
    BY <1>1, <2>2, QuietKeeps
  <2>4. CheckoutTypeOK'
    BY <1>1, <2>1 DEF CheckoutTypeOK, Working, FilesOf
  <2>5. Steps'
    BY <1>1, <1>2, <2>1, <2>3 DEF Steps, Early, Working
  <2>6. Removal' /\ Ended'
    BY <1>3, <2>1 DEF Removal, Ended, Removing, Over
  <2> QED
    BY <1>4, <2>3, <2>4, <2>5, <2>6 DEF CheckoutInv
<1> QED
  BY <1>5, <1>6

LEMMA ResetDoneKeeps ==
  ASSUME CheckoutInv, ResetDone
  PROVE  CheckoutInv'
<1>1. /\ CheckoutTypeOK /\ World /\ OwnHeld /\ outside = Elsewhere /\ Steps /\ Removal
      /\ at = "reset" /\ at' = "restore" /\ todo' = FilesOf(First)
      /\ Quiet /\ UNCHANGED <<copy, thrown, named, writes, faults>>
  BY DEF CheckoutInv, ResetDone, Quiet, treeVars, planVars, pastVars
<1>2. CheckoutTypeOK'
  BY <1>1 DEF CheckoutTypeOK, Quiet, Working, FilesOf
<1>3. /\ World' /\ OwnHeld' /\ outside' = Elsewhere' /\ Vetted'
      /\ FilesOf(First)' = FilesOf(First) /\ Was' = Was /\ Kept' = Kept
  BY <1>1, QuietKeeps DEF Steps
<1>4. Steps'
  BY <1>1, <1>3 DEF Steps, Early, Working, Quiet
<1>5. Removal' /\ Ended'
  BY <1>1 DEF Removal, Ended, Removing, Over, Quiet
<1> QED
  BY <1>2, <1>3, <1>4, <1>5 DEF CheckoutInv

LEMMA RestoredKeeps ==
  ASSUME CheckoutInv, Restored
  PROVE  CheckoutInv'
<1>1. /\ CheckoutTypeOK /\ World /\ OwnHeld /\ outside = Elsewhere /\ Steps /\ Removal
      /\ at = "restore" /\ at' = "running"
      /\ Quiet /\ UNCHANGED <<copy, todo, thrown, named, writes, faults>>
  BY DEF CheckoutInv, Restored, Quiet, treeVars, planVars, pastVars
<1>2. CheckoutTypeOK'
  BY <1>1 DEF CheckoutTypeOK, Quiet, Working
<1>3. /\ World' /\ OwnHeld' /\ outside' = Elsewhere' /\ Vetted' /\ Kept' = Kept
  BY <1>1, QuietKeeps DEF Steps
<1>4. Steps'
  BY <1>1, <1>3 DEF Steps, Early, Working
<1>5. Removal' /\ Ended'
  BY <1>1 DEF Removal, Ended, Removing, Over, Quiet
<1> QED
  BY <1>2, <1>3, <1>4, <1>5 DEF CheckoutInv

\* The put-back has every file of the copy before it.
LEMMA TurnsBackKeeps ==
  ASSUME CheckoutInv, Throws \/ AgentDone
  PROVE  CheckoutInv'
<1>1. /\ CheckoutTypeOK /\ World /\ OwnHeld /\ outside = Elsewhere /\ Steps /\ Removal
      /\ at \in {"reset", "restore", "running"} /\ at' = "put back" /\ todo' = FilesOf(copy)
      /\ Quiet /\ UNCHANGED <<copy, named, writes>> /\ thrown' \in {thrown, TRUE}
  BY DEF CheckoutInv, Throws, AgentDone, Quiet, treeVars, planVars, pastVars
<1>2. faults' \in 0..MaxFaults
  <2>1. faults \in 0..MaxFaults /\ MaxFaults \in Nat
    BY <1>1, CheckoutAssumption DEF CheckoutTypeOK
  <2>2. faults' = faults \/ (faults < MaxFaults /\ faults' = faults + 1)
    BY DEF Throws, AgentDone
  <2> QED
    BY <2>1, <2>2
<1>3. CheckoutTypeOK'
  BY <1>1, <1>2 DEF CheckoutTypeOK, Quiet, Working, FilesOf
<1>4. copy = Kept
  BY <1>1 DEF Steps, Working
<1>5. /\ World' /\ OwnHeld' /\ outside' = Elsewhere' /\ Vetted'
      /\ Kept' = Kept /\ FilesOf(Kept)' = FilesOf(Kept)
  BY <1>1, QuietKeeps DEF Steps
<1>6. Steps'
  BY <1>1, <1>4, <1>5 DEF Steps, Early, Working
<1>7. Removal' /\ Ended'
  BY <1>1 DEF Removal, Ended, Removing, Over, Quiet
<1> QED
  BY <1>3, <1>5, <1>6, <1>7 DEF CheckoutInv

\* Every copied file is back, so what is left is what the recording introduced.
LEMMA PutBackDoneKeeps ==
  ASSUME CheckoutInv, PutBackDone
  PROVE  CheckoutInv'
<1>1. /\ CheckoutTypeOK /\ World /\ OwnHeld /\ outside = Elsewhere /\ Steps /\ Removal
      /\ at = "put back" /\ at' = "take" /\ todo = {} /\ todo' = introduced
      /\ Quiet /\ UNCHANGED <<copy, thrown, named, writes, faults>>
  BY DEF CheckoutInv, PutBackDone, Taken, Quiet, treeVars, planVars, pastVars
<1>2. CheckoutTypeOK'
  BY <1>1 DEF CheckoutTypeOK, Quiet, Working
<1>3. /\ World' /\ OwnHeld' /\ outside' = Elsewhere' /\ (Vetted => Vetted')
      /\ (Untouched => Untouched') /\ Was' = Was
      /\ Kept' = Kept /\ FilesOf(Kept)' = FilesOf(Kept)
  BY <1>1, QuietKeeps
<1>4. \A p \in FilesOf(Kept) : tree[p] = Kept[p]
  BY <1>1 DEF Steps
<1>5. ASSUME NEW p \in Paths \ strayed, theirs[p] = Absent, tree[p] \in Contents
      PROVE  p \in introduced
  <2>1. scene \in Scenes /\ TheirsRight /\ Accounted /\ Shaped(tree)
    BY <1>1 DEF World, Standing
  <2>2. Was[p] = Absent /\ Versions(p) # {} /\ Kept[p] = Absent
    BY <1>5, <2>1, WasAndKept, StandsApart DEF TheirsRight, Accounted
  <2>3. Vetted
    BY <1>1, <1>5, <2>2, StandsApart DEF Steps, Untouched
  <2>4. SUFFICES ASSUME p \notin introduced PROVE FALSE
    OBVIOUS
  <2>5. Under[p] # None /\ Kept[Under[p]] # Absent /\ Under[p] \in Paths
    BY <2>2, <2>3, <2>4, PathsNest DEF Vetted
  <2>6. tree[Under[p]] \in Contents
    BY <1>4, <2>1, <2>5, WasAndKept
  <2> QED
    BY <1>5, <2>1, <2>5, <2>6, StandsApart DEF Shaped
<1>6. Steps'
  BY <1>1, <1>3 DEF Steps, Early, Working
<1>7. Removal'
  BY <1>1, <1>3, <1>4, <1>5 DEF Removal, Removing, Over, Quiet
<1>8. Ended'
  BY <1>1 DEF Ended, Over
<1> QED
  BY <1>2, <1>3, <1>6, <1>7, <1>8 DEF CheckoutInv

\* What is nowhere else is in the copy, so the copy is kept.
LEMMA StopsShortKeeps ==
  ASSUME CheckoutInv, PutBackFails \/ Dies
  PROVE  CheckoutInv'
<1>1. /\ CheckoutTypeOK /\ World /\ OwnHeld /\ outside = Elsewhere /\ Steps /\ Removal
      /\ at \in Working /\ at' \in {"threw", "killed"} /\ (at' = "threw" => named' = Paths)
      /\ Quiet /\ UNCHANGED <<copy, todo, thrown, writes>> /\ named' \in {named, Paths}
      /\ faults < MaxFaults /\ faults' = faults + 1
  BY DEF CheckoutInv, PutBackFails, Dies, KeepsCopy, Quiet, treeVars, planVars, pastVars,
         Working
<1>2. CheckoutTypeOK'
  <2>1. faults' \in 0..MaxFaults
    BY <1>1, CheckoutAssumption DEF CheckoutTypeOK
  <2> QED
    BY <1>1, <2>1 DEF CheckoutTypeOK, Quiet
<1>3. /\ World' /\ OwnHeld' /\ outside' = Elsewhere' /\ (Vetted => Vetted')
      /\ (Untouched => Untouched')
  BY <1>1, QuietKeeps
<1>4. HeldSomewhere'
  <2>1. HeldSomewhere
    BY <1>1, HeldAtWork DEF Working, Over
  <2> QED
    BY <1>1, <2>1 DEF HeldSomewhere, Quiet
<1>5. ComesBack'
  BY <1>1 DEF ComesBack
<1>6. Steps' /\ Removal'
  BY <1>1, <1>3 DEF Steps, Removal, Early, Working, Removing, Over
<1> QED
  BY <1>2, <1>3, <1>4, <1>5, <1>6 DEF CheckoutInv, Ended

\* With every step of the put-back and the removal behind it, the tree is the
\* user's again.
LEMMA BackAtLast ==
  ASSUME CheckoutInv, at = "tidy"
  PROVE  \A p \in Paths \ (named \union strayed) :
           /\ aside[p] = Absent
           /\ theirs[p] \in Contents => tree[p] = theirs[p]
           /\ theirs[p] = Absent => tree[p] \in {Absent, Dir}
           /\ theirs[p] = Absent /\ tree[p] = Dir =>
                \E q \in Paths : Under[q] = p /\ tree[q] # Absent
<1> SUFFICES ASSUME NEW p \in Paths, p \notin named, p \notin strayed
             PROVE  /\ aside[p] = Absent
                    /\ theirs[p] \in Contents => tree[p] = theirs[p]
                    /\ theirs[p] = Absent => tree[p] \in {Absent, Dir}
                    /\ theirs[p] = Absent /\ tree[p] = Dir =>
                         \E q \in Paths : Under[q] = p /\ tree[q] # Absent
  OBVIOUS
<1>1. /\ CheckoutTypeOK /\ OwnHeld /\ Removal /\ scene \in Scenes /\ TheirsRight
      /\ Spared /\ Filled /\ todo = {}
  BY DEF CheckoutInv, World, Standing, Removal
<1>2. aside[p] = Absent
  BY <1>1 DEF Removal, Removing
<1>3. ASSUME theirs[p] \in Contents PROVE tree[p] = theirs[p]
  <2>1. CASE theirs[p] = Was[p] /\ Kept[p] # Absent
    BY <1>1, <2>1, WasAndKept DEF Removal, Removing
  <2>2. CASE theirs[p] = Was[p] /\ Kept[p] = Absent
    BY <1>1, <1>3, <2>2 DEF Spared
  <2>3. CASE p \in introduced
    BY <1>1, <1>2, <1>3, <2>3, StandsApart DEF OwnHeld
  <2> QED
    BY <1>1, <1>3, <2>1, <2>2, <2>3 DEF TheirsRight
<1>4. ASSUME theirs[p] = Absent PROVE tree[p] \in {Absent, Dir}
  BY <1>1, <1>4 DEF Removal, Removing, CheckoutTypeOK, Stands
<1>5. ASSUME theirs[p] = Absent, tree[p] = Dir
      PROVE  \E q \in Paths : Under[q] = p /\ tree[q] # Absent
  <2>1. CASE p \in made
    BY <1>1, <1>5, <2>1 DEF Removal
  <2>2. CASE p \notin made
    BY <1>1, <1>5, <2>2, StandsApart DEF TheirsRight, Filled
  <2> QED
    BY <2>1, <2>2
<1> QED
  BY <1>2, <1>3, <1>4, <1>5

LEMMA RemovesCopyKeeps ==
  ASSUME CheckoutInv, RemovesCopy
  PROVE  CheckoutInv'
<1>1. /\ CheckoutTypeOK /\ World /\ OwnHeld /\ outside = Elsewhere /\ Steps /\ Removal
      /\ at = "tidy" /\ at' \in {"threw", "returned"} /\ copy' = None
      /\ Quiet /\ UNCHANGED <<todo, thrown, named, writes, faults>>
  BY DEF CheckoutInv, RemovesCopy, Quiet, treeVars, pastVars
<1>2. CheckoutTypeOK'
  BY <1>1 DEF CheckoutTypeOK, Quiet
<1>3. /\ World' /\ OwnHeld' /\ outside' = Elsewhere' /\ (Vetted => Vetted')
      /\ (Untouched => Untouched')
  BY <1>1, QuietKeeps
<1>4. /\ tree' = tree /\ aside' = aside /\ theirs' = theirs
      /\ named' = named /\ strayed' = strayed
  BY <1>1 DEF Quiet
<1>5. ComesBack'
  BY <1>1, <1>4, BackAtLast DEF ComesBack
<1>6. HeldSomewhere'
  <2>1. \A p \in FilesOf(Kept) : tree[p] = Kept[p]
    BY <1>1 DEF Removal, Removing
  <2>2. HeldSomewhere /\ copy = Kept /\ scene \in Scenes
    BY <1>1, HeldAtWork DEF Over, Steps, Working, World
  <2>3. ASSUME NEW p \in Paths, theirs[p] \in Contents, Kept[p] = theirs[p]
        PROVE  tree[p] = theirs[p]
    BY <2>1, <2>2, <2>3, WasAndKept, StandsApart
  <2> QED
    BY <1>4, <2>2, <2>3 DEF HeldSomewhere
<1>7. Steps' /\ Removal'
  BY <1>1, <1>3 DEF Steps, Removal, Early, Working, Removing, Over
<1> QED
  BY <1>2, <1>3, <1>5, <1>6, <1>7 DEF CheckoutInv, Ended

-----------------------------------------------------------------------------
(* Steps that write, or remove. *)

Fixed == UNCHANGED <<scene, outside, introduced, made>>

LEMMA FixedKeeps ==
  ASSUME CheckoutTypeOK, outside = Elsewhere, Fixed
  PROVE  /\ outside' = Elsewhere' /\ (Vetted => Vetted')
         /\ scene' = scene /\ introduced' = introduced /\ made' = made
         /\ Was' = Was /\ Kept' = Kept /\ FilesOf(First)' = FilesOf(First)
         /\ FilesOf(Kept)' = FilesOf(Kept) /\ Declared' = Declared
<1>1. /\ scene' = scene /\ outside' = outside /\ introduced' = introduced /\ made' = made
  BY DEF Fixed
<1>2. /\ Was' = Was /\ Kept' = Kept /\ FilesOf(First)' = FilesOf(First)
      /\ FilesOf(Kept)' = FilesOf(Kept) /\ Declared' = Declared
      /\ \A q \in Paths : Versions(q)' = Versions(q)
  BY <1>1, SceneStays
<1>3. outside' = Elsewhere'
  BY <1>1, <1>2 DEF Elsewhere
<1>4. Vetted => Vetted'
  BY <1>1, VettedStays DEF CheckoutTypeOK
<1> QED
  BY <1>1, <1>2, <1>3, <1>4

\* A write clear of what is the user's loses none of it.
LEMMA PutKeepsOwn ==
  ASSUME CheckoutTypeOK, OwnHeld, NEW p \in Paths, NEW c \in Contents,
         tree' = Put(tree, p, c), theirs' = theirs, aside' = aside, introduced' = introduced,
         \A q \in introduced : theirs[q] \in Contents /\ tree[q] = theirs[q] =>
           q # p /\ q # Under[p] /\ Under[q] # p
  PROVE  OwnHeld'
<1>1. \A q \in Paths : q # p /\ q # Under[p] /\ Under[q] # p => tree'[q] = tree[q]
  BY PutWorks DEF CheckoutTypeOK
<1> QED
  BY <1>1 DEF OwnHeld, CheckoutTypeOK

LEMMA ResetsKeeps ==
  ASSUME CheckoutInv, Resets
  PROVE  CheckoutInv'
<1>1. /\ CheckoutTypeOK /\ World /\ OwnHeld /\ outside = Elsewhere /\ Steps /\ Removal
      /\ at = "reset" /\ at' = at /\ Fixed
      /\ UNCHANGED <<aside, copy, thrown, named, theirs, strayed, writes, faults>>
  BY DEF CheckoutInv, Resets, Fixed, planVars, pastVars
<1>2. PICK p \in todo : /\ \A q \in todo : Under[q] # p
                        /\ tree' = [tree EXCEPT ![p] = Absent]
                        /\ todo' = todo \ {p}
  BY DEF Resets
<1>3. /\ Vetted /\ copy = Kept /\ theirs = Was /\ strayed = {} /\ todo \subseteq Declared
      /\ p \in Paths /\ \A q \in Paths : tree[q] \in {Was[q], Absent}
      /\ \A q \in Paths : Under[q] \in todo => tree[q] = Absent \/ q \in todo
  BY <1>1 DEF Steps, Working, CheckoutTypeOK
<1>4. /\ outside' = Elsewhere' /\ Vetted' /\ scene' = scene /\ introduced' = introduced
      /\ made' = made /\ Was' = Was /\ Kept' = Kept /\ Declared' = Declared
  BY <1>1, <1>3, FixedKeeps
<1>5. /\ tree' \in [Paths -> Stands]
      /\ \A q \in Paths : tree'[q] = IF q = p THEN Absent ELSE tree[q]
  BY <1>1, <1>2 DEF CheckoutTypeOK, Stands
<1>6. CheckoutTypeOK'
  BY <1>1, <1>2, <1>4, <1>5 DEF CheckoutTypeOK, Fixed
<1>7. World'
  <2>1. \A q \in Paths : Under[q] = p => tree[q] = Absent
    BY <1>2, <1>3
  <2>2. Was[p] \in Contents => Kept[p] # Absent
    BY <1>2, <1>3 DEF Vetted
  <2>3. Was[p] # Absent \/ tree[p] \notin Contents
    BY <1>3, StandsApart
  <2>4. Standing'
    BY <1>1, <1>2, <1>3, <1>4, <2>1, <2>2, <2>3, EmptyingKeepsStanding
  <2>5. TheirsRight'
    BY <1>1, <1>4, TheirsStays DEF World
  <2> QED
    BY <1>1, <1>4, <2>4, <2>5 DEF World
<1>8. OwnHeld'
  BY <1>1, <1>3, <1>4, StandsApart DEF OwnHeld, Vetted
<1>9. Steps'
  <2>1. todo' \subseteq Declared /\ \A q \in Paths : tree'[q] \in {Was[q], Absent}
    BY <1>2, <1>3, <1>5
  <2>2. \A q \in Paths : Under[q] \in todo' => tree'[q] = Absent \/ q \in todo'
    BY <1>2, <1>3, <1>5
  <2> QED
    BY <1>1, <1>3, <1>4, <2>1, <2>2 DEF Steps, Early, Working
<1>10. Removal' /\ Ended'
  BY <1>1 DEF Removal, Ended, Removing, Over
<1> QED
  BY <1>4, <1>6, <1>7, <1>8, <1>9, <1>10 DEF CheckoutInv

LEMMA RestoresKeeps ==
  ASSUME CheckoutInv, Restores
  PROVE  CheckoutInv'
<1> DEFINE p == Earliest(todo)
<1>1. /\ CheckoutTypeOK /\ World /\ OwnHeld /\ outside = Elsewhere /\ Steps /\ Removal
      /\ at = "restore" /\ at' = at /\ Fixed /\ todo # {} /\ todo' = todo \ {p}
      /\ tree' = Put(tree, p, First[p])
      /\ UNCHANGED <<aside, copy, thrown, named, theirs, strayed, writes, faults>>
  BY DEF CheckoutInv, Restores, Fixed, planVars, pastVars
<1>2. /\ Vetted /\ copy = Kept /\ theirs = Was /\ strayed = {} /\ todo \subseteq FilesOf(First)
  BY <1>1 DEF Steps, Working
<1>3. p \in todo /\ p \in Paths /\ p \in FilesOf(First)
  BY <1>1, <1>2, EarliestIsOne DEF CheckoutTypeOK
<1> HIDE DEF p
<1>4. First[p] \in Contents /\ Versions(p) # {}
  BY <1>1, <1>3, VersionsAreContents DEF FilesOf, World
<1>5. /\ outside' = Elsewhere' /\ Vetted' /\ scene' = scene /\ introduced' = introduced
      /\ made' = made /\ Was' = Was /\ Kept' = Kept /\ FilesOf(First)' = FilesOf(First)
  BY <1>1, <1>2, FixedKeeps
<1>6. tree' \in [Paths -> Stands]
  BY <1>1, <1>3, <1>4, PutWorks DEF CheckoutTypeOK
<1>7. CheckoutTypeOK'
  BY <1>1, <1>5, <1>6 DEF CheckoutTypeOK, Fixed
<1>8. World'
  <2>1. Standing'
    BY <1>1, <1>2, <1>3, <1>4, <1>5, PutKeepsStanding DEF MayPut
  <2>2. TheirsRight'
    BY <1>1, <1>5, TheirsStays DEF World
  <2> QED
    BY <1>1, <1>5, <2>1, <2>2 DEF World
<1>9. OwnHeld'
  BY <1>1, <1>2, <1>5, StandsApart DEF OwnHeld, Vetted
<1>10. Steps'
  BY <1>1, <1>2, <1>5 DEF Steps, Early, Working
<1>11. Removal' /\ Ended'
  BY <1>1 DEF Removal, Ended, Removing, Over
<1> QED
  BY <1>5, <1>7, <1>8, <1>9, <1>10, <1>11 DEF CheckoutInv

\* Putting back what was never written over changes nothing.
LEMMA PutBackOfUntouched ==
  ASSUME CheckoutTypeOK, scene \in Scenes, Untouched, NEW p \in FilesOf(Kept),
         tree' = Put(tree, p, Kept[p])
  PROVE  tree' = tree
<1>1. /\ tree = Was /\ Shaped(Was) /\ tree \in [Paths -> Stands]
      /\ p \in Paths /\ Was[p] \in Contents /\ Kept[p] = Was[p]
  BY WasAndKept DEF Untouched, CheckoutTypeOK
<1>2. Under[p] # None => tree[Under[p]] = Dir
  BY <1>1, StandsApart DEF Shaped
<1>3. \A q \in Paths : Under[q] = p => tree[q] = Absent
  BY <1>1, StandsApart, PathsNest DEF Shaped
<1>4. \A q \in Paths : tree'[q] = tree[q]
  BY <1>1, <1>2, <1>3, PathsNest DEF Put
<1>5. tree' \in [Paths -> Stands]
  BY <1>1, PutWorks
<1> QED
  BY <1>1, <1>4, <1>5

LEMMA PutsBackKeeps ==
  ASSUME CheckoutInv, PutsBack
  PROVE  CheckoutInv'
<1> DEFINE p == Earliest(todo)
<1>1. /\ CheckoutTypeOK /\ World /\ OwnHeld /\ outside = Elsewhere /\ Steps /\ Removal
      /\ at = "put back" /\ at' = at /\ Fixed /\ todo # {} /\ todo' = todo \ {p}
      /\ tree' = Put(tree, p, copy[p])
      /\ UNCHANGED <<aside, copy, thrown, named, theirs, strayed, writes, faults>>
  BY DEF CheckoutInv, PutsBack, Fixed, planVars, pastVars
<1>2. /\ copy = Kept /\ (Untouched \/ Vetted) /\ todo \subseteq FilesOf(Kept)
      /\ \A q \in FilesOf(Kept) \ todo : tree[q] = Kept[q]
  BY <1>1 DEF Steps, Working
<1>3. p \in todo /\ p \in Paths /\ p \in FilesOf(Kept)
  BY <1>1, <1>2, EarliestIsOne DEF CheckoutTypeOK
<1> HIDE DEF p
<1>4. Kept[p] \in Contents /\ Kept[p] # Absent /\ scene \in Scenes
  BY <1>1, <1>3, StandsApart DEF FilesOf, World
<1>5. /\ outside' = Elsewhere' /\ (Vetted => Vetted') /\ scene' = scene
      /\ introduced' = introduced /\ made' = made /\ Was' = Was
      /\ Kept' = Kept /\ FilesOf(Kept)' = FilesOf(Kept)
  BY <1>1, FixedKeeps
<1>6. tree' \in [Paths -> Stands]
  BY <1>1, <1>2, <1>3, <1>4, PutWorks DEF CheckoutTypeOK
<1>7. CheckoutTypeOK'
  BY <1>1, <1>5, <1>6 DEF CheckoutTypeOK, Fixed
<1>8. \A q \in FilesOf(Kept) \ todo' : tree'[q] = Kept[q]
  <2> SUFFICES ASSUME NEW q \in FilesOf(Kept), q \notin todo' PROVE tree'[q] = Kept[q]
    OBVIOUS
  <2>1. /\ q \in Paths /\ Was[q] \in Contents /\ Was[p] \in Contents
        /\ Under[q] # None => Was[Under[q]] = Dir
        /\ Under[p] # None => Was[Under[p]] = Dir
    BY <1>3, <1>4, WasAndKept, StandsApart DEF Shaped
  <2>2. /\ tree'[p] = Kept[p]
        /\ \A r \in Paths : r # p /\ r # Under[p] /\ Under[r] # p => tree'[r] = tree[r]
    <3>1. tree \in [Paths -> Stands] /\ tree' = Put(tree, p, Kept[p])
      BY <1>1, <1>2 DEF CheckoutTypeOK
    <3> QED
      BY <1>3, <1>4, <3>1, PutWorks
  <2>3. CASE q # p
    <3>1. tree[q] = Kept[q]
      BY <1>1, <1>2, <2>3
    <3>2. q # Under[p] /\ Under[q] # p
      BY <1>3, <2>1, StandsApart, PathsNest
    <3> QED
      BY <2>1, <2>2, <2>3, <3>1, <3>2
  <2> QED
    BY <2>2, <2>3
<1>9. Removal' /\ Ended'
  BY <1>1 DEF Removal, Ended, Removing, Over
<1>10. CASE Untouched
  <2>1. Quiet
    BY <1>1, <1>2, <1>3, <1>4, <1>10, PutBackOfUntouched DEF Quiet, Fixed
  <2>2. World' /\ OwnHeld' /\ Untouched'
    BY <1>1, <1>10, <2>1, QuietKeeps
  <2>3. Steps'
    BY <1>1, <1>2, <1>5, <1>8, <2>2 DEF Steps, Early, Working
  <2> QED
    BY <1>5, <1>7, <1>9, <2>2, <2>3 DEF CheckoutInv
<1>11. CASE Vetted
  <2>1. Standing'
    BY <1>1, <1>2, <1>3, <1>4, <1>5, <1>11, PutKeepsStanding DEF MayPut
  <2>2. TheirsRight'
    BY <1>1, <1>5, TheirsStays DEF World
  <2>3. OwnHeld'
    <3>1. \A q \in introduced : q # p /\ q # Under[p] /\ Under[q] # p
      BY <1>1, <1>3, <1>4, <1>11, IntroducedApart DEF CheckoutTypeOK
    <3> QED
      BY <1>1, <1>2, <1>3, <1>4, <1>5, <3>1, PutKeepsOwn
  <2>4. Steps'
    BY <1>1, <1>2, <1>5, <1>8, <1>11 DEF Steps, Early, Working
  <2> QED
    BY <1>1, <1>4, <1>5, <1>7, <1>9, <2>1, <2>2, <2>3, <2>4 DEF CheckoutInv, World
<1> QED
  BY <1>2, <1>10, <1>11

-----------------------------------------------------------------------------
(* The agent. *)

Agents == UNCHANGED <<at, aside, copy, todo, thrown, named, theirs, faults>>

\* What the agent may write is clear of what is the user's, so it leaves every
\* promise standing.
LEMMA AgentPutKeeps ==
  ASSUME CheckoutInv, at = "running", NEW p \in Paths, NEW c \in Contents, MayPut(p),
         tree' = Put(tree, p, c), Fixed, Agents, strayed \subseteq strayed',
         strayed' \subseteq Paths, writes' \in 0..MaxWrites,
         \A q \in introduced : theirs[q] \in Contents /\ tree[q] = theirs[q] =>
           q # p /\ q # Under[p] /\ Under[q] # p
  PROVE  CheckoutInv'
<1>1. /\ CheckoutTypeOK /\ World /\ OwnHeld /\ outside = Elsewhere /\ Steps /\ Removal
      /\ at' = at /\ aside' = aside /\ copy' = copy /\ todo' = todo /\ thrown' = thrown
      /\ named' = named /\ theirs' = theirs /\ faults' = faults
  BY DEF CheckoutInv, Agents
<1>2. Vetted /\ copy = Kept
  BY <1>1 DEF Steps, Working
<1>3. /\ outside' = Elsewhere' /\ Vetted' /\ scene' = scene
      /\ introduced' = introduced /\ made' = made /\ Kept' = Kept
  BY <1>1, <1>2, FixedKeeps
<1>4. tree' \in [Paths -> Stands]
  BY <1>1, PutWorks DEF CheckoutTypeOK
<1>5. CheckoutTypeOK'
  BY <1>1, <1>3, <1>4 DEF CheckoutTypeOK, Fixed
<1>6. World'
  <2>1. Standing'
    BY <1>1, <1>2, <1>3, PutKeepsStanding
  <2>2. TheirsRight'
    BY <1>1, <1>3, TheirsStays DEF World
  <2> QED
    BY <1>1, <1>3, <2>1, <2>2 DEF World
<1>7. OwnHeld'
  BY <1>1, <1>3, PutKeepsOwn
<1>8. Steps'
  BY <1>1, <1>2, <1>3 DEF Steps, Early, Working
<1>9. Removal' /\ Ended'
  BY <1>1 DEF Removal, Ended, Removing, Over
<1> QED
  BY <1>3, <1>5, <1>6, <1>7, <1>8, <1>9 DEF CheckoutInv

\* Direct: nothing another program has just written is on the way.
LEMMA DirectIsClear ==
  ASSUME CheckoutTypeOK, NEW p \in Paths, Direct(p)
  PROVE  \A q \in introduced : theirs[q] \in Contents => q # p /\ q # Under[p] /\ Under[q] # p
  BY DEF Direct

LEMMA AgentWritesKeeps ==
  ASSUME CheckoutInv, NEW p \in Paths, NEW c \in Contents, AgentWrites(p, c)
  PROVE  CheckoutInv'
<1>1. /\ CheckoutTypeOK /\ at = "running" /\ tree' = Put(tree, p, c) /\ Direct(p)
      /\ Fixed /\ Agents /\ strayed' = strayed /\ writes' = writes /\ Versions(p) # {}
  BY DEF CheckoutInv, AgentWrites, Fixed, Agents, planVars, pastVars
<1> QED
  BY <1>1, AgentPutKeeps, DirectIsClear DEF MayPut, CheckoutTypeOK

LEMMA MayWriteCounts ==
  ASSUME CheckoutTypeOK, MayWrite
  PROVE  writes' \in 0..MaxWrites
<1>1. writes \in 0..MaxWrites /\ MaxWrites \in Nat
  BY CheckoutAssumption DEF CheckoutTypeOK
<1> QED
  BY <1>1 DEF MayWrite

LEMMA AgentWritesUnseenKeeps ==
  ASSUME CheckoutInv, NEW p \in Paths, NEW c \in Written, AgentWritesUnseen(p, c)
  PROVE  CheckoutInv'
<1>1. /\ CheckoutTypeOK /\ World /\ Steps /\ at = "running" /\ tree' = Put(tree, p, c)
      /\ Fixed /\ Agents /\ strayed' = strayed \union {p} /\ MayWrite
      /\ Versions(p) = {} /\ tree[p] # Dir
      /\ Under[p] # None => tree[Under[p]] \notin Contents
  BY DEF CheckoutInv, AgentWritesUnseen, Fixed, Agents, planVars
<1>2. c \in Contents /\ writes' \in 0..MaxWrites
  BY <1>1, CheckoutAssumption, MayWriteCounts
<1>3. MayPut(p)
  BY <1>1 DEF MayPut
<1>4. ASSUME NEW q \in introduced, theirs[q] \in Contents, tree[q] = theirs[q]
      PROVE  q # p /\ q # Under[p] /\ Under[q] # p
  <2>1. q \in Paths /\ Versions(q) # {}
    BY <1>1 DEF CheckoutTypeOK, Steps, Vetted
  <2>2. Under[q] # None => tree[Under[q]] = Dir
    BY <1>1, <1>4, <2>1, StandsApart DEF World, Standing, Shaped
  <2> QED
    BY <1>1, <1>4, <2>1, <2>2, PathsNest
<1>5. strayed' \subseteq Paths
  BY <1>1 DEF CheckoutTypeOK
<1> QED
  BY <1>1, <1>2, <1>3, <1>4, <1>5, AgentPutKeeps

LEMMA AgentStraysKeeps ==
  ASSUME CheckoutInv, NEW p \in Paths, NEW c \in Written, AgentStrays(p, c)
  PROVE  CheckoutInv'
<1>1. /\ CheckoutTypeOK /\ World /\ Steps /\ at = "running" /\ tree' = Put(tree, p, c)
      /\ Fixed /\ Agents /\ strayed' = strayed \union {p} /\ MayWrite /\ Direct(p)
      /\ copy[p] # Absent \/ p \in introduced
  BY DEF CheckoutInv, AgentStrays, Fixed, Agents, planVars
<1>2. c \in Contents /\ writes' \in 0..MaxWrites
  BY <1>1, CheckoutAssumption, MayWriteCounts
<1>3. MayPut(p)
  BY <1>1 DEF MayPut, Steps, Working, Vetted
<1>4. strayed' \subseteq Paths
  BY <1>1 DEF CheckoutTypeOK
<1> QED
  BY <1>1, <1>2, <1>3, <1>4, AgentPutKeeps, DirectIsClear

LEMMA AgentLinksKeeps ==
  ASSUME CheckoutInv, NEW p \in Paths, NEW c \in Written, AgentLinks(p, c)
  PROVE  CheckoutInv'
<1>1. /\ CheckoutTypeOK /\ at = "running" /\ tree' = Put(tree, p, c) /\ p \in made
      /\ Fixed /\ Agents /\ strayed' = strayed \union {p} /\ MayWrite /\ Direct(p)
  BY DEF CheckoutInv, AgentLinks, Fixed, Agents, planVars
<1>2. c \in Contents /\ writes' \in 0..MaxWrites
  BY <1>1, CheckoutAssumption, MayWriteCounts
<1>3. MayPut(p)
  BY <1>1 DEF MayPut
<1>4. strayed' \subseteq Paths
  BY <1>1 DEF CheckoutTypeOK
<1> QED
  BY <1>1, <1>2, <1>3, <1>4, AgentPutKeeps, DirectIsClear

LEMMA AgentDeletesKeeps ==
  ASSUME CheckoutInv, NEW p \in Paths, AgentDeletes(p)
  PROVE  CheckoutInv'
<1>1. /\ CheckoutTypeOK /\ World /\ OwnHeld /\ outside = Elsewhere /\ Steps /\ Removal
      /\ at = "running" /\ Fixed /\ tree' = [tree EXCEPT ![p] = Absent]
      /\ Versions(p) # {} /\ tree[p] \in Contents /\ Direct(p)
      /\ at' = at /\ aside' = aside /\ copy' = copy /\ todo' = todo /\ thrown' = thrown
      /\ named' = named /\ theirs' = theirs /\ faults' = faults
      /\ strayed' = strayed /\ writes' = writes
  BY DEF CheckoutInv, AgentDeletes, Fixed, planVars, pastVars
<1>2. Vetted /\ copy = Kept /\ scene \in Scenes
  BY <1>1 DEF Steps, Working, World
<1>3. /\ outside' = Elsewhere' /\ Vetted' /\ scene' = scene
      /\ introduced' = introduced /\ made' = made /\ Kept' = Kept
  BY <1>1, <1>2, FixedKeeps
<1>4. tree' \in [Paths -> Stands] /\ \A q \in Paths : q # p => tree'[q] = tree[q]
  BY <1>1 DEF CheckoutTypeOK, Stands
<1>5. CheckoutTypeOK'
  BY <1>1, <1>3, <1>4 DEF CheckoutTypeOK, Fixed
<1>6. World'
  <2>1. \A q \in Paths : Under[q] = p => tree[q] = Absent
    BY <1>1, StandsApart, PathsNest DEF World, Standing, Shaped
  <2>2. Was[p] \in Contents => Kept[p] # Absent
    BY <1>1, <1>2, UncopiedApart
  <2>3. Standing'
    BY <1>1, <1>3, <2>1, <2>2, EmptyingKeepsStanding
  <2>4. TheirsRight'
    BY <1>1, <1>3, TheirsStays DEF World
  <2> QED
    BY <1>1, <1>3, <2>3, <2>4 DEF World
<1>7. OwnHeld'
  BY <1>1, <1>3, <1>4, DirectIsClear DEF OwnHeld, CheckoutTypeOK
<1>8. Steps'
  BY <1>1, <1>2, <1>3 DEF Steps, Early, Working
<1>9. Removal' /\ Ended'
  BY <1>1 DEF Removal, Ended, Removing, Over
<1> QED
  BY <1>3, <1>5, <1>6, <1>7, <1>8, <1>9 DEF CheckoutInv

-----------------------------------------------------------------------------
(* Everybody else, and what is taken away again. *)

LEMMA OthersWriteKeeps ==
  ASSUME CheckoutInv, NEW p \in Paths, NEW c \in Written, OthersWrite(p, c)
  PROVE  CheckoutInv'
<1>1. /\ CheckoutTypeOK /\ World /\ OwnHeld /\ outside = Elsewhere /\ Steps /\ Removal
      /\ at \in {"running", "put back", "take", "judge"} /\ Fixed /\ MayWrite
      /\ tree' = Put(tree, p, c) /\ theirs' = Put(theirs, p, c)
      /\ c \notin Versions(p) /\ p \in introduced /\ tree[p] # Dir
      /\ Under[p] # None => tree[Under[p]] = Dir
      /\ at' = at /\ aside' = aside /\ copy' = copy /\ todo' = todo /\ thrown' = thrown
      /\ named' = named /\ faults' = faults /\ strayed' = strayed
  BY DEF CheckoutInv, OthersWrite, Fixed, planVars
<1>2. c \in Contents /\ writes' \in 0..MaxWrites /\ scene \in Scenes /\ Shaped(tree)
  BY <1>1, CheckoutAssumption, MayWriteCounts DEF World, Standing
<1>3. /\ Vetted /\ Was[p] = Absent /\ Versions(p) # {} /\ Kept[p] = Absent
      /\ \A r \in FilesOf(Kept) : r # p /\ r # Under[p] /\ Under[r] # p
  BY <1>1, <1>2, IntroducedApart DEF Steps
<1>4. /\ outside' = Elsewhere' /\ Vetted' /\ scene' = scene /\ introduced' = introduced
      /\ made' = made /\ Kept' = Kept /\ FilesOf(Kept)' = FilesOf(Kept)
  BY <1>1, <1>3, FixedKeeps
<1>5. /\ tree \in [Paths -> Stands] /\ theirs \in [Paths -> Stands]
      /\ tree' \in [Paths -> Stands] /\ theirs' \in [Paths -> Stands]
  BY <1>1, <1>2, PutWorks DEF CheckoutTypeOK
<1>6. \A q \in Paths :
        /\ tree'[q] = IF q = p THEN c ELSE IF q = Under[p] THEN Dir
                      ELSE IF Under[q] = p THEN Absent ELSE tree[q]
        /\ theirs'[q] = IF q = p THEN c ELSE IF q = Under[p] THEN Dir
                        ELSE IF Under[q] = p THEN Absent ELSE theirs[q]
  BY <1>1 DEF Put
<1>7. CheckoutTypeOK'
  BY <1>1, <1>2, <1>4, <1>5 DEF CheckoutTypeOK, Fixed
<1>8. World'
  <2>1. Standing'
    BY <1>1, <1>2, <1>3, <1>4, PutKeepsStanding DEF MayPut
  <2>2. TheirsRight'
    BY <1>1, <1>2, <1>3, <1>4, TheirsPutKeepsTheirs
  <2> QED
    BY <1>2, <1>4, <2>1, <2>2 DEF World
<1>9. OwnHeld'
  BY <1>1, <1>4, <1>6, StandsApart DEF OwnHeld, CheckoutTypeOK
<1>10. \A q \in FilesOf(Kept) : tree'[q] = tree[q]
  BY <1>3, <1>6 DEF FilesOf
<1>11. Steps'
  BY <1>1, <1>3, <1>4, <1>10 DEF Steps, Early, Working
<1>12. Removal'
  <2>1. CASE at \notin Removing
    BY <1>1, <2>1 DEF Removal, Removing, Over
  <2>2. CASE at \in Removing
    <3>1. \A q \in Paths : theirs'[q] = Absent /\ tree'[q] \in Contents =>
            theirs[q] = Absent /\ tree[q] \in Contents
      BY <1>2, <1>6, StandsApart
    <3>2. \A q \in Paths : tree[q] \notin {Absent, Dir} => tree'[q] \notin {Absent, Dir}
      <4> SUFFICES ASSUME NEW q \in Paths, tree[q] \notin {Absent, Dir}
                   PROVE  tree'[q] \notin {Absent, Dir}
        OBVIOUS
      <4>1. Under[q] # None => tree[Under[q]] = Dir
        BY <1>2 DEF Shaped
      <4>2. q # Under[p] /\ Under[q] # p
        BY <1>1, <4>1, PathsNest
      <4> QED
        BY <1>2, <1>6, <4>2, StandsApart
    <3>3. ASSUME at = "judge"
          PROVE  LET e == Earliest(todo)
                 IN /\ aside[e] \in Contents /\ tree'[e] \in {Absent, theirs'[e]} \ {Dir}
                    /\ Under[e] # None => tree'[Under[e]] = Dir
      <4> DEFINE e == Earliest(todo)
      <4>1. /\ aside[e] \in Contents /\ tree[e] \in {Absent, theirs[e]} \ {Dir}
            /\ (Under[e] # None => tree[Under[e]] = Dir) /\ todo # {}
        BY <1>1, <3>3 DEF Removal
      <4>2. e \in Paths
        BY <1>1, <4>1, EarliestIsOne DEF CheckoutTypeOK
      <4> HIDE DEF e
      <4>3. e # Under[p] /\ Under[e] # p
        BY <1>1, <4>1, <4>2, PathsNest
      <4>4. tree'[e] \in {Absent, theirs'[e]} \ {Dir}
        BY <1>2, <1>6, <4>1, <4>2, <4>3, StandsApart
      <4>5. ASSUME Under[e] # None PROVE tree'[Under[e]] = Dir
        <5>1. Under[e] \in Paths /\ Under[Under[e]] = None
          BY <4>2, <4>5, PathsNest
        <5> QED
          BY <1>6, <4>1, <4>3, <4>5, <5>1, PathsNest
      <4> QED
        BY <4>1, <4>4, <4>5 DEF e
    <3> QED
      BY <1>1, <1>4, <1>10, <2>2, <3>1, <3>2, <3>3 DEF Removal, Removing
  <2> QED
    BY <2>1, <2>2
<1>13. Ended'
  BY <1>1 DEF Ended, Over
<1> QED
  BY <1>4, <1>7, <1>8, <1>9, <1>11, <1>12, <1>13 DEF CheckoutInv

\* A path where there is no file any more is passed over.
LEMMA PassesOver ==
  ASSUME CheckoutInv, at = "take", todo # {}, at' = "take", Quiet,
         UNCHANGED <<copy, thrown, writes, faults>>,
         named' \in {named, named \union {Earliest(todo)}}, todo' = todo \ {Earliest(todo)},
         tree[Earliest(todo)] \in {Absent, Dir}
  PROVE  CheckoutInv'
<1> DEFINE p == Earliest(todo)
<1>1. /\ CheckoutTypeOK /\ World /\ OwnHeld /\ outside = Elsewhere /\ Steps /\ Removal
      /\ tree' = tree /\ aside' = aside /\ theirs' = theirs /\ strayed' = strayed
      /\ introduced' = introduced /\ made' = made /\ copy' = copy
  BY DEF CheckoutInv, Quiet
<1>2. p \in todo /\ p \in Paths
  BY <1>1, EarliestIsOne DEF CheckoutTypeOK
<1> HIDE DEF p
<1>3. CheckoutTypeOK'
  BY <1>1, <1>2 DEF CheckoutTypeOK, Quiet, p, Working
<1>4. /\ World' /\ OwnHeld' /\ outside' = Elsewhere' /\ (Vetted => Vetted')
      /\ (Untouched => Untouched') /\ Kept' = Kept /\ FilesOf(Kept)' = FilesOf(Kept)
  BY <1>1, QuietKeeps
<1>5. Steps'
  BY <1>1, <1>4 DEF Steps, Early, Working
<1>6. Removal'
  <2>1. todo' = todo \ {p} /\ named \subseteq named' /\ tree[p] \notin Contents
    BY StandsApart DEF p
  <2> QED
    BY <1>1, <1>4, <2>1 DEF Removal, Removing, Over
<1>7. Ended'
  BY DEF Ended, Over
<1> QED
  BY <1>3, <1>4, <1>5, <1>6, <1>7 DEF CheckoutInv

LEMMA SetsAsideKeeps ==
  ASSUME CheckoutInv, SetsAside
  PROVE  CheckoutInv'
<1> DEFINE p == Earliest(todo)
           linked == Under[p] # None /\ tree[Under[p]] \in Links
<1>1. /\ CheckoutTypeOK /\ World /\ OwnHeld /\ outside = Elsewhere /\ Steps /\ Removal
      /\ at = "take" /\ todo # {} /\ scene \in Scenes /\ TheirsRight /\ Shaped(tree)
      /\ UNCHANGED <<scene, introduced, made, copy, thrown, theirs, strayed, writes, faults>>
  BY DEF CheckoutInv, SetsAside, planVars, pastVars, World, Standing
<1>2. /\ p \in todo /\ p \in Paths /\ p \in introduced
      /\ \A q \in FilesOf(Kept) : tree[q] = Kept[q]
  BY <1>1, EarliestIsOne DEF CheckoutTypeOK, Removal, Removing
<1>3. ~ (linked /\ ThroughDirectories(p))
  BY CheckoutAssumption, StandsApart DEF ThroughDirectories
<1>4. ThroughDirectories(p) => (Under[p] # None => tree[Under[p]] = Dir)
  BY DEF ThroughDirectories
<1>5. ~ ThroughDirectories(p) => tree[p] = Absent
  BY <1>1, <1>2 DEF ThroughDirectories, Shaped
<1>6. CASE ~ ThroughDirectories(p) \/ (~ linked /\ tree[p] \in {Absent, Dir})
  <2>1. /\ todo' = todo \ {p} /\ at' = at /\ UNCHANGED <<tree, aside, outside>>
        /\ named' \in {named, named \union {p}}
    BY <1>6 DEF SetsAside, treeVars
  <2>2. tree[p] \in {Absent, Dir}
    BY <1>5, <1>6
  <2>3. Quiet
    BY <1>1, <2>1 DEF Quiet
  <2> QED
    BY <1>1, <2>1, <2>2, <2>3, PassesOver
<1>7. CASE ThroughDirectories(p) /\ tree[p] \notin {Absent, Dir}
  <2>1. /\ at' = "judge" /\ aside' = [aside EXCEPT ![p] = tree[p]]
        /\ tree' = [tree EXCEPT ![p] = Absent] /\ UNCHANGED <<outside, todo, named>>
    BY <1>3, <1>7 DEF SetsAside
  <2> HIDE DEF p, linked
  <2>2. /\ Vetted /\ Was[p] = Absent /\ Versions(p) # {}
        /\ \A r \in FilesOf(Kept) : r # p
    BY <1>1, <1>2, IntroducedApart DEF Steps
  <2>3. /\ outside' = Elsewhere' /\ Vetted' /\ scene' = scene /\ introduced' = introduced
        /\ made' = made /\ Kept' = Kept /\ FilesOf(Kept)' = FilesOf(Kept)
    BY <1>1, <2>1, <2>2, FixedKeeps DEF Fixed
  <2>4. /\ tree' \in [Paths -> Stands] /\ aside' \in [Paths -> Contents \union {Absent}]
        /\ tree[p] \in Contents /\ tree'[p] = Absent /\ aside'[p] = tree[p]
        /\ \A q \in Paths : q # p => tree'[q] = tree[q] /\ aside'[q] = aside[q]
    BY <1>1, <1>2, <1>7, <2>1 DEF CheckoutTypeOK, Stands
  <2>5. aside[p] = Absent
    BY <1>1, <1>2 DEF Removal, Removing
  <2>6. CheckoutTypeOK'
    BY <1>1, <2>1, <2>4 DEF CheckoutTypeOK, Working
  <2>7. World'
    <3>1. \A q \in Paths : Under[q] = p => tree[q] = Absent
      BY <1>1, <1>2, <1>7, PathsNest DEF Shaped
    <3>2. Standing'
      BY <1>1, <1>2, <2>1, <2>2, <2>3, <3>1, StandsApart, EmptyingKeepsStanding
    <3>3. TheirsRight'
      BY <1>1, TheirsStays
    <3> QED
      BY <1>1, <3>2, <3>3 DEF World
  <2>8. OwnHeld'
    BY <1>1, <1>2, <2>4, <2>5, StandsApart DEF OwnHeld, CheckoutTypeOK
  <2>9. Steps'
    BY <1>1, <2>1, <2>2, <2>3 DEF Steps, Early, Working
  <2>10. Removal'
    <3>1. \A q \in FilesOf(Kept) : tree'[q] = Kept[q]
      BY <1>2, <2>2, <2>4 DEF FilesOf
    <3>2. \A q \in Paths : theirs[q] = Absent /\ tree'[q] \in Contents => tree[q] \in Contents
      BY <2>4, StandsApart
    <3>3. /\ aside'[p] \in Contents /\ tree'[p] \in {Absent, theirs'[p]} \ {Dir}
          /\ Under[p] # None => tree'[Under[p]] = Dir
      BY <1>2, <1>4, <1>7, <2>4, StandsApart, PathsNest
    <3>4. \A q \in Paths : aside'[q] # Absent /\ q # p =>
            q \in introduced \ todo /\ q \in named /\ tree'[q] \notin {Absent, Dir}
      BY <1>1, <2>4 DEF Removal, Removing
    <3>5. todo \subseteq introduced /\ todo # {} /\ todo' = todo /\ named' = named
          /\ \A q \in Paths \ (named \union strayed) :
               theirs[q] = Absent /\ tree[q] \in Contents => q \in todo
      BY <1>1, <2>1 DEF Removal, Removing
    <3> QED
      BY <1>1, <2>1, <2>3, <3>1, <3>2, <3>3, <3>4, <3>5 DEF Removal, Removing, Over, p
  <2>11. Ended'
    BY <2>1 DEF Ended, Over
  <2> QED
    BY <2>3, <2>6, <2>7, <2>8, <2>9, <2>10, <2>11 DEF CheckoutInv
<1> QED
  BY <1>3, <1>5, <1>6, <1>7

LEMMA JudgesKeeps ==
  ASSUME CheckoutInv, Judges
  PROVE  CheckoutInv'
<1> DEFINE p == Earliest(todo)
<1>1. /\ CheckoutTypeOK /\ World /\ OwnHeld /\ outside = Elsewhere /\ Steps /\ Removal
      /\ at = "judge" /\ at' = "take" /\ scene \in Scenes /\ TheirsRight /\ Shaped(tree)
      /\ todo' = todo \ {p} /\ outside' = outside /\ named' \in {named, named \union {p}}
      /\ UNCHANGED <<scene, introduced, made, copy, thrown, theirs, strayed, writes, faults>>
  BY DEF CheckoutInv, Judges, planVars, pastVars, World, Standing
<1>2. /\ todo # {} /\ aside[p] \in Contents /\ tree[p] \in {Absent, theirs[p]} \ {Dir}
      /\ (Under[p] # None => tree[Under[p]] = Dir) /\ todo \subseteq introduced
      /\ \A q \in FilesOf(Kept) : tree[q] = Kept[q]
      /\ \A q \in Paths \ (named \union strayed) :
           theirs[q] = Absent /\ tree[q] \in Contents => q \in todo
      /\ \A q \in Paths : aside[q] # Absent /\ q # p =>
           q \in introduced \ todo /\ q \in named /\ tree[q] \notin {Absent, Dir}
  BY <1>1 DEF Removal, Removing
<1>3. p \in todo /\ p \in Paths /\ p \in introduced
  BY <1>1, <1>2, EarliestIsOne DEF CheckoutTypeOK
<1>4. \/ /\ IsRecorded(p) /\ aside' = [aside EXCEPT ![p] = Absent] /\ tree' = tree
      \/ /\ named' = named \union {p} /\ tree[p] = Absent
         /\ tree' = Put(tree, p, aside[p]) /\ aside' = [aside EXCEPT ![p] = Absent]
      \/ /\ named' = named \union {p} /\ tree[p] # Absent
         /\ tree' = tree /\ aside' = aside
  BY <1>1 DEF Judges
<1> HIDE DEF p
<1>5. /\ Vetted /\ Was[p] = Absent /\ Versions(p) # {}
      /\ \A r \in FilesOf(Kept) : r # p /\ r # Under[p] /\ Under[r] # p
  BY <1>1, <1>3, IntroducedApart DEF Steps
<1>6. /\ outside' = Elsewhere' /\ Vetted' /\ scene' = scene /\ introduced' = introduced
      /\ made' = made /\ Kept' = Kept /\ FilesOf(Kept)' = FilesOf(Kept)
  BY <1>1, <1>5, FixedKeeps DEF Fixed
<1>7. TheirsRight'
  BY <1>1, TheirsStays
<1>8. /\ tree \in [Paths -> Stands] /\ aside \in [Paths -> Contents \union {Absent}]
      /\ theirs' = theirs /\ strayed' = strayed
  BY <1>1 DEF CheckoutTypeOK
<1>9. Steps' /\ Ended'
  BY <1>1, <1>5, <1>6 DEF Steps, Ended, Early, Working, Over
<1>10. CASE /\ tree' = tree
            /\ \/ IsRecorded(p) /\ aside' = [aside EXCEPT ![p] = Absent]
               \/ named' = named \union {p} /\ tree[p] # Absent /\ aside' = aside
  <2>1. /\ aside' \in [Paths -> Contents \union {Absent}]
        /\ \A q \in Paths : q # p => aside'[q] = aside[q]
        /\ aside'[p] = aside[p] \/ (aside'[p] = Absent /\ IsRecorded(p))
    BY <1>3, <1>8, <1>10
  <2>2. CheckoutTypeOK'
    BY <1>1, <1>3, <1>10, <2>1 DEF CheckoutTypeOK, Working
  <2>3. Standing'
    <3>1. /\ Was' = Was /\ Kept' = Kept /\ \A q \in Paths : Versions(q)' = Versions(q)
      BY <1>6, SceneStays
    <3> QED
      BY <1>1, <1>6, <1>8, <1>10, <3>1 DEF World, Standing, Shaped, Spared, Accounted, Filled
  <2>4. OwnHeld'
    <3> SUFFICES ASSUME NEW q \in introduced, theirs[q] \in Contents
                 PROVE  theirs[q] \in {tree[q], aside'[q]}
      BY <1>6, <1>8, <1>10 DEF OwnHeld
    <3>1. theirs[q] \in {tree[q], aside[q]} /\ q \in Paths
      BY <1>1 DEF OwnHeld, CheckoutTypeOK
    <3>2. CASE q # p
      BY <2>1, <3>1, <3>2
    <3>3. CASE q = p
      <4>1. theirs[p] \notin Versions(p)
        BY <1>1, <1>3, <1>5, <3>3, StandsApart DEF TheirsRight
      <4> QED
        BY <2>1, <3>1, <3>3, <4>1 DEF IsRecorded
    <3> QED
      BY <3>2, <3>3
  <2>5. ASSUME NEW q \in Paths, aside'[q] # Absent
        PROVE  q \in introduced \ todo' /\ q \in named' /\ tree'[q] \notin {Absent, Dir}
    <3>1. CASE q # p
      BY <1>1, <1>2, <1>10, <2>1, <2>5, <3>1
    <3>2. CASE q = p
      BY <1>1, <1>2, <1>3, <1>4, <1>8, <1>10, <2>5, <3>2, StandsApart
    <3> QED
      BY <3>1, <3>2
  <2>6. ASSUME NEW q \in Paths, q \notin named', q \notin strayed, theirs[q] = Absent,
               tree[q] \in Contents
        PROVE  q \in todo'
    BY <1>1, <1>2, <2>6, StandsApart
  <2>7. Removal'
    BY <1>1, <1>2, <1>6, <1>8, <1>10, <2>5, <2>6 DEF Removal, Removing, Over
  <2> QED
    BY <1>1, <1>6, <1>7, <1>9, <2>2, <2>3, <2>4, <2>7 DEF CheckoutInv, World
<1>11. CASE /\ named' = named \union {p} /\ tree[p] = Absent
            /\ tree' = Put(tree, p, aside[p]) /\ aside' = [aside EXCEPT ![p] = Absent]
  <2>1. /\ aside' \in [Paths -> Contents \union {Absent}] /\ aside'[p] = Absent
        /\ \A q \in Paths : q # p => aside'[q] = aside[q]
    BY <1>3, <1>8, <1>11
  <2>2. /\ tree' \in [Paths -> Stands] /\ tree'[p] = aside[p]
        /\ \A q \in Paths : q # p /\ q # Under[p] /\ Under[q] # p => tree'[q] = tree[q]
        /\ \A q \in Paths : q # p /\ tree'[q] # tree[q] => tree'[q] \in {Absent, Dir}
    BY <1>2, <1>3, <1>8, <1>11, PutWorks
  <2>3. CheckoutTypeOK'
    BY <1>1, <1>3, <2>1, <2>2 DEF CheckoutTypeOK, Working
  <2>4. Standing'
    BY <1>1, <1>2, <1>3, <1>5, <1>6, <1>11, PutKeepsStanding DEF MayPut
  <2>5. \A q \in Paths : q # p /\ tree[q] \notin {Absent, Dir} => tree'[q] = tree[q]
    <3> SUFFICES ASSUME NEW q \in Paths, q # p, tree[q] \notin {Absent, Dir}
                 PROVE  tree'[q] = tree[q]
      OBVIOUS
    <3>1. Under[q] # None => tree[Under[q]] = Dir
      BY <1>1 DEF Shaped
    <3>2. q # Under[p] /\ Under[q] # p
      BY <1>2, <1>3, <1>11, <3>1, PathsNest, StandsApart
    <3> QED
      BY <2>2, <3>2
  <2>6. OwnHeld'
    <3> SUFFICES ASSUME NEW q \in introduced, theirs[q] \in Contents
                 PROVE  theirs[q] \in {tree'[q], aside'[q]}
      BY <1>6, <1>8 DEF OwnHeld
    <3>1. theirs[q] \in {tree[q], aside[q]} /\ q \in Paths
      BY <1>1 DEF OwnHeld, CheckoutTypeOK
    <3>2. CASE q # p
      BY <2>1, <2>5, <3>1, <3>2, StandsApart
    <3>3. CASE q = p
      BY <1>11, <2>2, <3>1, <3>3, StandsApart
    <3> QED
      BY <3>2, <3>3
  <2>7. ASSUME NEW q \in Paths, aside'[q] # Absent
        PROVE  q \in introduced \ todo' /\ q \in named' /\ tree'[q] \notin {Absent, Dir}
    BY <1>1, <1>2, <2>1, <2>5, <2>7
  <2>8. ASSUME NEW q \in Paths, q \notin named', q \notin strayed, theirs[q] = Absent,
               tree'[q] \in Contents
        PROVE  q \in todo'
    BY <1>1, <1>2, <1>11, <2>2, <2>8, StandsApart
  <2>9. \A q \in FilesOf(Kept) : tree'[q] = Kept[q]
    BY <1>2, <1>5, <2>2 DEF FilesOf
  <2>10. Removal'
    BY <1>1, <1>2, <1>6, <1>8, <2>7, <2>8, <2>9 DEF Removal, Removing, Over
  <2> QED
    BY <1>1, <1>6, <1>7, <1>9, <2>3, <2>4, <2>6, <2>10 DEF CheckoutInv, World
<1> QED
  BY <1>4, <1>10, <1>11

LEMMA RemovesDirsKeeps ==
  ASSUME CheckoutInv, RemovesDirs
  PROVE  CheckoutInv'
<1> DEFINE S == {d \in made : /\ tree[d] = Dir
                              /\ \A q \in Paths : Under[q] = d =>
                                   tree[q] = Absent /\ aside[q] = Absent}
<1>1. /\ CheckoutTypeOK /\ World /\ OwnHeld /\ outside = Elsewhere /\ Steps /\ Removal
      /\ at = "take" /\ todo = {} /\ at' = "tidy" /\ Fixed
      /\ UNCHANGED <<aside, copy, todo, thrown, named, theirs, strayed, writes, faults>>
  BY DEF CheckoutInv, RemovesDirs, Fixed, planVars, pastVars
<1>2. /\ made \subseteq Paths /\ tree \in [Paths -> Stands] /\ scene \in Scenes
      /\ \A d \in made : \E q \in Paths : Under[q] = d
  <2>1. made \subseteq Paths /\ introduced \subseteq Paths /\ tree \in [Paths -> Stands]
    BY <1>1 DEF CheckoutTypeOK
  <2>2. Untouched \/ Vetted
    BY <1>1 DEF Steps
  <2> QED
    BY <1>1, <2>1, <2>2 DEF Untouched, Vetted, World
<1>3. tree' = [p \in Paths |-> IF p \in S THEN Absent ELSE tree[p]]
  BY <1>2 DEF RemovesDirs
<1>4. /\ outside' = Elsewhere' /\ (Vetted => Vetted') /\ scene' = scene
      /\ introduced' = introduced /\ made' = made /\ Was' = Was /\ Kept' = Kept
      /\ FilesOf(Kept)' = FilesOf(Kept)
  BY <1>1, FixedKeeps
<1>5. \A d \in S : tree[d] = Dir /\ \A q \in Paths : Under[q] = d => tree[q] = Absent
  OBVIOUS
<1>6. \A p \in Paths : tree[p] # Dir => p \notin S
  OBVIOUS
<1>7. /\ tree' \in [Paths -> Stands]
      /\ \A p \in Paths : tree'[p] = IF p \in S THEN Absent ELSE tree[p]
  BY <1>2, <1>3 DEF Stands
<1>8. \A d \in made : tree'[d] = Dir => \E q \in Paths : Under[q] = d /\ tree'[q] # Absent
  <2> SUFFICES ASSUME NEW d \in made, tree'[d] = Dir
               PROVE  \E q \in Paths : Under[q] = d /\ tree'[q] # Absent
    OBVIOUS
  <2>1. d \in Paths /\ d \notin S /\ tree[d] = Dir
    BY <1>2, <1>7, StandsApart
  <2>2. PICK q \in Paths : Under[q] = d /\ ~ (tree[q] = Absent /\ aside[q] = Absent)
    BY <2>1
  <2>3. tree[q] # Absent
    BY <1>1, <2>2 DEF Removal, Removing
  <2>4. q \notin S
    BY <1>2, <2>1, <2>2, PathsNest
  <2> QED
    BY <1>7, <2>2, <2>3, <2>4
<1>9. S \subseteq made
  OBVIOUS
<1> HIDE DEF S
<1>10. CheckoutTypeOK'
  BY <1>1, <1>4, <1>7 DEF CheckoutTypeOK, Fixed, Working
<1>11. World'
  <2>1. Standing'
    BY <1>1, <1>3, <1>4, <1>5, <1>9, DirsGoKeepsStanding
  <2>2. TheirsRight'
    BY <1>1, <1>4, TheirsStays DEF World
  <2> QED
    BY <1>1, <1>4, <2>1, <2>2 DEF World
<1>12. OwnHeld'
  BY <1>1, <1>4, <1>6, <1>7, StandsApart DEF OwnHeld, CheckoutTypeOK
<1>13. \A q \in FilesOf(Kept) : tree'[q] = Kept[q]
  BY <1>1, <1>2, <1>6, <1>7, WasAndKept, StandsApart DEF Removal, Removing
<1>14. Steps'
  <2>1. ASSUME Untouched PROVE Untouched'
    <3>1. \A p \in Paths : p \notin S
      BY <1>9, <2>1 DEF Untouched
    <3>2. tree' = tree
      BY <1>2, <1>3, <3>1
    <3> QED
      BY <1>1, <1>4, <2>1, <3>2 DEF Untouched
  <2> QED
    BY <1>1, <1>4, <2>1 DEF Steps, Early, Working
<1>15. Removal'
  <2>1. \A p \in Paths \ (named \union strayed) : ~ (theirs[p] = Absent /\ tree[p] \in Contents)
    BY <1>1 DEF Removal, Removing
  <2>2. \A p \in Paths : aside[p] # Absent =>
          p \in introduced /\ p \in named /\ tree[p] \notin {Absent, Dir}
    BY <1>1 DEF Removal, Removing
  <2>3. \A p \in Paths : tree'[p] \in Contents => tree[p] \in Contents
    BY <1>7, StandsApart
  <2>4. \A p \in Paths : tree[p] \notin {Absent, Dir} => tree'[p] = tree[p]
    BY <1>6, <1>7
  <2> QED
    BY <1>1, <1>4, <1>8, <1>13, <2>1, <2>2, <2>3, <2>4 DEF Removal, Removing, Over
<1>16. Ended'
  BY <1>1 DEF Ended, Over
<1> QED
  BY <1>4, <1>10, <1>11, <1>12, <1>14, <1>15, <1>16 DEF CheckoutInv

-----------------------------------------------------------------------------
(* The invariant, and what follows. *)

LEMMA CheckoutStarts ==
  ASSUME CheckoutInit
  PROVE  CheckoutInv
<1>1. /\ scene \in Scenes /\ at = "asked" /\ tree = Was /\ theirs = Was
      /\ aside = [p \in Paths |-> Absent] /\ outside = Elsewhere
      /\ copy = None /\ introduced = {} /\ made = {} /\ todo = {}
      /\ thrown = FALSE /\ named = {} /\ strayed = {} /\ writes = 0 /\ faults = 0
  BY DEF CheckoutInit, Was
<1>2. Was \in [Paths -> Stands] /\ Shaped(Was) /\ scene \in Scene
  BY <1>1, WasAndKept, CheckoutAssumption
<1>3. outside \in [Paths -> Contents \union {Absent}]
  <2>1. \A p \in Paths : Versions(p) \subseteq Contents
    BY <1>1, VersionsAreContents
  <2>2. \A p \in Paths : Versions(p) # {} => AnyOf(Versions(p)) \in Versions(p)
    BY DEF AnyOf
  <2> QED
    BY <1>1, <2>1, <2>2 DEF Elsewhere
<1>4. CheckoutTypeOK
  <2>1. MaxWrites \in Nat /\ MaxFaults \in Nat
    BY CheckoutAssumption
  <2>2. aside \in [Paths -> Contents \union {Absent}]
    BY <1>1
  <2>3. tree \in [Paths -> Stands] /\ theirs \in [Paths -> Stands]
    BY <1>1, <1>2
  <2>4. writes \in 0..MaxWrites /\ faults \in 0..MaxFaults
    BY <1>1, <2>1
  <2>5. /\ introduced \subseteq Paths /\ made \subseteq Paths /\ todo \subseteq Paths
        /\ thrown \in BOOLEAN /\ named \subseteq Paths /\ strayed \subseteq Paths
    BY <1>1
  <2> QED
    BY <1>1, <1>2, <1>3, <2>2, <2>3, <2>4, <2>5 DEF CheckoutTypeOK
<1>5. World
  BY <1>1, <1>2, StandsApart
     DEF World, Standing, TheirsRight, Spared, Accounted, Filled
<1>6. OwnHeld /\ Removal /\ Ended
  BY <1>1 DEF OwnHeld, Removal, Ended, Removing, Over
<1>7. Steps
  BY <1>1 DEF Steps, Untouched, Early, Working
<1> QED
  BY <1>1, <1>4, <1>5, <1>6, <1>7 DEF CheckoutInv

LEMMA CheckoutKeeps ==
  ASSUME CheckoutInv, [CheckoutNext]_checkoutVars
  PROVE  CheckoutInv'
<1>1. CASE UNCHANGED checkoutVars
  <2>1. /\ Quiet /\ UNCHANGED <<at, copy, todo, thrown, named, writes, faults>>
        /\ CheckoutTypeOK /\ World /\ OwnHeld /\ outside = Elsewhere
        /\ Steps /\ Removal /\ Ended
    BY <1>1 DEF checkoutVars, Quiet, CheckoutInv
  <2>2. /\ World' /\ OwnHeld' /\ outside' = Elsewhere' /\ (Vetted => Vetted')
        /\ (Untouched => Untouched') /\ Was' = Was /\ Kept' = Kept
        /\ FilesOf(First)' = FilesOf(First) /\ FilesOf(Kept)' = FilesOf(Kept)
        /\ Declared' = Declared
    BY <2>1, QuietKeeps
  <2>3. CheckoutTypeOK'
    BY <2>1 DEF CheckoutTypeOK, Quiet
  <2>4. Steps'
    BY <2>1, <2>2 DEF Steps, Quiet
  <2>5. Removal'
    BY <2>1, <2>2 DEF Removal, Quiet
  <2>6. Ended'
    BY <2>1 DEF Ended, HeldSomewhere, ComesBack, Quiet
  <2> QED
    BY <2>2, <2>3, <2>4, <2>5, <2>6 DEF CheckoutInv
<1>2. CASE Command
  BY <1>2, DecidesKeeps, RunsUnrestoredKeeps, TakesCopyKeeps, CopyFailsKeeps, ChecksKeeps,
     ResetsKeeps, ResetDoneKeeps, RestoresKeeps, RestoredKeeps, TurnsBackKeeps, PutsBackKeeps,
     PutBackDoneKeeps, StopsShortKeeps, SetsAsideKeeps, JudgesKeeps, RemovesDirsKeeps,
     RemovesCopyKeeps
     DEF Command
<1>3. CASE Agent
  BY <1>3, AgentWritesKeeps, AgentDeletesKeeps, AgentWritesUnseenKeeps, AgentStraysKeeps,
     AgentLinksKeeps
     DEF Agent
<1>4. CASE \E p \in Paths, c \in Written : OthersWrite(p, c)
  BY <1>4, OthersWriteKeeps
<1> QED
  BY <1>1, <1>2, <1>3, <1>4 DEF CheckoutNext

LEMMA CheckoutInvariant == CheckoutSpec => []CheckoutInv
<1>1. CheckoutInit => CheckoutInv
  BY CheckoutStarts
<1>2. CheckoutInv /\ [CheckoutNext]_checkoutVars => CheckoutInv'
  BY CheckoutKeeps
<1> QED
  BY <1>1, <1>2, PTL DEF CheckoutSpec

\* What the command knows, what it has yet to do and what stands where have the types
\* they should, for any workspace, recording and number of faults.
THEOREM CheckoutTypes == CheckoutSpec => []CheckoutTypeOK
<1>1. CheckoutInv => CheckoutTypeOK
  BY DEF CheckoutInv
<1> QED
  BY <1>1, CheckoutInvariant, PTL

\* However a replay goes, fails or is killed, each file of the user's is in the tree,
\* in the copy, or beside its path (replayWorkspace and release).
THEOREM NothingIsLost == CheckoutSpec => []HeldSomewhere
<1>1. CheckoutInv => HeldSomewhere
  BY HeldAtWork DEF CheckoutInv, Ended
<1> QED
  BY <1>1, CheckoutInvariant, PTL

\* What the user or another program makes while a replay runs is not taken for the
\* replay's own, nor is anything behind a link (removeIntroduced, takeIfRecorded).
THEOREM OnlyItsOwnIsTaken == CheckoutSpec => []TakesOnlyItsOwn
<1>1. CheckoutInv => TakesOnlyItsOwn
  BY DEF CheckoutInv, OwnHeld, TakesOnlyItsOwn
<1> QED
  BY <1>1, CheckoutInvariant, PTL

\* A replay that is over and was not killed has left the tree as the user has it,
\* but for what strayed and what they were told of (release).
THEOREM TheTreeComesBack == CheckoutSpec => []ComesBack
<1>1. CheckoutInv => ComesBack
  BY DEF CheckoutInv, Ended, Over, ComesBack
<1> QED
  BY <1>1, CheckoutInvariant, PTL

-----------------------------------------------------------------------------
(* Where a replay never writes. *)

\* Who works in the user's directory was asked for nothing else, and it is where the
\* run was recorded.
AskedForNothing ==
  at \in Working => scene.ask = {} /\ scene.home

LEMMA KeepsOutStarts == CheckoutInit => KeepsOut /\ AskedForNothing
BY DEF CheckoutInit, KeepsOut, AskedForNothing, Working

LEMMA KeepsOutKeeps ==
  ASSUME CheckoutInv, KeepsOut, AskedForNothing, [CheckoutNext]_checkoutVars
  PROVE  KeepsOut' /\ AskedForNothing'
<1>1. CASE Decides
  <2>1. scene.ask \in SUBSET {"worktree", "in-place"} /\ scene.home \in BOOLEAN
    BY DEF CheckoutInv, CheckoutTypeOK, Scene
  <2>2. /\ at' \in {"threw", "elsewhere", "unguarded", "copy"}
        /\ UNCHANGED <<scene, tree, theirs>> /\ tree = theirs
    BY <1>1 DEF Decides, Way, treeVars, pastVars, CheckoutInv, Steps, Untouched, Early
  <2>3. at' = "copy" => Way = "restored"
    BY <1>1 DEF Decides, Way
  <2>4. at' = "unguarded" => Way = "as it stands"
    BY <1>1 DEF Decides, Way
  <2>5. Way = "restored" => scene.ask = {} /\ scene.home
    BY <2>1 DEF Way
  <2>6. Way = "as it stands" => "worktree" \notin scene.ask
    BY <2>1 DEF Way
  <2> QED
    BY <2>2, <2>3, <2>4, <2>5, <2>6 DEF KeepsOut, AskedForNothing, Working
<1>2. CASE RunsUnrestored
  BY <1>2 DEF RunsUnrestored, KeepsOut, AskedForNothing, Working, treeVars, pastVars
<1>3. CASE UNCHANGED checkoutVars
  BY <1>3 DEF checkoutVars, KeepsOut, AskedForNothing
<1>4. CASE CheckoutNext /\ ~ Decides /\ ~ RunsUnrestored
  <2>1. at \in Working /\ scene' = scene
    BY <1>4
       DEF CheckoutNext, Command, Agent, Working, TakesCopy, CopyFails, Checks, Resets,
           ResetDone, Restores, Restored, Throws, AgentDone, PutsBack, PutBackDone,
           PutBackFails, SetsAside, Judges, RemovesDirs, RemovesCopy, Dies, AgentWrites,
           AgentDeletes, AgentWritesUnseen, AgentStrays, AgentLinks, OthersWrite
  <2> QED
    BY <2>1 DEF KeepsOut, AskedForNothing
<1> QED
  BY <1>1, <1>2, <1>3, <1>4

\* A replay asked for with --worktree never runs in the user's directory, and one that
\* is refused, runs elsewhere or as the tree stands writes nothing into it (the flags
\* replayWorkspace looks at, in their order).
THEOREM ReplaysKeepOut == CheckoutSpec => []KeepsOut
<1>1. CheckoutInit => KeepsOut /\ AskedForNothing
  BY KeepsOutStarts
<1>2. /\ CheckoutInv /\ KeepsOut /\ AskedForNothing /\ [CheckoutNext]_checkoutVars
      => (KeepsOut /\ AskedForNothing)'
  BY KeepsOutKeeps
<1> QED
  BY <1>1, <1>2, CheckoutInvariant, PTL DEF CheckoutSpec

-----------------------------------------------------------------------------
(* The inductive invariant: what the recorder holds, and what it has written. *)

Derivable == {"tool.result", "model.request", "model.response", "tool.call"}
Entry == [lane : Lanes, n : 1..Depth, ok : BOOLEAN, asked : Work]
Line ==
  [type : Derivable \union {"fs.snapshot"}, lane : Lanes \union {Nil}, n : Nat, turn : Nat,
   causes : SUBSET Nat, tree : Work \union {Nil}, changed : SUBSET Files,
   asked : Work \union {Nil}]

Recorder ==
  /\ CheckTypeOK /\ turn \in Nat
  /\ queue \in Seq(Entry) /\ trace \in Seq(Line)
  /\ \A l \in Lanes : lane[l].phase = "asked" => lane[l].n <= Depth
  /\ \A p \in Files : work[p] <= edits

IsRequest(i) == trace[i].type = "model.request"
IsSnapshot(i) == trace[i].type = "fs.snapshot"

\* The workspace only moves on: nobody asked with more than it holds now, and what a
\* snapshot has read of it is no older than any request in the trace.
Behind(asked, held, files) == \A p \in files : asked[p] <= held[p]
Asked ==
  /\ \A l \in Lanes : Behind(lane[l].asked, work, Files)
  /\ \A i \in DOMAIN queue : Behind(queue[i].asked, work, Files)
  /\ \A i \in DOMAIN trace : IsRequest(i) =>
       /\ trace[i].asked \in Work /\ Behind(trace[i].asked, work, Files)
       /\ snap # NoSnap => Behind(trace[i].asked, snap.tree, Files \ snap.todo)

\* A snapshot is of one tree, which holds what every request before it asked with, and it
\* ends its turn.
Looked ==
  \A k \in DOMAIN trace : IsSnapshot(k) =>
    /\ trace[k].tree \in Work
    /\ \A j \in 1..(k - 1) : IsRequest(j) => Behind(trace[j].asked, trace[k].tree, Files)
    /\ \A j \in (k + 1)..Len(trace) : ~IsSnapshot(j) => trace[k].turn < trace[j].turn

InTurn ==
  /\ \A i \in DOMAIN trace : trace[i].turn <= turn
  /\ \A i, j \in DOMAIN trace : i <= j => trace[i].turn <= trace[j].turn

\* What FsCapture compares with is what the trace has last, if it has every snapshot.
Compared ==
  ~ dropped => fs = (IF SnapshotAt(Len(trace)) = 0 THEN Nil ELSE TreeAt(Len(trace)))

\* A conversation has one answer to each of its requests that is none of an error, and
\* what it has not yet brought, or is still queued, is in no event.
Answers ==
  /\ \A i \in DOMAIN queue : /\ queue[i].n <= lane[queue[i].lane].n
                             /\ queue[i].ok => queue[i].n < lane[queue[i].lane].n
  /\ \A i, j \in DOMAIN queue :
       queue[i].ok /\ queue[j].ok /\ IdOf(queue[i]) = IdOf(queue[j]) => i = j
ToCome(t) ==
  \/ t[2] >= lane[t[1]].n
  \/ \E i \in DOMAIN queue : queue[i].ok /\ IdOf(queue[i]) = t
Called ==
  /\ \A t \in Tool : ToCome(t) => pending[t] = 0
  /\ \A t \in Tool : pending[t] # 0 =>
       /\ pending[t] \in DOMAIN trace /\ trace[pending[t]].type = "tool.call"
       /\ IdOf(trace[pending[t]]) = t
  /\ \A i \in DOMAIN trace : trace[i].type = "tool.call" =>
       IdOf(trace[i]) \in Tool /\ pending[IdOf(trace[i])] = i
Returned ==
  \A i \in DOMAIN trace : trace[i].type = "tool.result" => IdOf(trace[i]) \in closed

RecorderBooks ==
  /\ Recorder /\ Asked /\ Looked /\ InTurn /\ Compared /\ Answers /\ Called /\ Returned
  /\ CausesAreTrue /\ ChangesAddUp

-----------------------------------------------------------------------------
(* The greatest of finitely many numbers, and the rank of one among them. *)

LastOf(S) == IF S = {} THEN 0 ELSE CHOOSE j \in S : \A k \in S : k <= j

LEMMA GreatestExists ==
  ASSUME NEW S \in SUBSET Nat, IsFiniteSet(S), S # {}
  PROVE  \E r \in S : \A t \in S : t <= r
<1> DEFINE later(r) == {s \in S : s > r}
           T == {later(r) : r \in S}
<1>1. T \subseteq SUBSET S /\ T # {}
  OBVIOUS
<1>2. PICK r \in S : \A t \in S : <<later(t), later(r)>> \notin StrictSubsetOrdering(S)
  <2>1. PICK x \in T : \A y \in T : <<y, x>> \notin StrictSubsetOrdering(S)
    <3> HIDE DEF T
    <3>1. IsWellFoundedOn(StrictSubsetOrdering(S), SUBSET S)
      BY FS_StrictSubsetOrderingWellFounded, FS_FiniteSubsetsOfFinite
    <3> QED
      BY <1>1, <3>1, WFMin
  <2> QED
    BY <2>1
<1>3. \A t \in S : t <= r
  <2> SUFFICES ASSUME NEW t \in S, ~ (t <= r) PROVE FALSE
    OBVIOUS
  <2>0. t > r /\ ~ (t > t) /\ \A s \in S : s > t => s > r
    OBVIOUS
  <2>1. /\ later(t) \subseteq later(r) /\ t \in later(r) /\ t \notin later(t)
        /\ later(t) \in SUBSET S /\ later(r) \in SUBSET S
    BY <2>0
  <2>2. <<later(t), later(r)>> \in StrictSubsetOrdering(S)
    <3> HIDE DEF later
    <3> QED
      BY <2>1 DEF StrictSubsetOrdering
  <2> QED
    BY <1>2, <2>2
<1> QED
  BY <1>3

LEMMA LastOfIs ==
  ASSUME NEW n \in Nat, NEW S \in SUBSET (1..n)
  PROVE  \/ S = {} /\ LastOf(S) = 0
         \/ LastOf(S) \in S /\ \A k \in S : k <= LastOf(S)
<1>1. S \in SUBSET Nat
  OBVIOUS
<1>2. IsFiniteSet(1..n)
  BY FS_Interval
<1>3. IsFiniteSet(S)
  BY <1>2, FS_Subset
<1>4. CASE S # {}
  BY <1>1, <1>3, <1>4, GreatestExists DEF LastOf
<1> QED
  BY <1>4 DEF LastOf

\* Where an element stands among those of a set.
UpTo(S, x) == {y \in S : y <= x}
Rank(S, x) == Cardinality(UpTo(S, x))

LEMMA RankIs ==
  ASSUME NEW S \in SUBSET Nat, IsFiniteSet(S)
  PROVE  \A i \in 1..Cardinality(S) : \E x \in S : Rank(S, x) = i
<1> DEFINE f == [x \in S |-> Rank(S, x)]
           n == Cardinality(S)
<1>0. n \in Nat
  BY FS_CardinalityType
<1>1. ASSUME NEW x \in S PROVE Rank(S, x) \in 1..n
  <2>1. UpTo(S, x) \in SUBSET S /\ x \in UpTo(S, x)
    BY DEF UpTo
  <2>2. IsFiniteSet(UpTo(S, x)) /\ Rank(S, x) <= n
    BY <2>1, FS_Subset DEF Rank
  <2>3. Rank(S, x) \in Nat /\ Rank(S, x) # 0
    BY <2>1, <2>2, FS_CardinalityType, FS_EmptySet DEF Rank
  <2> QED
    BY <1>0, <2>2, <2>3
<1>2. ASSUME NEW x \in S, NEW y \in S, x < y PROVE Rank(S, x) # Rank(S, y)
  <2>1. UpTo(S, x) \in SUBSET UpTo(S, y) /\ y \in UpTo(S, y) /\ y \notin UpTo(S, x)
    <3>1. x \in Nat /\ y \in Nat /\ S \subseteq Nat
      OBVIOUS
    <3>2. y <= y /\ ~ (y <= x) /\ \A z \in S : z <= x => z <= y
      BY <3>1, <1>2
    <3> QED
      BY <3>2 DEF UpTo
  <2>2. IsFiniteSet(UpTo(S, y))
    BY FS_Subset DEF UpTo
  <2> QED
    BY <2>1, <2>2, FS_Subset DEF Rank
<1>3. f \in [S -> 1..n] /\ \A x, y \in S : f[x] = f[y] => x = y
  <2>1. ASSUME NEW x \in S, NEW y \in S, x # y PROVE Rank(S, x) # Rank(S, y)
    <3>1. x < y \/ y < x
      BY <2>1
    <3> QED
      BY <3>1, <1>2
  <2> HIDE DEF n
  <2> QED
    BY <1>1, <2>1
<1>4. IsFiniteSet(1..n) /\ Cardinality(1..n) = n
  BY <1>0, FS_Interval
<1>5. f \in Injection(S, 1..n)
  <2> HIDE DEF f, n
  <2> QED
    BY <1>3 DEF Injection, IsInjective
<1>6. f \in Surjection(S, 1..n)
  <2> HIDE DEF f
  <2> QED
    BY <1>4, <1>5, FS_Injection
<1>7. \A i \in 1..n : \E x \in S : f[x] = i
  <2> HIDE DEF f, n
  <2> QED
    BY <1>6 DEF Surjection
<1> QED
  BY <1>7

-----------------------------------------------------------------------------
(* What an exchange is written as. *)

Events == [type : Derivable, lane : Lanes, n : Nat, by : SUBSET Nat]

LEMMA PairsCount ==
  ASSUME NEW l, NEW M, IsFiniteSet(M)
  PROVE  IsFiniteSet({l} \X M) /\ Cardinality({l} \X M) = Cardinality(M)
<1> DEFINE f == [m \in M |-> <<l, m>>]
<1>1. /\ f \in [M -> {l} \X M] /\ \A m, o \in M : f[m] = f[o] => m = o
      /\ \A t \in {l} \X M : \E m \in M : f[m] = t
  OBVIOUS
<1> HIDE DEF f
<1>2. f \in Bijection(M, {l} \X M)
  BY <1>1 DEF Bijection, Injection, IsInjective, Surjection
<1> QED
  BY <1>2, FS_Bijection DEF ExistsBijection

Joins(j, s, t) == j = s \o t

LEMMA JoinIs ==
  ASSUME NEW S, NEW s \in Seq(S), NEW t \in Seq(S), NEW j, Joins(j, s, t)
  PROVE  /\ j \in Seq(S) /\ Len(j) = Len(s) + Len(t)
         /\ \A i \in 1..Len(s) : j[i] = s[i]
         /\ \A i \in 1..Len(t) : j[Len(s) + i] = t[i]
<1>1. Len(s) \in Nat /\ Len(t) \in Nat
  BY LenProperties
<1>2. /\ j \in Seq(S) /\ Len(j) = Len(s) + Len(t)
      /\ \A i \in 1..(Len(s) + Len(t)) : j[i] = IF i <= Len(s) THEN s[i] ELSE t[i - Len(s)]
  BY ConcatProperties, Zenon DEF Joins
<1>3. ASSUME NEW i \in 1..Len(s) PROVE j[i] = s[i]
  <2>1. i \in 1..(Len(s) + Len(t)) /\ i <= Len(s)
    BY ONLY <1>1
  <2> QED
    BY ONLY <2>1, <1>2
<1>4. ASSUME NEW i \in 1..Len(t) PROVE j[Len(s) + i] = t[i]
  <2>1. /\ Len(s) + i \in 1..(Len(s) + Len(t)) /\ ~ (Len(s) + i <= Len(s))
        /\ (Len(s) + i) - Len(s) = i
    BY ONLY <1>1
  <2> QED
    BY ONLY <2>1, <1>2
<1> QED
  BY <1>2, <1>3, <1>4

LEMMA EventIs ==
  ASSUME NEW type, NEW x
  PROVE  Event(type, x) = [type |-> type, lane |-> x.lane, n |-> x.n, by |-> {}]
BY DEF Event

LEMMA FreshIs ==
  ASSUME NEW x \in Entry
  PROVE  /\ IsFiniteSet(Fresh(x)) /\ Cardinality(Fresh(x)) \in Nat
         /\ \A t \in Fresh(x) : t[1] = x.lane /\ t[2] \in Nat /\ t = <<x.lane, t[2]>>
         /\ \A i \in 1..Cardinality(Fresh(x)) :
              \E t \in Fresh(x) : Cardinality({u \in Fresh(x) : u[2] <= t[2]}) = i
<1> DEFINE l == x.lane
           M == {m \in 1..(x.n - 1) : <<l, m>> \notin closed}
<1>0. x.n \in Nat /\ x.n - 1 \in Int
  BY CheckpointsAssumption DEF Entry, CheckpointsAssumption
<1>1. M \in SUBSET (1..(x.n - 1)) /\ M \in SUBSET Nat
  BY <1>0
<1>2. IsFiniteSet(1..(x.n - 1))
  BY <1>0, FS_Interval
<1>3. IsFiniteSet(M)
  <2> HIDE DEF M
  <2> QED
    BY <1>1, <1>2, FS_Subset
<1>4. Fresh(x) = {l} \X M
  BY DEF Fresh, Carried
<1> HIDE DEF M, l
<1>5. IsFiniteSet(Fresh(x)) /\ Cardinality(Fresh(x)) = Cardinality(M) /\ Cardinality(M) \in Nat
  BY <1>3, <1>4, PairsCount, FS_CardinalityType
<1>6. ASSUME NEW t \in Fresh(x) PROVE t[1] = l /\ t[2] \in Nat /\ t = <<l, t[2]>>
  <2>1. PICK m \in M : t = <<l, m>>
    BY <1>4
  <2> QED
    BY <2>1, <1>1
<1>7. ASSUME NEW i \in 1..Cardinality(M)
      PROVE  \E t \in Fresh(x) : Cardinality({u \in Fresh(x) : u[2] <= t[2]}) = i
  <2>1. PICK m \in M : Rank(M, m) = i
    BY <1>1, <1>3, RankIs
  <2> DEFINE t == <<l, m>>
  <2>2. t \in Fresh(x) /\ t[2] = m
    BY <1>4
  <2>3. {u \in Fresh(x) : u[2] <= t[2]} = {l} \X UpTo(M, m)
    BY <1>4 DEF UpTo
  <2>4. UpTo(M, m) \in SUBSET M
    BY DEF UpTo
  <2>5. IsFiniteSet(UpTo(M, m))
    BY <2>4, <1>3, FS_Subset
  <2>6. Cardinality({l} \X UpTo(M, m)) = i
    BY <2>1, <2>5, PairsCount DEF Rank
  <2> HIDE DEF t
  <2> QED
    BY <2>2, <2>3, <2>6
<1> QED
  BY <1>5, <1>6, <1>7 DEF l

\* The k results a request carries for the first time, in order.
ResultAt(x, i) == CHOOSE t \in Fresh(x) : Cardinality({u \in Fresh(x) : u[2] <= t[2]}) = i

LEMMA ResultsAre ==
  ASSUME NEW x \in Entry
  PROVE  /\ \A i \in 1..Cardinality(Fresh(x)) :
              ResultAt(x, i) \in Fresh(x) /\ ResultAt(x, i) = <<x.lane, ResultAt(x, i)[2]>>
         /\ \A i, j \in 1..Cardinality(Fresh(x)) : ResultAt(x, i) = ResultAt(x, j) => i = j
<1>1. \A i \in 1..Cardinality(Fresh(x)) :
        /\ ResultAt(x, i) \in Fresh(x)
        /\ Cardinality({u \in Fresh(x) : u[2] <= ResultAt(x, i)[2]}) = i
  <2> SUFFICES ASSUME NEW i \in 1..Cardinality(Fresh(x))
               PROVE  /\ ResultAt(x, i) \in Fresh(x)
                      /\ Cardinality({u \in Fresh(x) : u[2] <= ResultAt(x, i)[2]}) = i
    OBVIOUS
  <2>1. \E t \in Fresh(x) : Cardinality({u \in Fresh(x) : u[2] <= t[2]}) = i
    BY FreshIs
  <2> QED
    BY <2>1 DEF ResultAt
<1>2. \A i, j \in 1..Cardinality(Fresh(x)) : ResultAt(x, i) = ResultAt(x, j) => i = j
  <2> SUFFICES ASSUME NEW i \in 1..Cardinality(Fresh(x)), NEW j \in 1..Cardinality(Fresh(x)),
                      ResultAt(x, i) = ResultAt(x, j)
               PROVE  i = j
    OBVIOUS
  <2> QED
    BY <1>1
<1> QED
  BY <1>1, <1>2, FreshIs

\* The batch of an exchange: its results, the request they led to, the response, and the
\* call it brings if it is none of an error.
LEMMA DeriveIs ==
  ASSUME NEW x \in Entry
  PROVE  LET b == Derive(x)
             k == Cardinality(Fresh(x))
         IN /\ b \in Seq(Events) /\ k \in Nat /\ Len(b) = (IF x.ok THEN k + 3 ELSE k + 2)
            /\ \A i \in 1..k :
                 b[i].type = "tool.result" /\ b[i].by = {} /\ IdOf(b[i]) = ResultAt(x, i)
            /\ b[k + 1].type = "model.request" /\ b[k + 1].by = 1..k /\ IdOf(b[k + 1]) = IdOf(x)
            /\ b[k + 2].type = "model.response" /\ b[k + 2].by = {k + 1} /\ IdOf(b[k + 2]) = IdOf(x)
            /\ x.ok => /\ b[k + 3].type = "tool.call" /\ b[k + 3].by = {k + 2}
                       /\ IdOf(b[k + 3]) = IdOf(x)
<1> DEFINE k == Cardinality(Fresh(x))
           A == [i \in 1..k |-> Event("tool.result", [x EXCEPT !.n = ResultAt(x, i)[2]])]
           q == [Event("model.request", x) EXCEPT !.by = 1..k]
           p == [Event("model.response", x) EXCEPT !.by = {k + 1}]
           c == [Event("tool.call", x) EXCEPT !.by = {k + 2}]
           B == <<q, p>>
           C == IF x.ok THEN <<c>> ELSE << >>
<1>1. Derive(x) = A \o B \o C
  BY DEF Derive, ResultAt
<1>2. k \in Nat /\ x.lane \in Lanes /\ x.n \in Nat /\ x.ok \in BOOLEAN
  BY FreshIs, CheckpointsAssumption DEF Entry, CheckpointsAssumption
<1>3. ASSUME NEW i \in 1..k
      PROVE  A[i] = [type |-> "tool.result", lane |-> x.lane, n |-> ResultAt(x, i)[2], by |-> {}]
  <2> DEFINE y == [x EXCEPT !.n = ResultAt(x, i)[2]]
  <2>1. y.lane = x.lane /\ y.n = ResultAt(x, i)[2]
    BY DEF Entry
  <2>2. A[i] = Event("tool.result", y)
    OBVIOUS
  <2> HIDE DEF y, A
  <2> QED
    BY <2>1, <2>2, EventIs
<1>4. \A i \in 1..k : ResultAt(x, i)[2] \in Nat /\ ResultAt(x, i) = <<x.lane, ResultAt(x, i)[2]>>
  BY ResultsAre, FreshIs
<1>5. \A i \in 1..k : A[i] \in Events
  <2> HIDE DEF A, k
  <2> SUFFICES ASSUME NEW i \in 1..k PROVE A[i] \in Events
    OBVIOUS
  <2> DEFINE m == ResultAt(x, i)[2]
  <2>1. m \in Nat /\ A[i] = [type |-> "tool.result", lane |-> x.lane, n |-> m, by |-> {}]
    BY <1>3, <1>4
  <2> HIDE DEF m
  <2> QED
    BY <1>2, <2>1 DEF Events, Derivable
<1>6. A \in Seq(Events) /\ Len(A) = k
  <2> DEFINE e(i) == Event("tool.result", [x EXCEPT !.n = ResultAt(x, i)[2]])
  <2>1. A = [i \in 1..k |-> e(i)] /\ \A i \in 1..k : e(i) = A[i]
    OBVIOUS
  <2> HIDE DEF e, A
  <2>2. \A i \in 1..k : e(i) \in Events
    BY <1>5, <2>1
  <2> HIDE DEF k
  <2>3. [i \in 1..k |-> e(i)] \in Seq(Events)
    BY <1>2, <2>2, IsASeq
  <2>4. Len([i \in 1..k |-> e(i)]) = k
    BY <1>2
  <2> QED
    BY <2>1, <2>3, <2>4
<1>7. /\ q = [type |-> "model.request", lane |-> x.lane, n |-> x.n, by |-> 1..k]
      /\ p = [type |-> "model.response", lane |-> x.lane, n |-> x.n, by |-> {k + 1}]
      /\ c = [type |-> "tool.call", lane |-> x.lane, n |-> x.n, by |-> {k + 2}]
  <2> HIDE DEF k
  <2>1. ASSUME NEW type, NEW by
        PROVE  [Event(type, x) EXCEPT !.by = by]
                 = [type |-> type, lane |-> x.lane, n |-> x.n, by |-> by]
    BY DEF Event
  <2> QED
    BY <2>1
<1> HIDE DEF A, q, p, c
<1>8. q \in Events /\ p \in Events /\ c \in Events
  <2>1. 1..k \in SUBSET Nat /\ {k + 1} \in SUBSET Nat /\ {k + 2} \in SUBSET Nat
    BY <1>2
  <2> QED
    BY <1>2, <1>7, <2>1 DEF Events, Derivable
<1>9. B \in Seq(Events) /\ Len(B) = 2 /\ B[1] = q /\ B[2] = p
  BY <1>8
<1>10. C \in Seq(Events) /\ Len(C) = (IF x.ok THEN 1 ELSE 0) /\ (x.ok => C[1] = c)
  BY <1>8
<1> HIDE DEF B, C, k
<1> DEFINE AB == A \o B
           b == Derive(x)
<1>11. /\ AB \in Seq(Events) /\ Len(AB) = k + 2
       /\ \A i \in 1..k : AB[i] = A[i]
       /\ AB[k + 1] = q /\ AB[k + 2] = p
  <2>1. /\ AB \in Seq(Events) /\ Len(AB) = Len(A) + Len(B)
        /\ \A i \in 1..Len(A) : AB[i] = A[i]
        /\ \A i \in 1..Len(B) : AB[Len(A) + i] = B[i]
    <3>1. Joins(AB, A, B)
      BY DEF Joins
    <3> HIDE DEF AB
    <3>2. A \in Seq(Events) /\ B \in Seq(Events)
      BY <1>6, <1>9
    <3>3. AB \in Seq(Events)
      BY <3>1, <3>2, JoinIs
    <3>4. Len(AB) = Len(A) + Len(B)
      BY <3>1, <3>2, JoinIs
    <3>5. \A i \in 1..Len(A) : AB[i] = A[i]
      BY <3>1, <3>2, JoinIs
    <3>6. \A i \in 1..Len(B) : AB[Len(A) + i] = B[i]
      BY <3>1, <3>2, JoinIs
    <3> QED
      BY <3>3, <3>4, <3>5, <3>6
  <2> HIDE DEF AB
  <2> QED
    BY <1>2, <1>6, <1>9, <2>1
<1>12. Joins(b, AB, C)
  BY <1>1 DEF Joins
<1> HIDE DEF AB, b
<1>13. /\ b \in Seq(Events) /\ Len(b) = k + 2 + Len(C)
       /\ \A i \in 1..(k + 2) : b[i] = AB[i]
       /\ \A i \in 1..Len(C) : b[k + 2 + i] = C[i]
  <2>1. /\ b \in Seq(Events) /\ Len(b) = Len(AB) + Len(C)
        /\ \A i \in 1..Len(AB) : b[i] = AB[i]
        /\ \A i \in 1..Len(C) : b[Len(AB) + i] = C[i]
    <3>1. AB \in Seq(Events) /\ C \in Seq(Events)
      BY <1>10, <1>11
    <3>2. b \in Seq(Events)
      BY <1>12, <3>1, JoinIs
    <3>3. Len(b) = Len(AB) + Len(C)
      BY <1>12, <3>1, JoinIs
    <3>4. \A i \in 1..Len(AB) : b[i] = AB[i]
      BY <1>12, <3>1, JoinIs
    <3>5. \A i \in 1..Len(C) : b[Len(AB) + i] = C[i]
      BY <1>12, <3>1, JoinIs
    <3> QED
      BY <3>2, <3>3, <3>4, <3>5
  <2> QED
    BY ONLY <2>1, <1>11
<1>14. (\A i \in 1..k : b[i] = A[i]) /\ b[k + 1] = q /\ b[k + 2] = p
  <2>1. \A i \in 1..k : i \in 1..(k + 2)
    BY ONLY <1>2
  <2>2. k + 1 \in 1..(k + 2) /\ k + 2 \in 1..(k + 2)
    BY ONLY <1>2
  <2> QED
    BY ONLY <2>1, <2>2, <1>11, <1>13
<1>15. x.ok => b[k + 3] = c
  <2>1. k + 2 + 1 = k + 3 /\ 1 \in 1..1
    BY ONLY <1>2
  <2> QED
    BY ONLY <2>1, <1>10, <1>13
<1>16. Len(b) = IF x.ok THEN k + 3 ELSE k + 2
  BY <1>2, <1>10, <1>13
<1>17. \A i \in 1..k : /\ b[i].type = "tool.result" /\ b[i].by = {}
                       /\ IdOf(b[i]) = ResultAt(x, i)
  <2> SUFFICES ASSUME NEW i \in 1..k
               PROVE  /\ b[i].type = "tool.result" /\ b[i].by = {}
                      /\ IdOf(b[i]) = ResultAt(x, i)
    OBVIOUS
  <2>1. b[i] = [type |-> "tool.result", lane |-> x.lane, n |-> ResultAt(x, i)[2], by |-> {}]
    BY <1>3, <1>14 DEF k
  <2>2. ResultAt(x, i) = <<x.lane, ResultAt(x, i)[2]>>
    BY <1>4 DEF k
  <2> QED
    BY <2>1, <2>2 DEF IdOf
<1> QED
  BY <1>2, <1>7, <1>13, <1>14, <1>15, <1>16, <1>17 DEF IdOf, b, k

-----------------------------------------------------------------------------
(* A trace that grows: what is said of an event is said of what came before it. *)

Grown(log, more) ==
  more \in Seq(Line) /\ Len(log) <= Len(more) /\ \A j \in 1..Len(log) : more[j] = log[j]

Earlier(log, type, id, i) == {j \in 1..(i - 1) : log[j].type = type /\ IdOf(log[j]) = id}

CauseTrue(log, i) ==
  LET e == log[i] IN
  /\ e.type = "tool.result" =>
       /\ e.causes = Earlier(log, "tool.call", IdOf(e), i)
       /\ Earlier(log, "tool.result", IdOf(e), i) = {}
  /\ e.type = "model.response" =>
       /\ Cardinality(e.causes) = 1
       /\ \A j \in e.causes : /\ j \in Earlier(log, "model.request", IdOf(e), i)
                              /\ log[j].turn = e.turn
  /\ e.type = "model.request" =>
       e.causes = {j \in 1..(i - 1) : log[j].type = "tool.result" /\ log[j].turn = e.turn}
  /\ e.type = "tool.call" =>
       e.causes # {} /\ e.causes \subseteq Earlier(log, "model.response", IdOf(e), i)

LEMMA EarlierIs ==
  ASSUME NEW log \in Seq(Line), NEW i \in 1..Len(log), NEW type, NEW id
  PROVE  {j \in {k \in DOMAIN log : log[k].type = type /\ IdOf(log[k]) = id} : j < i}
           = Earlier(log, type, id, i)
<1>1. DOMAIN log = 1..Len(log) /\ Len(log) \in Nat
  BY LenProperties
<1>2. \A j : (j \in 1..Len(log) /\ j < i) <=> j \in 1..(i - 1)
  BY <1>1
<1> QED
  BY <1>1, <1>2 DEF Earlier

CausesTrue(log) ==
  \A i \in DOMAIN log :
    LET e == log[i]
        earlier(type, id) ==
          {j \in {k \in DOMAIN log : log[k].type = type /\ IdOf(log[k]) = id} : j < i}
    IN /\ e.type = "tool.result" =>
            e.causes = earlier("tool.call", IdOf(e)) /\ earlier("tool.result", IdOf(e)) = {}
       /\ e.type = "model.response" =>
            /\ Cardinality(e.causes) = 1
            /\ \A j \in e.causes : j \in earlier("model.request", IdOf(e)) /\ log[j].turn = e.turn
       /\ e.type = "model.request" =>
            e.causes = {j \in 1..(i - 1) : /\ log[j].type = "tool.result"
                                           /\ log[j].turn = e.turn}
       /\ e.type = "tool.call" =>
            e.causes # {} /\ e.causes \subseteq earlier("model.response", IdOf(e))

LEMMA CausesAre ==
  (CausesAreTrue <=> CausesTrue(trace)) /\ (CausesAreTrue' <=> CausesTrue(trace'))
BY DEF CausesAreTrue, CausesTrue, Where

LEMMA CausesTrueIs ==
  ASSUME NEW log \in Seq(Line)
  PROVE  CausesTrue(log) <=> \A i \in 1..Len(log) : CauseTrue(log, i)
<1> DEFINE earlier(i, type, id) ==
             {j \in {k \in DOMAIN log : log[k].type = type /\ IdOf(log[k]) = id} : j < i}
           says(i) ==
             /\ log[i].type = "tool.result" =>
                  /\ log[i].causes = earlier(i, "tool.call", IdOf(log[i]))
                  /\ earlier(i, "tool.result", IdOf(log[i])) = {}
             /\ log[i].type = "model.response" =>
                  /\ Cardinality(log[i].causes) = 1
                  /\ \A j \in log[i].causes : /\ j \in earlier(i, "model.request", IdOf(log[i]))
                                              /\ log[j].turn = log[i].turn
             /\ log[i].type = "model.request" =>
                  log[i].causes = {j \in 1..(i - 1) : /\ log[j].type = "tool.result"
                                                     /\ log[j].turn = log[i].turn}
             /\ log[i].type = "tool.call" =>
                  /\ log[i].causes # {}
                  /\ log[i].causes \subseteq earlier(i, "model.response", IdOf(log[i]))
<1>1. DOMAIN log = 1..Len(log)
  BY LenProperties
<1>2. CausesTrue(log) <=> \A i \in DOMAIN log : says(i)
  BY DEF CausesTrue
<1>3. ASSUME NEW i \in 1..Len(log), NEW type, NEW id
      PROVE  earlier(i, type, id) = Earlier(log, type, id, i)
  BY EarlierIs
<1> HIDE DEF earlier
<1>4. ASSUME NEW i \in 1..Len(log) PROVE says(i) <=> CauseTrue(log, i)
  <2>1. \A type, id : earlier(i, type, id) = Earlier(log, type, id, i)
    BY <1>3
  <2> QED
    BY <2>1 DEF CauseTrue
<1> HIDE DEF says
<1> QED
  BY <1>1, <1>2, <1>4

LEMMA CauseStaysTrue ==
  ASSUME NEW log \in Seq(Line), NEW more, Grown(log, more), NEW i \in 1..Len(log),
         CauseTrue(log, i)
  PROVE  CauseTrue(more, i)
<1>1. Len(log) \in Nat
  BY LenProperties
<1>2. \A j \in 1..(i - 1) : j \in 1..Len(log)
  BY <1>1
<1>3. more[i] = log[i] /\ \A j \in 1..(i - 1) : more[j] = log[j]
  BY <1>2 DEF Grown
<1>4. \A type, id : Earlier(more, type, id, i) = Earlier(log, type, id, i)
  BY <1>3 DEF Earlier
<1>5. {j \in 1..(i - 1) : more[j].type = "tool.result" /\ more[j].turn = more[i].turn}
        = {j \in 1..(i - 1) : log[j].type = "tool.result" /\ log[j].turn = log[i].turn}
  BY <1>3
<1>6. \A type, id, j : j \in Earlier(log, type, id, i) => more[j] = log[j]
  BY <1>3 DEF Earlier
<1> QED
  BY <1>3, <1>4, <1>5, <1>6 DEF CauseTrue

\* The snapshots of a trace up to an event, and what the last of them changed.
Snapshots(log, i) == {j \in 1..i : log[j].type = "fs.snapshot"}
LastTree(log, i) == log[LastOf(Snapshots(log, i))].tree
ChangeTrue(log, i) ==
  log[i].changed = IF LastOf(Snapshots(log, i - 1)) = 0 THEN {}
                   ELSE {p \in Files : LastTree(log, i - 1)[p] # LastTree(log, i)[p]}
ChangesTrue(log) ==
  \A i \in DOMAIN log : log[i].type = "fs.snapshot" => ChangeTrue(log, i)
LastIs(log, held) ==
  held = (IF LastOf(Snapshots(log, Len(log))) = 0 THEN Nil ELSE LastTree(log, Len(log)))

LEMMA SnapshotAtIs ==
  /\ \A i : SnapshotAt(i) = LastOf(Snapshots(trace, i)) /\ TreeAt(i) = LastTree(trace, i)
  /\ \A i : SnapshotAt(i)' = LastOf(Snapshots(trace', i)) /\ TreeAt(i)' = LastTree(trace', i)
BY DEF SnapshotAt, TreeAt, LastTree, LastOf, Snapshots

LEMMA SnapshotBooks ==
  /\ ChangesAddUp <=> (~ dropped => ChangesTrue(trace))
  /\ ChangesAddUp' <=> (~ dropped' => ChangesTrue(trace'))
  /\ Compared <=> (~ dropped => LastIs(trace, fs))
  /\ Compared' <=> (~ dropped' => LastIs(trace', fs'))
BY SnapshotAtIs DEF ChangesAddUp, ChangesTrue, ChangeTrue, Compared, LastIs

LEMMA SnapshotsGrow ==
  ASSUME NEW log \in Seq(Line), NEW more, Grown(log, more), NEW i \in 0..Len(log)
  PROVE  /\ Snapshots(more, i) = Snapshots(log, i)
         /\ LastOf(Snapshots(more, i)) = LastOf(Snapshots(log, i))
         /\ LastOf(Snapshots(log, i)) # 0 => LastTree(more, i) = LastTree(log, i)
<1>1. Len(log) \in Nat /\ i \in Nat
  BY LenProperties
<1>2. \A j \in 1..i : j \in 1..Len(log)
  BY <1>1
<1>3. \A j \in 1..i : more[j] = log[j]
  BY <1>2 DEF Grown
<1>4. Snapshots(more, i) = Snapshots(log, i)
  BY <1>3 DEF Snapshots
<1>5. Snapshots(log, i) \in SUBSET (1..i)
  BY DEF Snapshots
<1>6. LastOf(Snapshots(log, i)) # 0 => LastOf(Snapshots(log, i)) \in 1..i
  BY <1>1, <1>5, LastOfIs
<1> QED
  BY <1>3, <1>4, <1>6 DEF LastTree

LEMMA ChangeStaysTrue ==
  ASSUME NEW log \in Seq(Line), NEW more, Grown(log, more), NEW i \in 1..Len(log),
         log[i].type = "fs.snapshot", ChangeTrue(log, i)
  PROVE  ChangeTrue(more, i)
<1>1. Len(log) \in Nat /\ i \in Nat /\ i \in 0..Len(log) /\ i - 1 \in 0..Len(log)
  BY LenProperties
<1>2. more[i] = log[i]
  BY DEF Grown
<1>3. i \in Snapshots(log, i) /\ Snapshots(log, i) \in SUBSET (1..i)
  BY <1>1 DEF Snapshots
<1>4. LastOf(Snapshots(log, i)) # 0
  <2> DEFINE S == Snapshots(log, i)
  <2>1. S \in SUBSET (1..i) /\ i \in S
    BY <1>3
  <2> HIDE DEF S
  <2>2. LastOf(S) \in S
    BY <1>1, <2>1, LastOfIs
  <2>3. LastOf(S) \in 1..i
    BY <2>1, <2>2
  <2>4. LastOf(S) # 0
    BY ONLY <1>1, <2>3
  <2> QED
    BY <2>4 DEF S
<1>5. /\ LastOf(Snapshots(more, i - 1)) = LastOf(Snapshots(log, i - 1))
      /\ LastOf(Snapshots(log, i - 1)) # 0 => LastTree(more, i - 1) = LastTree(log, i - 1)
  BY <1>1, SnapshotsGrow
<1>6. LastTree(more, i) = LastTree(log, i)
  BY <1>1, <1>4, SnapshotsGrow
<1>7. CASE LastOf(Snapshots(log, i - 1)) = 0
  BY <1>2, <1>5, <1>7 DEF ChangeTrue
<1>8. CASE LastOf(Snapshots(log, i - 1)) # 0
  BY <1>2, <1>5, <1>6, <1>8 DEF ChangeTrue
<1> QED
  BY <1>7, <1>8

-----------------------------------------------------------------------------
(* The steps that leave the trace alone. *)

Conversation == [n : 1..(Depth + 1), phase : {"thinking", "asked"}, asked : Work]
Look == [attempt : 0..Attempts, todo : SUBSET Files, tree : Work, fresh : BOOLEAN]

LEMMA RecorderFields ==
  ASSUME Recorder
  PROVE  /\ work \in Work /\ (\A p \in Files : work[p] \in Nat /\ work[p] <= edits)
         /\ lane \in [Lanes -> Conversation] /\ snap \in Look
         /\ (\A l \in Lanes : /\ lane[l] \in Conversation /\ lane[l].n \in Nat
                              /\ lane[l].n \in 1..(Depth + 1) /\ lane[l].asked \in Work)
         /\ snap.todo \subseteq Files /\ snap.tree \in Work
         /\ queue \in Seq(Entry) /\ trace \in Seq(Line) /\ turn \in Nat
         /\ edits \in Nat /\ edits <= MaxEdits /\ trouble \in 0..MaxTrouble
         /\ pending \in [Tool -> Nat] /\ closed \subseteq Tool /\ fs \in Work \union {Nil}
         /\ noted \in BOOLEAN /\ told \in BOOLEAN /\ dropped \in BOOLEAN
         /\ Depth \in Nat \ {0} /\ MaxEdits \in Nat
<1>1. Depth \in Nat \ {0} /\ MaxEdits \in Nat
  BY CheckpointsAssumption DEF CheckpointsAssumption
<1>2. CheckTypeOK /\ turn \in Nat /\ queue \in Seq(Entry) /\ trace \in Seq(Line)
      /\ \A p \in Files : work[p] <= edits
  BY DEF Recorder
<1>3. lane \in [Lanes -> Conversation] /\ snap \in Look
  BY <1>2 DEF CheckTypeOK, Conversation, Look
<1>4. \A l \in Lanes : /\ lane[l] \in Conversation /\ lane[l].n \in Nat
                       /\ lane[l].n \in 1..(Depth + 1) /\ lane[l].asked \in Work
  BY <1>1, <1>3 DEF Conversation
<1>5. snap.todo \subseteq Files /\ snap.tree \in Work
  BY <1>3 DEF Look
<1>6. work \in Work /\ \A p \in Files : work[p] \in Nat
  BY <1>2 DEF CheckTypeOK, Work
<1>7. edits \in Nat /\ edits <= MaxEdits
  BY <1>1, <1>2 DEF CheckTypeOK
<1> QED
  BY <1>1, <1>2, <1>3, <1>4, <1>5, <1>6, <1>7 DEF CheckTypeOK

LEMMA EntriesAre ==
  ASSUME Recorder
  PROVE  /\ Len(queue) \in Nat /\ DOMAIN queue = 1..Len(queue)
         /\ \A i \in 1..Len(queue) :
              /\ queue[i] \in Entry /\ queue[i].lane \in Lanes /\ queue[i].n \in Nat
              /\ queue[i].n \in 1..Depth /\ queue[i].asked \in Work /\ IdOf(queue[i]) \in Tool
         /\ Len(trace) \in Nat /\ DOMAIN trace = 1..Len(trace)
         /\ \A i \in 1..Len(trace) : trace[i] \in Line /\ trace[i].turn \in Nat
<1>1. queue \in Seq(Entry) /\ trace \in Seq(Line) /\ Depth \in Nat
  BY RecorderFields
<1>2. /\ Len(queue) \in Nat /\ DOMAIN queue = 1..Len(queue)
      /\ \A i \in 1..Len(queue) : queue[i] \in Entry
  BY <1>1, LenProperties, ElementOfSeq
<1>3. /\ Len(trace) \in Nat /\ DOMAIN trace = 1..Len(trace)
      /\ \A i \in 1..Len(trace) : trace[i] \in Line
  BY <1>1, LenProperties, ElementOfSeq
<1>4. \A x \in Entry : /\ x.lane \in Lanes /\ x.n \in Nat /\ x.n \in 1..Depth
                       /\ x.asked \in Work /\ IdOf(x) \in Tool
  BY <1>1 DEF Entry, IdOf, Tool
<1>5. \A e \in Line : e.turn \in Nat
  BY DEF Line
<1> QED
  BY <1>2, <1>3, <1>4, <1>5

LEMMA WorkIs ==
  /\ Blank \in Work /\ \A w \in Work, p \in Files : w[p] \in Nat /\ Blank[p] <= w[p]
  /\ Nil \notin Work
BY CheckpointsAssumption DEF CheckpointsAssumption, Work, Blank, Files

LEMMA BehindStays ==
  ASSUME NEW a \in Work, NEW w \in Work, NEW v \in Work, NEW F, F \subseteq Files,
         Behind(a, w, F), \A p \in F : w[p] <= v[p]
  PROVE  Behind(a, v, F)
<1> SUFFICES ASSUME NEW p \in F PROVE a[p] <= v[p]
  BY DEF Behind
<1>1. a[p] \in Nat /\ w[p] \in Nat /\ v[p] \in Nat
  BY WorkIs
<1>2. a[p] <= w[p] /\ w[p] <= v[p]
  BY DEF Behind
<1> QED
  BY ONLY <1>1, <1>2

LEMMA StillBooks ==
  ASSUME RecorderBooks, UNCHANGED <<trace, turn, closed, dropped, fs>>
  PROVE  Looked' /\ InTurn' /\ Compared' /\ Returned' /\ CausesAreTrue' /\ ChangesAddUp'
<1>1. trace' = trace /\ turn' = turn /\ closed' = closed /\ dropped' = dropped /\ fs' = fs
  OBVIOUS
<1>2. Looked'
  BY <1>1 DEF RecorderBooks, Looked, IsSnapshot, IsRequest
<1>3. InTurn' /\ Returned'
  BY <1>1 DEF RecorderBooks, InTurn, Returned
<1>4. Compared' /\ ChangesAddUp'
  BY <1>1, SnapshotBooks DEF RecorderBooks
<1>5. CausesAreTrue'
  BY <1>1, CausesAre DEF RecorderBooks
<1> QED
  BY <1>2, <1>3, <1>4, <1>5

LEMMA CallsStay ==
  ASSUME Called, UNCHANGED <<trace, pending>>, \A t \in Tool : ToCome(t)' => ToCome(t)
  PROVE  Called'
BY DEF Called

\* What has read nothing new is no further behind.
LEMMA AskedStays ==
  ASSUME RecorderBooks, UNCHANGED <<trace, work>>,
         \A l \in Lanes : Behind(lane'[l].asked, work, Files),
         \A i \in DOMAIN queue' : Behind(queue'[i].asked, work, Files),
         snap' # NoSnap =>
           \A i \in DOMAIN trace : IsRequest(i) =>
             Behind(trace[i].asked, snap'.tree, Files \ snap'.todo)
  PROVE  Asked'
BY DEF RecorderBooks, Asked, IsRequest

LEMMA EditKeeps ==
  ASSUME RecorderBooks, NEW p \in Files, Edit(p)
  PROVE  RecorderBooks'
<1>0. Recorder
  BY DEF RecorderBooks
<1>1. /\ work' = [work EXCEPT ![p] = @ + 1] /\ edits' = edits + 1 /\ edits < MaxEdits
      /\ UNCHANGED <<lane, queue, snap, fs, noted, told, dropped, turn, pending,
                     closed, trace, trouble>>
  BY DEF Edit, fsVars, deriverVars
<1>2. work' \in [Files -> Nat] /\ \A q \in Files : work'[q] = IF q = p THEN work[q] + 1 ELSE work[q]
  BY <1>0, <1>1, RecorderFields DEF Work
<1>3. \A q \in Files : work[q] <= work'[q] /\ work'[q] <= edits' /\ work'[q] \in 0..MaxEdits
  BY <1>0, <1>1, <1>2, RecorderFields
<1>4. work' \in Work /\ edits' \in 0..MaxEdits
  BY <1>0, <1>1, <1>2, <1>3, RecorderFields DEF Work
<1>5. Recorder'
  BY <1>0, <1>1, <1>3, <1>4 DEF Recorder, CheckTypeOK
<1>6. ASSUME NEW a \in Work, Behind(a, work, Files) PROVE Behind(a, work', Files)
  BY <1>0, <1>3, <1>4, <1>6, BehindStays, RecorderFields
<1>7. Asked'
  <2>1. \A l \in Lanes : Behind(lane[l].asked, work', Files)
    BY <1>0, <1>6, RecorderFields DEF RecorderBooks, Asked
  <2>2. \A i \in DOMAIN queue : queue[i].asked \in Work
    BY <1>0, EntriesAre
  <2>3. \A i \in DOMAIN queue : Behind(queue[i].asked, work', Files)
    BY <1>6, <2>2 DEF RecorderBooks, Asked
  <2>4. \A i \in DOMAIN trace : IsRequest(i) => Behind(trace[i].asked, work', Files)
    BY <1>6 DEF RecorderBooks, Asked
  <2> QED
    BY <1>1, <2>1, <2>3, <2>4 DEF RecorderBooks, Asked, IsRequest
<1>8. Answers' /\ Called'
  BY <1>1 DEF RecorderBooks, Answers, Called, ToCome
<1> QED
  BY <1>1, <1>5, <1>7, <1>8, StillBooks DEF RecorderBooks

LEMMA AskKeeps ==
  ASSUME RecorderBooks, NEW l \in Lanes, Ask(l)
  PROVE  RecorderBooks'
<1> DEFINE new == [n |-> lane[l].n, phase |-> "asked", asked |-> work]
<1>0. Recorder
  BY DEF RecorderBooks
<1>1. /\ lane' = [lane EXCEPT ![l].phase = "asked", ![l].asked = work] /\ lane[l].n <= Depth
      /\ UNCHANGED <<work, edits, queue, snap, fs, noted, told, dropped, turn, pending,
                     closed, trace, trouble>>
  BY DEF Ask, fsVars, deriverVars
<1>2. new \in Conversation
  BY <1>0, RecorderFields DEF Conversation
<1>3. /\ lane' \in [Lanes -> Conversation] /\ lane'[l].n = lane[l].n /\ lane'[l].asked = work
      /\ \A k \in Lanes : k # l => lane'[k] = lane[k]
  <2>1. lane \in [Lanes -> Conversation] /\ work \in Work
    BY <1>0, RecorderFields
  <2>2. lane' = [lane EXCEPT ![l].phase = "asked", ![l].asked = work]
    BY <1>1
  <2> QED
    BY ONLY <2>1, <2>2 DEF Conversation
<1>4. \A k \in Lanes : lane'[k].n = lane[k].n
  BY <1>3
<1>5. Recorder'
  BY <1>0, <1>1, <1>3 DEF Recorder, CheckTypeOK, Conversation
<1>6. Behind(work, work, Files)
  BY <1>0, RecorderFields DEF Behind
<1>7. Asked'
  <2>1. \A k \in Lanes : Behind(lane'[k].asked, work, Files)
    BY <1>3, <1>6 DEF RecorderBooks, Asked
  <2> QED
    BY <1>1, <2>1, AskedStays DEF RecorderBooks, Asked
<1>8. Answers'
  <2>1. \A i \in DOMAIN queue : queue[i].lane \in Lanes
    BY <1>0, EntriesAre
  <2> QED
    BY <1>1, <1>4, <2>1 DEF RecorderBooks, Answers
<1>9. Called'
  <2>1. \A t \in Tool : t[1] \in Lanes
    BY DEF Tool
  <2>2. \A t \in Tool : ToCome(t)' => ToCome(t)
    BY <1>1, <1>4, <2>1 DEF ToCome
  <2> QED
    BY <1>1, <2>2, CallsStay DEF RecorderBooks
<1> QED
  BY <1>1, <1>5, <1>7, <1>8, <1>9, StillBooks DEF RecorderBooks

LEMMA AnsweredKeeps ==
  ASSUME RecorderBooks, NEW l \in Lanes, NEW ok \in BOOLEAN, Answered(l, ok)
  PROVE  RecorderBooks'
<1> DEFINE x == [lane |-> l, n |-> lane[l].n, ok |-> ok, asked |-> lane[l].asked]
           m == IF ok THEN lane[l].n + 1 ELSE lane[l].n
           N == Len(queue)
<1>0. Recorder /\ N \in Nat /\ DOMAIN queue = 1..N
  BY EntriesAre DEF RecorderBooks
<1>1. /\ queue' = Append(queue, x) /\ lane[l].phase = "asked"
      /\ ok \/ trouble < MaxTrouble
      /\ trouble' = IF ok THEN trouble ELSE trouble + 1
      /\ UNCHANGED <<work, edits, snap, fs, noted, told, dropped, turn, pending, closed, trace>>
  BY DEF Answered, fsVars, deriverVars
<1>2. lane' = [lane EXCEPT ![l] = [n |-> m, phase |-> "thinking", asked |-> Blank]]
  BY DEF Answered
<1>3. lane[l].n \in 1..Depth /\ lane[l].n \in Nat /\ lane[l].asked \in Work
  <2>1. lane[l].n <= Depth
    BY <1>0, <1>1 DEF Recorder
  <2>2. lane[l].n \in Nat /\ lane[l].n \in 1..(Depth + 1) /\ Depth \in Nat /\ lane[l].asked \in Work
    BY <1>0, RecorderFields
  <2> QED
    BY <2>1, <2>2
<1>4. m \in 1..(Depth + 1) /\ m \in Nat /\ lane[l].n <= m /\ (ok => lane[l].n < m)
  BY <1>0, <1>3, RecorderFields
<1>5. x \in Entry /\ x.lane = l /\ x.n = lane[l].n /\ x.ok = ok /\ x.asked = lane[l].asked
  BY <1>3 DEF Entry
<1> HIDE DEF x, m
<1>6. /\ lane' \in [Lanes -> Conversation]
      /\ lane'[l].n = m /\ lane'[l].phase = "thinking" /\ lane'[l].asked = Blank
      /\ \A k \in Lanes : k # l => lane'[k] = lane[k]
  BY <1>0, <1>2, <1>4, RecorderFields, WorkIs DEF Conversation
<1>7. /\ queue' \in Seq(Entry) /\ Len(queue') = N + 1 /\ DOMAIN queue' = 1..(N + 1)
      /\ \A i \in 1..N : queue'[i] = queue[i]
      /\ queue'[N + 1] = x
  <2>1. queue \in Seq(Entry)
    BY <1>0, RecorderFields
  <2>2. /\ queue' \in Seq(Entry) /\ Len(queue') = N + 1
        /\ \A i \in 1..N : queue'[i] = queue[i]
        /\ queue'[N + 1] = x
    BY <1>1, <1>5, <2>1, AppendProperties
  <2>3. DOMAIN queue' = 1..Len(queue')
    BY <2>2, LenProperties
  <2> QED
    BY <2>2, <2>3
<1> HIDE DEF N
<1>8. \A i \in 1..(N + 1) : i \in 1..N \/ i = N + 1
  BY <1>0
<1>9. \A k \in Lanes : lane[k].n <= lane'[k].n
  BY <1>0, <1>4, <1>6, RecorderFields
<1>10. trouble' \in 0..MaxTrouble
  <2>1. trouble \in 0..MaxTrouble /\ MaxTrouble \in Nat
    BY <1>0, RecorderFields, CheckpointsAssumption DEF CheckpointsAssumption
  <2> QED
    BY ONLY <2>1, <1>1
<1>11. Recorder'
  <2>1. \A k \in Lanes : lane'[k].phase = "asked" => lane'[k].n <= Depth
    BY <1>0, <1>6 DEF Recorder
  <2> QED
    BY <1>0, <1>1, <1>6, <1>7, <1>10, <2>1 DEF Recorder, CheckTypeOK, Conversation
<1>12. Asked'
  <2>1. Behind(Blank, work, Files)
    BY <1>0, RecorderFields, WorkIs DEF Behind
  <2>2. \A k \in Lanes : Behind(lane'[k].asked, work, Files)
    BY <1>6, <2>1 DEF RecorderBooks, Asked
  <2>3. Behind(x.asked, work, Files)
    BY <1>5 DEF RecorderBooks, Asked
  <2>4. \A i \in DOMAIN queue' : Behind(queue'[i].asked, work, Files)
    BY <1>0, <1>7, <1>8, <2>3 DEF RecorderBooks, Asked
  <2> QED
    BY <1>1, <2>2, <2>4, AskedStays DEF RecorderBooks, Asked
<1>13. \A i \in 1..N : queue[i].ok /\ queue[i].lane = l => queue[i].n < lane[l].n
  BY <1>0 DEF RecorderBooks, Answers
<1>14. \A i \in 1..N : queue[i].ok => IdOf(queue[i]) # IdOf(x)
  <2> SUFFICES ASSUME NEW i \in 1..N, queue[i].ok, IdOf(queue[i]) = IdOf(x) PROVE FALSE
    OBVIOUS
  <2>1. queue[i].lane = l /\ queue[i].n = lane[l].n
    BY <1>5 DEF IdOf
  <2>2. queue[i].n < lane[l].n
    BY <1>13, <2>1
  <2> QED
    BY <2>1, <2>2, <1>3
<1>15. Answers'
  <2>1. ASSUME NEW i \in 1..(N + 1)
        PROVE  /\ queue'[i].n <= lane'[queue'[i].lane].n
               /\ queue'[i].ok => queue'[i].n < lane'[queue'[i].lane].n
    <3>1. CASE i = N + 1
      BY <3>1, <1>4, <1>5, <1>6, <1>7
    <3>2. CASE i \in 1..N
      <4> DEFINE k == queue[i].lane
      <4>1. k \in Lanes /\ queue[i].n \in Nat
        BY <1>0, <3>2, EntriesAre DEF N
      <4>2. queue[i].n <= lane[k].n /\ (queue[i].ok => queue[i].n < lane[k].n)
        BY <1>0, <3>2 DEF RecorderBooks, Answers
      <4>3. lane[k].n <= lane'[k].n /\ lane[k].n \in Nat /\ lane'[k].n \in Nat
        <5>1. lane'[k] \in Conversation /\ Depth \in Nat
          BY <1>0, <1>6, <4>1, RecorderFields
        <5>2. lane'[k].n \in Nat
          BY <5>1 DEF Conversation
        <5> QED
          BY <1>0, <1>9, <4>1, <5>2, RecorderFields
      <4> HIDE DEF k
      <4>4. queue[i].n <= lane'[k].n /\ (queue[i].ok => queue[i].n < lane'[k].n)
        BY ONLY <4>1, <4>2, <4>3
      <4> QED
        BY <1>7, <3>2, <4>4 DEF k
    <3> QED
      BY <1>8, <3>1, <3>2
  <2>2. \A i, j \in 1..(N + 1) :
          queue'[i].ok /\ queue'[j].ok /\ IdOf(queue'[i]) = IdOf(queue'[j]) => i = j
    <3>1. \A i, j \in 1..N : queue[i].ok /\ queue[j].ok /\ IdOf(queue[i]) = IdOf(queue[j]) => i = j
      BY <1>0 DEF RecorderBooks, Answers
    <3> QED
      BY <1>7, <1>8, <1>14, <3>1
  <2> QED
    BY <1>7, <2>1, <2>2 DEF Answers
<1>16. Called'
  <2>1. ASSUME NEW t \in Tool, ToCome(t)' PROVE ToCome(t)
    <3>0. t[1] \in Lanes /\ t[2] \in Nat /\ t = <<t[1], t[2]>>
      BY <1>0, RecorderFields DEF Tool
    <3>1. CASE t[2] >= lane'[t[1]].n
      <4>1. lane[t[1]].n <= lane'[t[1]].n /\ lane[t[1]].n \in Nat
        BY <1>0, <1>9, <3>0, RecorderFields
      <4>2. lane'[t[1]].n \in Nat
        <5>1. lane'[t[1]] \in Conversation /\ Depth \in Nat
          BY <1>0, <1>6, <3>0, RecorderFields
        <5> QED
          BY <5>1 DEF Conversation
      <4>3. t[2] >= lane[t[1]].n
        BY ONLY <3>0, <3>1, <4>1, <4>2
      <4> QED
        BY <4>3 DEF ToCome
    <3>2. ASSUME NEW i \in DOMAIN queue', queue'[i].ok, IdOf(queue'[i]) = t PROVE ToCome(t)
      <4>1. CASE i \in 1..N
        BY <1>0, <1>7, <3>2, <4>1 DEF ToCome
      <4>2. CASE i = N + 1
        <5>1. IdOf(x) = t
          BY <1>7, <3>2, <4>2
        <5>2. t[1] = l /\ t[2] = lane[l].n
          BY <5>1, <1>5 DEF IdOf
        <5>3. t[2] >= lane[t[1]].n
          BY <5>2, <1>3
        <5> QED
          BY <5>3 DEF ToCome
      <4> QED
        BY <1>7, <1>8, <4>1, <4>2
    <3> QED
      BY <2>1, <3>1, <3>2 DEF ToCome
  <2> QED
    BY <1>1, <2>1, CallsStay DEF RecorderBooks
<1> QED
  BY <1>1, <1>11, <1>12, <1>15, <1>16, StillBooks DEF RecorderBooks

\* A file read is as it is now.
LEMMA ReadsKeeps ==
  ASSUME RecorderBooks, NEW p \in snap.todo, NEW fresh \in BOOLEAN,
         snap'.attempt = snap.attempt, snap'.todo = snap.todo \ {p}, snap'.fresh = fresh,
         snap'.tree = [snap.tree EXCEPT ![p] = work[p]], snap' \in Look, noted' \in BOOLEAN,
         UNCHANGED <<work, lane, edits, queue, fs, told, dropped, turn, pending, closed, trace,
                     trouble>>
  PROVE  RecorderBooks'
<1>0. Recorder
  BY DEF RecorderBooks
<1>1. p \in Files /\ snap.tree \in Work /\ work \in Work /\ snap.todo \subseteq Files
  BY <1>0, RecorderFields
<1>2. snap # NoSnap
  BY DEF NoSnap
<1>3. Recorder'
  BY <1>0 DEF Recorder, CheckTypeOK, Look
<1>4. \A q \in Files : snap'.tree[q] = IF q = p THEN work[p] ELSE snap.tree[q]
  BY <1>1 DEF Work
<1>5. Asked'
  <2>1. ASSUME NEW i \in DOMAIN trace, IsRequest(i)
        PROVE  Behind(trace[i].asked, snap'.tree, Files \ snap'.todo)
    <3>1. /\ Behind(trace[i].asked, work, Files)
          /\ Behind(trace[i].asked, snap.tree, Files \ snap.todo)
      BY <1>2, <2>1 DEF RecorderBooks, Asked
    <3> SUFFICES ASSUME NEW q \in Files \ snap'.todo PROVE trace[i].asked[q] <= snap'.tree[q]
      BY DEF Behind
    <3>2. CASE q = p
      BY <1>1, <1>4, <3>1, <3>2 DEF Behind
    <3>3. CASE q # p
      <4>1. q \in Files \ snap.todo
        BY <3>3
      <4> QED
        BY <1>4, <3>1, <3>3, <4>1 DEF Behind
    <3> QED
      BY <3>2, <3>3
  <2> QED
    BY <2>1, AskedStays DEF RecorderBooks, Asked
<1>6. Answers' /\ Called'
  BY DEF RecorderBooks, Answers, Called, ToCome
<1> QED
  BY <1>3, <1>5, <1>6, StillBooks DEF RecorderBooks

LEMMA LookEdit ==
  ASSUME Recorder, NEW p \in Files, NEW fresh \in BOOLEAN,
         snap' = [snap EXCEPT !.todo = @ \ {p}, !.tree[p] = work[p], !.fresh = fresh]
  PROVE  /\ snap'.attempt = snap.attempt /\ snap'.todo = snap.todo \ {p} /\ snap'.fresh = fresh
         /\ snap'.tree = [snap.tree EXCEPT ![p] = work[p]] /\ snap' \in Look
<1> DEFINE left == snap.todo \ {p}
           held == [snap.tree EXCEPT ![p] = work[p]]
<1>1. snap \in Look /\ snap.tree \in Work /\ work \in Work /\ snap.todo \subseteq Files
  BY RecorderFields
<1>2. left \in SUBSET Files /\ held \in Work
  BY <1>1 DEF Work
<1>3. snap' = [snap EXCEPT !.todo = left, !.tree = held, !.fresh = fresh]
  BY <1>1 DEF Look
<1> HIDE DEF left, held
<1>4. /\ snap'.attempt = snap.attempt /\ snap'.todo = left /\ snap'.fresh = fresh
      /\ snap'.tree = held /\ snap' \in Look
  BY ONLY <1>1, <1>2, <1>3 DEF Look
<1> QED
  BY <1>4 DEF left, held

LEMMA AddAllKeeps ==
  ASSUME RecorderBooks, NEW p \in Files, AddAll(p)
  PROVE  RecorderBooks'
<1> DEFINE added == snap.todo \intersect Tracked = {p}
           fresh == IF added THEN ~noted ELSE snap.fresh
<1>0. Recorder /\ noted \in BOOLEAN /\ snap.fresh \in BOOLEAN
  BY RecorderFields DEF RecorderBooks, Look
<1>1. /\ p \in snap.todo
      /\ snap' = [snap EXCEPT !.todo = @ \ {p}, !.tree[p] = work[p], !.fresh = fresh]
      /\ noted' = (noted \/ added)
      /\ UNCHANGED <<work, lane, edits, queue, fs, told, dropped, turn, pending, closed, trace,
                     trouble>>
  BY DEF AddAll, agentVars, deriverVars
<1>2. fresh \in BOOLEAN /\ noted' \in BOOLEAN
  BY <1>0, <1>1
<1> HIDE DEF fresh, added
<1> QED
  BY <1>0, <1>1, <1>2, LookEdit, ReadsKeeps

LEMMA AddForcedKeeps ==
  ASSUME RecorderBooks, NEW p \in Files, AddForced(p)
  PROVE  RecorderBooks'
<1> DEFINE fresh == snap.fresh
<1>0. Recorder /\ noted \in BOOLEAN /\ snap \in Look /\ fresh \in BOOLEAN
  BY RecorderFields DEF RecorderBooks, Look
<1>1. /\ p \in snap.todo
      /\ snap' = [snap EXCEPT !.todo = @ \ {p}, !.tree[p] = work[p]]
      /\ UNCHANGED <<noted, work, lane, edits, queue, fs, told, dropped, turn, pending, closed,
                     trace, trouble>>
  BY DEF AddForced, agentVars, deriverVars, fsVars
<1>2. snap' = [snap EXCEPT !.todo = @ \ {p}, !.tree[p] = work[p], !.fresh = fresh]
  BY <1>0, <1>1 DEF Look
<1> HIDE DEF fresh
<1> QED
  BY <1>0, <1>1, <1>2, LookEdit, ReadsKeeps

LEMMA LooksAre ==
  /\ NoSnap \in Look
  /\ \A k \in 1..Attempts : Attempt(k) \in Look /\ Attempt(k).todo = Files
BY CheckpointsAssumption, WorkIs DEF CheckpointsAssumption, NoSnap, Attempt, Look

LEMMA GitFailsKeeps ==
  ASSUME RecorderBooks, NEW why, GitFails(why)
  PROVE  RecorderBooks'
<1>0. /\ Recorder /\ snap \in Look /\ trouble \in 0..MaxTrouble
      /\ MaxTrouble \in Nat /\ Attempts \in Nat
  BY RecorderFields, CheckpointsAssumption DEF RecorderBooks, CheckpointsAssumption
<1>1. /\ trouble < MaxTrouble /\ trouble' = trouble + 1
      /\ \/ snap.attempt < Attempts /\ snap' = Attempt(snap.attempt + 1)
         \/ snap' = NoSnap
      /\ UNCHANGED <<work, lane, edits, queue, fs, noted, told, dropped, turn, pending, closed,
                     trace>>
  BY DEF GitFails, AfterFailure, agentVars, deriverVars
<1>2. snap' \in Look /\ (snap' = NoSnap \/ snap'.todo = Files)
  <2>1. snap.attempt < Attempts => snap.attempt + 1 \in 1..Attempts
    BY <1>0 DEF Look
  <2> QED
    BY <1>1, <2>1, LooksAre
<1>3. Recorder'
  <2>1. trouble' \in 0..MaxTrouble
    BY <1>0, <1>1
  <2> QED
    BY <1>0, <1>1, <1>2, <2>1 DEF Recorder, CheckTypeOK, Look
<1>4. Asked'
  <2>1. snap' # NoSnap =>
          \A i \in DOMAIN trace : IsRequest(i) =>
            Behind(trace[i].asked, snap'.tree, Files \ snap'.todo)
    BY <1>2 DEF Behind
  <2> QED
    BY <1>1, <2>1, AskedStays DEF RecorderBooks, Asked
<1>5. Answers' /\ Called'
  BY <1>1 DEF RecorderBooks, Answers, Called, ToCome
<1> QED
  BY <1>1, <1>3, <1>4, <1>5, StillBooks DEF RecorderBooks

-----------------------------------------------------------------------------
(* What persist() appends. *)

Ending == Head(queue)
Firsts == Cardinality(Fresh(Ending))
NewLine(i) ==
  LET b == Derive(Ending)[i]
  IN [type |-> b.type, lane |-> b.lane, n |-> b.n, turn |-> turn + 1,
      causes |-> Causes(b, Len(trace)), tree |-> Nil, changed |-> {},
      asked |-> IF b.type = "model.request" THEN Ending.asked ELSE Nil]

LEMMA PersistIs ==
  ASSUME NEW kept, Persist(kept)
  PROVE  /\ queue # << >> /\ snap = NoSnap /\ kept <= Len(Derive(Ending))
         /\ turn' = turn + 1 /\ closed' = closed \union Carried(Ending) /\ queue' = Tail(queue)
         /\ kept = Len(Derive(Ending)) \/ trouble < MaxTrouble
         /\ trouble' = IF kept = Len(Derive(Ending)) THEN trouble ELSE trouble + 1
         /\ snap' = Attempt(1) \/ snap' = snap
         /\ pending' = IF Ending.ok
                       THEN [pending EXCEPT ![IdOf(Ending)] =
                               IF kept = Len(Derive(Ending)) THEN Len(trace) + kept ELSE 0]
                       ELSE pending
         /\ Joins(trace', trace, [i \in 1..kept |-> NewLine(i)])
         /\ UNCHANGED <<work, lane, edits, fs, noted, told, dropped>>
BY DEF Persist, Ending, NewLine, Joins, agentVars, fsVars

\* The exchange that is written, and the entries behind it.
LEMMA TailIs ==
  ASSUME Recorder, queue # << >>, queue' = Tail(queue)
  PROVE  /\ Ending = queue[1] /\ 1 \in 1..Len(queue) /\ 1 \in DOMAIN queue /\ Ending \in Entry
         /\ queue' \in Seq(Entry) /\ DOMAIN queue' = 1..(Len(queue) - 1)
         /\ \A i \in 1..(Len(queue) - 1) : /\ queue'[i] = queue[i + 1] /\ i + 1 \in 1..Len(queue)
                                           /\ i + 1 # 1 /\ i \in Nat
<1>1. queue \in Seq(Entry) /\ Len(queue) \in Nat /\ DOMAIN queue = 1..Len(queue)
  BY EntriesAre, RecorderFields
<1>2. Len(queue) # 0
  BY <1>1, EmptySeq
<1>3. 1 \in 1..Len(queue)
  BY <1>1, <1>2
<1>4. Ending = queue[1] /\ Ending \in Entry
  BY <1>1, <1>3, HeadTailProperties, EntriesAre DEF Ending
<1>5. /\ queue' \in Seq(Entry) /\ Len(queue') = Len(queue) - 1
      /\ \A i \in 1..(Len(queue) - 1) : queue'[i] = queue[i + 1]
  BY <1>1, HeadTailProperties
<1>6. DOMAIN queue' = 1..(Len(queue) - 1)
  BY <1>5, LenProperties
<1>7. \A i \in 1..(Len(queue) - 1) : i + 1 \in 1..Len(queue) /\ i + 1 # 1 /\ i \in Nat
  BY ONLY <1>1
<1> QED
  BY <1>1, <1>3, <1>4, <1>5, <1>6, <1>7

LEMMA NewLineIs ==
  ASSUME Recorder, Ending \in Entry, NEW i \in 1..Len(Derive(Ending))
  PROVE  LET e == NewLine(i)
             s == Len(trace)
             k == Firsts
         IN /\ e \in Line /\ e.type \in Derivable /\ e.turn = turn + 1
            /\ \/ /\ i \in 1..k /\ e.type = "tool.result" /\ IdOf(e) = ResultAt(Ending, i)
                  /\ e.causes = {pending[IdOf(e)]} \ {0}
               \/ /\ i = k + 1 /\ e.type = "model.request" /\ IdOf(e) = IdOf(Ending)
                  /\ e.causes = {s + j : j \in 1..k} /\ e.asked = Ending.asked
               \/ /\ i = k + 2 /\ e.type = "model.response" /\ IdOf(e) = IdOf(Ending)
                  /\ e.causes = {s + k + 1}
               \/ /\ i = k + 3 /\ e.type = "tool.call" /\ IdOf(e) = IdOf(Ending)
                  /\ e.causes = {s + k + 2} /\ Ending.ok /\ Len(Derive(Ending)) = k + 3
<1> DEFINE d == Derive(Ending)
           b == d[i]
           s == Len(trace)
           k == Firsts
           e == NewLine(i)
<1>0. s \in Nat /\ turn \in Nat /\ Ending.asked \in Work /\ Ending.ok \in BOOLEAN
  BY EntriesAre, RecorderFields DEF Entry
<1>1. /\ d \in Seq(Events) /\ k \in Nat /\ Len(d) = (IF Ending.ok THEN k + 3 ELSE k + 2)
      /\ \A j \in 1..k : /\ d[j].type = "tool.result" /\ d[j].by = {}
                         /\ IdOf(d[j]) = ResultAt(Ending, j)
      /\ d[k + 1].type = "model.request" /\ d[k + 1].by = 1..k /\ IdOf(d[k + 1]) = IdOf(Ending)
      /\ d[k + 2].type = "model.response" /\ d[k + 2].by = {k + 1} /\ IdOf(d[k + 2]) = IdOf(Ending)
      /\ Ending.ok => /\ d[k + 3].type = "tool.call" /\ d[k + 3].by = {k + 2}
                      /\ IdOf(d[k + 3]) = IdOf(Ending)
  BY DeriveIs DEF Firsts
<1>2. b \in Events
  BY <1>1, ElementOfSeq
<1>3. /\ e.type = b.type /\ IdOf(e) = IdOf(b) /\ e.turn = turn + 1 /\ e.causes = Causes(b, s)
      /\ e.asked = IF b.type = "model.request" THEN Ending.asked ELSE Nil
  BY DEF NewLine, IdOf
<1>4. i \in 1..k \/ i = k + 1 \/ i = k + 2 \/ (i = k + 3 /\ Ending.ok)
  <2> HIDE DEF d, k
  <2>1. i \in 1..Len(d)
    BY DEF d
  <2> QED
    BY <2>1, <1>0, <1>1
<1>5. ASSUME NEW t \in Tool PROVE {pending[t]} \ {0} \in SUBSET Nat
  BY <1>5, RecorderFields
<1>6. e \in Line
  <2>1. b.lane \in Lanes /\ b.type \in Derivable /\ b.n \in Nat /\ b.by \in SUBSET Nat
    BY <1>2 DEF Events
  <2>2. {s + j : j \in b.by} \in SUBSET Nat
    BY <1>0, <2>1
  <2>3. b.type = "tool.result" => IdOf(b) \in Tool
    <3>1. i \in 1..k => IdOf(b) \in Tool
      <4> SUFFICES ASSUME i \in 1..k PROVE IdOf(b) \in Tool
        OBVIOUS
      <4>1. IdOf(b) = ResultAt(Ending, i) /\ ResultAt(Ending, i) \in Fresh(Ending)
        BY <1>1, ResultsAre DEF Firsts
      <4>2. Fresh(Ending) \subseteq Tool
        <5>1. Ending.lane \in Lanes /\ Ending.n \in 1..Depth /\ Depth \in Nat
          BY RecorderFields DEF Entry
        <5> QED
          BY <5>1 DEF Fresh, Carried, Tool
      <4> QED
        BY <4>1, <4>2
    <3> QED
      BY <1>1, <1>4, <3>1
  <2>4. Causes(b, s) \in SUBSET Nat
    <3>1. b.type = "tool.result" => {pending[IdOf(b)]} \ {0} \in SUBSET Nat
      BY <2>3, <1>5
    <3> QED
      BY <2>2, <3>1 DEF Causes
  <2>5. turn + 1 \in Nat
    BY <1>0
  <2> HIDE DEF b, s
  <2>6. e = [type |-> b.type, lane |-> b.lane, n |-> b.n, turn |-> turn + 1,
             causes |-> Causes(b, s), tree |-> Nil, changed |-> {},
             asked |-> IF b.type = "model.request" THEN Ending.asked ELSE Nil]
    BY DEF NewLine, b, d, s
  <2> HIDE DEF e
  <2>7. {} \in SUBSET Files
    OBVIOUS
  <2> QED
    BY ONLY <1>0, <2>1, <2>4, <2>5, <2>6, <2>7 DEF Line
<1>7. e.type \in Derivable
  BY <1>2, <1>3 DEF Events
<1> HIDE DEF e, d
<1>8. CASE i \in 1..k
  <2>1. b.type = "tool.result" /\ b.by = {} /\ IdOf(b) = ResultAt(Ending, i)
    BY <1>1, <1>8
  <2>2. Causes(b, s) = {pending[IdOf(b)]} \ {0}
    BY <2>1 DEF Causes
  <2> QED
    BY <1>3, <1>6, <1>7, <1>8, <2>1, <2>2 DEF e
<1>9. CASE i = k + 1
  <2>1. b.type = "model.request" /\ b.by = 1..k /\ IdOf(b) = IdOf(Ending)
    BY <1>1, <1>9
  <2>2. Causes(b, s) = {s + j : j \in 1..k}
    BY <2>1 DEF Causes
  <2> QED
    BY <1>3, <1>6, <1>7, <1>9, <2>1, <2>2 DEF e
<1>10. CASE i = k + 2
  <2>1. b.type = "model.response" /\ b.by = {k + 1} /\ IdOf(b) = IdOf(Ending)
    BY <1>1, <1>10
  <2>2. Causes(b, s) = {s + (k + 1)} /\ s + (k + 1) = s + k + 1
    BY <2>1, <1>0, <1>1 DEF Causes
  <2> QED
    BY <1>3, <1>6, <1>7, <1>10, <2>1, <2>2 DEF e
<1>11. CASE i = k + 3 /\ Ending.ok
  <2>1. b.type = "tool.call" /\ b.by = {k + 2} /\ IdOf(b) = IdOf(Ending) /\ Len(d) = k + 3
    BY <1>1, <1>11
  <2>2. Causes(b, s) = {s + (k + 2)} /\ s + (k + 2) = s + k + 2
    BY <2>1, <1>0, <1>1 DEF Causes
  <2> QED
    BY <1>3, <1>6, <1>7, <1>11, <2>1, <2>2 DEF e, d
<1> QED
  BY <1>4, <1>8, <1>9, <1>10, <1>11

LEMMA TraceGrows ==
  ASSUME Recorder, NEW kept \in Nat, Ending \in Entry, kept <= Len(Derive(Ending)),
         Joins(trace', trace, [i \in 1..kept |-> NewLine(i)])
  PROVE  /\ Grown(trace, trace') /\ Len(trace') = Len(trace) + kept
         /\ \A i \in 1..kept : /\ i \in 1..Len(Derive(Ending))
                               /\ trace'[Len(trace) + i] = NewLine(i)
<1> DEFINE new == [i \in 1..kept |-> NewLine(i)]
<1>1. Len(Derive(Ending)) \in Nat
  BY DeriveIs, LenProperties
<1>2. \A i \in 1..kept : i \in 1..Len(Derive(Ending))
  BY <1>1
<1>3. \A i \in 1..kept : NewLine(i) \in Line
  BY <1>2, NewLineIs
<1>4. new \in Seq(Line)
  BY <1>3, IsASeq
<1>5. Len(new) = kept /\ \A i \in 1..kept : new[i] = NewLine(i)
  OBVIOUS
<1> HIDE DEF new
<1>6. trace \in Seq(Line) /\ Len(trace) \in Nat /\ Joins(trace', trace, new)
  BY RecorderFields, EntriesAre DEF new
<1>7. trace' \in Seq(Line)
  BY <1>4, <1>6, JoinIs
<1>8. Len(trace') = Len(trace) + Len(new)
  BY <1>4, <1>6, JoinIs
<1>9. \A i \in 1..Len(trace) : trace'[i] = trace[i]
  BY <1>4, <1>6, JoinIs
<1>10. \A i \in 1..Len(new) : trace'[Len(trace) + i] = new[i]
  BY <1>4, <1>6, JoinIs
<1>11. Len(trace) <= Len(trace')
  BY <1>5, <1>6, <1>8
<1> QED
  BY <1>2, <1>5, <1>7, <1>8, <1>9, <1>10, <1>11 DEF Grown


\* An event of the trace is one it had, or one of the exchange's.
LEMMA PersistGrows ==
  ASSUME RecorderBooks, NEW kept \in Nat, Persist(kept)
  PROVE  LET s == Len(trace) IN
         /\ Recorder /\ Ending \in Entry /\ s \in Nat /\ DOMAIN trace = 1..s
         /\ Grown(trace, trace') /\ DOMAIN trace' = 1..(s + kept) /\ Len(trace') = s + kept
         /\ \A i \in 1..s : trace'[i] = trace[i] /\ i \in 1..(s + kept) /\ i \in Nat
         /\ \A j \in 1..kept : /\ trace'[s + j] = NewLine(j) /\ s + j \in 1..(s + kept)
                               /\ j \in 1..Len(Derive(Ending)) /\ s + j \notin 1..s
         /\ \A i \in 1..(s + kept) : i \in 1..s \/ \E j \in 1..kept : i = s + j
<1> DEFINE s == Len(trace)
<1>1. Recorder /\ s \in Nat /\ DOMAIN trace = 1..s
  BY EntriesAre DEF RecorderBooks
<1>2. /\ queue # << >> /\ queue' = Tail(queue) /\ kept <= Len(Derive(Ending))
      /\ Joins(trace', trace, [i \in 1..kept |-> NewLine(i)])
  BY PersistIs
<1>3. Ending \in Entry
  BY <1>1, <1>2, TailIs
<1>4. Grown(trace, trace') /\ Len(trace') = s + kept
  BY <1>1, <1>2, <1>3, TraceGrows
<1>5. \A i \in 1..kept : i \in 1..Len(Derive(Ending)) /\ trace'[s + i] = NewLine(i)
  BY <1>1, <1>2, <1>3, TraceGrows
<1>6. DOMAIN trace' = 1..(s + kept) /\ \A i \in 1..s : trace'[i] = trace[i]
  BY <1>4, LenProperties DEF Grown
<1> HIDE DEF s
<1>7. /\ \A i \in 1..s : i \in 1..(s + kept) /\ i \in Nat
      /\ \A j \in 1..kept : s + j \in 1..(s + kept) /\ s + j \notin 1..s
  BY ONLY <1>1, kept \in Nat
<1>8. \A i \in 1..(s + kept) : i \in 1..s \/ \E j \in 1..kept : i = s + j
  <2> SUFFICES ASSUME NEW i \in 1..(s + kept), i \notin 1..s PROVE \E j \in 1..kept : i = s + j
    OBVIOUS
  <2>1. i - s \in 1..kept /\ i = s + (i - s)
    BY ONLY <1>1, kept \in Nat, i \in 1..(s + kept), i \notin 1..s
  <2> QED
    BY ONLY <2>1
<1> QED
  BY <1>1, <1>3, <1>4, <1>5, <1>6, <1>7, <1>8 DEF s

LEMMA PersistRecorder ==
  ASSUME RecorderBooks, NEW kept \in Nat, Persist(kept)
  PROVE  Recorder' /\ snap' \in Look /\ (snap' = NoSnap \/ snap'.todo = Files)
<1>1. Recorder /\ Ending \in Entry /\ Grown(trace, trace') /\ Len(trace) \in Nat
  BY PersistGrows
<1>2. snap' \in Look /\ (snap' = NoSnap \/ snap'.todo = Files)
  <2>1. 1 \in 1..Attempts
    BY CheckpointsAssumption DEF CheckpointsAssumption
  <2> QED
    BY <2>1, PersistIs, LooksAre
<1>3. Ending.lane \in Lanes /\ Ending.n \in 1..Depth /\ Depth \in Nat /\ Ending.ok \in BOOLEAN
  BY <1>1, RecorderFields DEF Entry
<1>4. closed' \subseteq Tool
  <2>1. Carried(Ending) \subseteq Tool
    BY <1>3 DEF Carried, Tool
  <2> QED
    BY <1>1, <2>1, PersistIs, RecorderFields
<1>5. pending' \in [Tool -> Nat]
  <2> DEFINE q == IF kept = Len(Derive(Ending)) THEN Len(trace) + kept ELSE 0
  <2>1. q \in Nat
    BY <1>1
  <2>2. pending' = IF Ending.ok THEN [pending EXCEPT ![IdOf(Ending)] = q] ELSE pending
    BY PersistIs
  <2> HIDE DEF q
  <2> QED
    BY <1>1, <2>1, <2>2, RecorderFields
<1>6. trouble' \in 0..MaxTrouble
  <2>1. trouble \in 0..MaxTrouble /\ MaxTrouble \in Nat
    BY <1>1, RecorderFields, CheckpointsAssumption DEF CheckpointsAssumption
  <2>2. trouble' = trouble \/ (trouble < MaxTrouble /\ trouble' = trouble + 1)
    BY PersistIs
  <2> QED
    BY ONLY <2>1, <2>2
<1>7. turn' \in Nat
  <2>1. turn \in Nat /\ turn' = turn + 1
    BY <1>1, PersistIs, RecorderFields
  <2> QED
    BY ONLY <2>1
<1>8. trace' \in Seq(Line) /\ queue' \in Seq(Entry)
  BY <1>1, PersistIs, TailIs DEF Grown
<1>9. UNCHANGED <<work, lane, edits, fs, noted, told, dropped>>
  BY PersistIs
<1>10. CheckTypeOK'
  BY <1>1, <1>2, <1>4, <1>5, <1>6, <1>9 DEF Recorder, CheckTypeOK, Look
<1> QED
  BY <1>1, <1>2, <1>7, <1>8, <1>9, <1>10 DEF Recorder

LEMMA PersistAsked ==
  ASSUME RecorderBooks, NEW kept \in Nat, Persist(kept)
  PROVE  Asked'
<1> DEFINE s == Len(trace)
<1>1. Recorder /\ Ending \in Entry /\ DOMAIN trace = 1..s
  BY PersistGrows
<1>2. work' = work /\ lane' = lane /\ queue # << >> /\ queue' = Tail(queue)
  BY PersistIs
<1>3. \A i \in DOMAIN queue' : Behind(queue'[i].asked, work', Files)
  <2>1. \A i \in 1..Len(queue) : Behind(queue[i].asked, work, Files)
    BY <1>1, EntriesAre DEF RecorderBooks, Asked
  <2> QED
    BY <1>1, <1>2, <2>1, TailIs
<1>4. Ending.asked \in Work /\ Behind(Ending.asked, work, Files)
  <2>1. Ending = queue[1] /\ 1 \in DOMAIN queue
    BY <1>1, <1>2, TailIs
  <2> QED
    BY <1>1, <2>1 DEF RecorderBooks, Asked, Entry
<1>5. ASSUME NEW i \in DOMAIN trace', IsRequest(i)'
      PROVE  trace'[i].asked \in Work /\ Behind(trace'[i].asked, work, Files)
  <2>1. CASE i \in 1..s
    <3>1. trace'[i] = trace[i]
      BY <2>1, PersistGrows
    <3> QED
      BY <1>1, <1>5, <2>1, <3>1 DEF RecorderBooks, Asked, IsRequest
  <2>2. ASSUME NEW j \in 1..kept, i = s + j
        PROVE  trace'[i].asked \in Work /\ Behind(trace'[i].asked, work, Files)
    <3>1. trace'[i] = NewLine(j) /\ j \in 1..Len(Derive(Ending))
      BY <2>2, PersistGrows
    <3>2. NewLine(j).type = "model.request"
      BY <1>5, <3>1 DEF IsRequest
    <3>3. NewLine(j).asked = Ending.asked
      BY <3>2 DEF NewLine
    <3> QED
      BY <1>4, <3>1, <3>3
  <2>3. i \in 1..s \/ \E j \in 1..kept : i = s + j
    BY PersistGrows
  <2> QED
    BY <2>1, <2>2, <2>3
<1>6. snap' # NoSnap =>
        \A i \in DOMAIN trace' : Behind(trace'[i].asked, snap'.tree, Files \ snap'.todo)
  BY PersistRecorder DEF Behind
<1> QED
  BY <1>2, <1>3, <1>5, <1>6 DEF RecorderBooks, Asked, IsRequest

LEMMA PersistLooked ==
  ASSUME RecorderBooks, NEW kept \in Nat, Persist(kept)
  PROVE  Looked' /\ InTurn'
<1> DEFINE s == Len(trace)
<1>1. /\ Recorder /\ Ending \in Entry /\ s \in Nat /\ DOMAIN trace = 1..s /\ turn \in Nat
      /\ DOMAIN trace' = 1..(s + kept) /\ Len(trace') = s + kept /\ turn' = turn + 1
  BY PersistGrows, PersistIs, RecorderFields
<1>2. \A i \in 1..s : trace'[i] = trace[i]
  BY PersistGrows
<1>3. \A j \in 1..kept : trace'[s + j].turn = turn + 1 /\ trace'[s + j].type # "fs.snapshot"
  <2> SUFFICES ASSUME NEW j \in 1..kept
               PROVE  trace'[s + j].turn = turn + 1 /\ trace'[s + j].type # "fs.snapshot"
    OBVIOUS
  <2>1. trace'[s + j] = NewLine(j) /\ j \in 1..Len(Derive(Ending))
    BY PersistGrows
  <2>2. NewLine(j).type \in Derivable /\ NewLine(j).turn = turn + 1
    BY <1>1, <2>1, NewLineIs
  <2> QED
    BY <2>1, <2>2 DEF Derivable
<1>4. \A i \in 1..(s + kept) : i \in 1..s \/ (\E j \in 1..kept : i = s + j)
  BY PersistGrows
<1>5. \A i \in 1..s : trace[i].turn \in Nat /\ trace[i].turn <= turn /\ trace[i].turn < turn + 1
  <2>1. \A i \in 1..s : trace[i].turn \in Nat /\ trace[i].turn <= turn
    BY <1>1, EntriesAre DEF RecorderBooks, InTurn
  <2> QED
    BY <1>1, <2>1
<1> HIDE DEF s
<1>6. InTurn'
  <2>1. \A i \in 1..(s + kept) : trace'[i].turn <= turn + 1
    <3> SUFFICES ASSUME NEW i \in 1..(s + kept) PROVE trace'[i].turn <= turn + 1
      OBVIOUS
    <3>1. CASE i \in 1..s
      BY <1>1, <1>2, <1>5, <3>1
    <3>2. CASE i \notin 1..s
      <4>1. trace'[i].turn = turn + 1
        BY <1>3, <1>4, <3>2
      <4> QED
        BY <1>1, <4>1
    <3> QED
      BY <3>1, <3>2
  <2>2. ASSUME NEW i \in 1..(s + kept), NEW j \in 1..(s + kept), i <= j
        PROVE  trace'[i].turn <= trace'[j].turn
    <3>1. CASE j \in 1..s
      <4>1. i \in 1..s
        BY <1>1, <2>2, <3>1
      <4> QED
        BY <1>1, <1>2, <2>2, <3>1, <4>1 DEF RecorderBooks, InTurn
    <3>2. CASE j \notin 1..s
      <4>1. trace'[j].turn = turn + 1
        BY <1>3, <1>4, <3>2
      <4> QED
        BY <2>1, <4>1
    <3> QED
      BY <3>1, <3>2
  <2> QED
    BY <1>1, <2>1, <2>2 DEF InTurn
<1>7. Looked'
  <2> SUFFICES ASSUME NEW k \in 1..(s + kept), IsSnapshot(k)'
               PROVE  /\ trace'[k].tree \in Work
                      /\ \A j \in 1..(k - 1) :
                           IsRequest(j)' => Behind(trace'[j].asked, trace'[k].tree, Files)
                      /\ \A j \in (k + 1)..(s + kept) :
                           ~ IsSnapshot(j)' => trace'[k].turn < trace'[j].turn
    BY <1>1 DEF Looked
  <2>1. k \in 1..s
    BY <1>3, <1>4 DEF IsSnapshot
  <2>2. trace'[k] = trace[k] /\ IsSnapshot(k)
    BY <1>2, <2>1 DEF IsSnapshot
  <2>3. \A j \in 1..(k - 1) : trace'[j] = trace[j]
    <3>1. \A j \in 1..(k - 1) : j \in 1..s
      BY <1>1, <2>1
    <3> QED
      BY <1>2, <3>1
  <2>4. /\ trace[k].tree \in Work
        /\ \A j \in 1..(k - 1) : IsRequest(j) => Behind(trace[j].asked, trace[k].tree, Files)
        /\ \A j \in (k + 1)..s : ~ IsSnapshot(j) => trace[k].turn < trace[j].turn
    BY <1>1, <2>1, <2>2 DEF RecorderBooks, Looked, s
  <2>5. ASSUME NEW j \in (k + 1)..(s + kept), ~ IsSnapshot(j)'
        PROVE  trace'[k].turn < trace'[j].turn
    <3>1. CASE j \in 1..s
      <4>1. j \in (k + 1)..s
        BY <1>1, <2>1, <3>1
      <4> QED
        BY <1>2, <2>2, <2>4, <2>5, <3>1, <4>1 DEF IsSnapshot
    <3>2. CASE j \notin 1..s
      <4>1. j \in 1..(s + kept)
        BY <1>1, <2>1
      <4>2. trace'[j].turn = turn + 1
        BY <1>3, <1>4, <3>2, <4>1
      <4> QED
        BY <1>5, <2>1, <2>2, <4>2
    <3> QED
      BY <3>1, <3>2
  <2> QED
    BY <2>2, <2>3, <2>4, <2>5 DEF IsRequest
<1> QED
  BY <1>6, <1>7

LEMMA PersistCompared ==
  ASSUME RecorderBooks, NEW kept \in Nat, Persist(kept)
  PROVE  Compared' /\ ChangesAddUp'
<1> DEFINE s == Len(trace)
<1>1. /\ Recorder /\ s \in Nat /\ DOMAIN trace = 1..s /\ trace \in Seq(Line)
      /\ Grown(trace, trace') /\ DOMAIN trace' = 1..(s + kept) /\ Len(trace') = s + kept
      /\ dropped' = dropped /\ fs' = fs
  BY PersistGrows, PersistIs, RecorderFields
<1>2. \A i \in 1..(s + kept) : trace'[i].type = "fs.snapshot" => i \in 1..s /\ trace'[i] = trace[i]
  <2>1. \A j \in 1..kept : trace'[s + j].type # "fs.snapshot"
    <3> SUFFICES ASSUME NEW j \in 1..kept PROVE trace'[s + j].type # "fs.snapshot"
      OBVIOUS
    <3>1. trace'[s + j] = NewLine(j) /\ j \in 1..Len(Derive(Ending)) /\ Ending \in Entry
      BY PersistGrows
    <3>2. NewLine(j).type \in Derivable
      BY <1>1, <3>1, NewLineIs
    <3> QED
      BY <3>1, <3>2 DEF Derivable
  <2>2. \A i \in 1..(s + kept) : i \in 1..s \/ \E j \in 1..kept : i = s + j
    BY PersistGrows
  <2>3. \A i \in 1..s : trace'[i] = trace[i]
    BY PersistGrows
  <2> QED
    BY <2>1, <2>2, <2>3
<1>3. /\ Snapshots(trace', s) = Snapshots(trace, s)
      /\ LastOf(Snapshots(trace', s)) = LastOf(Snapshots(trace, s))
      /\ LastOf(Snapshots(trace, s)) # 0 => LastTree(trace', s) = LastTree(trace, s)
  <2>1. s \in 0..Len(trace)
    BY <1>1
  <2> QED
    BY <1>1, <2>1, SnapshotsGrow
<1> HIDE DEF s
<1>4. Snapshots(trace', s + kept) = Snapshots(trace', s)
  <2>1. \A i \in 1..s : i \in 1..(s + kept)
    BY <1>1
  <2> QED
    BY <1>2, <2>1 DEF Snapshots
<1>5. LastIs(trace, fs) => LastIs(trace', fs')
  <2>1. LastTree(trace', s + kept) = LastTree(trace', s)
    BY <1>4 DEF LastTree
  <2> QED
    BY <1>1, <1>3, <1>4, <2>1 DEF LastIs, s
<1>6. ChangesTrue(trace) => ChangesTrue(trace')
  <2> SUFFICES ASSUME ChangesTrue(trace), NEW i \in 1..(s + kept), trace'[i].type = "fs.snapshot"
               PROVE  ChangeTrue(trace', i)
    BY <1>1 DEF ChangesTrue
  <2>1. i \in 1..Len(trace) /\ trace[i].type = "fs.snapshot"
    BY <1>2 DEF s
  <2>2. ChangeTrue(trace, i)
    BY <1>1, <2>1 DEF ChangesTrue, s
  <2> QED
    BY <1>1, <2>1, <2>2, ChangeStaysTrue
<1> QED
  BY <1>1, <1>5, <1>6, SnapshotBooks DEF RecorderBooks


LEMMA PersistAnswers ==
  ASSUME RecorderBooks, NEW kept \in Nat, Persist(kept)
  PROVE  /\ Answers'
         /\ \A t \in Tool : ToCome(t)' => ToCome(t)
         /\ \A t \in Tool : Ending.ok /\ t = IdOf(Ending) => ~ ToCome(t)'
<1> DEFINE m == Len(queue) - 1
<1>1. lane' = lane /\ queue # << >> /\ queue' = Tail(queue) /\ Recorder
  BY PersistIs DEF RecorderBooks
<1>2. /\ Ending = queue[1] /\ 1 \in DOMAIN queue /\ DOMAIN queue' = 1..m /\ Ending \in Entry
      /\ \A i \in 1..m : /\ queue'[i] = queue[i + 1] /\ i + 1 \in DOMAIN queue
                         /\ i + 1 # 1 /\ i \in Nat
  BY <1>1, TailIs, EntriesAre
<1> HIDE DEF m
<1>3. /\ \A i \in DOMAIN queue : /\ queue[i].n <= lane[queue[i].lane].n
                                 /\ queue[i].ok => queue[i].n < lane[queue[i].lane].n
      /\ \A i, j \in DOMAIN queue :
           queue[i].ok /\ queue[j].ok /\ IdOf(queue[i]) = IdOf(queue[j]) => i = j
  BY DEF RecorderBooks, Answers
<1>4. Answers'
  <2>1. \A i \in 1..m : /\ queue'[i].n <= lane[queue'[i].lane].n
                        /\ queue'[i].ok => queue'[i].n < lane[queue'[i].lane].n
    BY <1>2, <1>3
  <2>2. ASSUME NEW i \in 1..m, NEW j \in 1..m, queue'[i].ok, queue'[j].ok,
               IdOf(queue'[i]) = IdOf(queue'[j])
        PROVE  i = j
    <3>1. i + 1 = j + 1 /\ i \in Nat /\ j \in Nat
      BY <1>2, <1>3, <2>2
    <3> QED
      BY ONLY <3>1
  <2> QED
    BY <1>1, <1>2, <2>1, <2>2 DEF Answers
<1>5. \A t \in Tool : ToCome(t)' => ToCome(t)
  BY <1>1, <1>2 DEF ToCome
<1>6. \A t \in Tool : Ending.ok /\ t = IdOf(Ending) => ~ ToCome(t)'
  <2> SUFFICES ASSUME NEW t \in Tool, Ending.ok, t = IdOf(Ending) PROVE ~ ToCome(t)'
    OBVIOUS
  <2>1. ~ (t[2] >= lane'[t[1]].n)
    <3>1. t[1] = Ending.lane /\ t[2] = Ending.n /\ Ending.lane \in Lanes /\ Ending.n \in Nat
      BY <1>1, <1>2, EntriesAre DEF IdOf
    <3>2. Ending.n < lane[Ending.lane].n
      BY <1>2, <1>3
    <3>3. lane[Ending.lane].n \in Nat
      BY <1>1, <3>1, RecorderFields
    <3> QED
      BY <1>1, <3>1, <3>2, <3>3
  <2>2. \A i \in DOMAIN queue' : ~ (queue'[i].ok /\ IdOf(queue'[i]) = t)
    BY <1>2, <1>3
  <2> QED
    BY <2>1, <2>2 DEF ToCome
<1> QED
  BY <1>4, <1>5, <1>6

\* What each of the exchange's events is, at its place in the trace.
LEMMA AppendedIs ==
  ASSUME RecorderBooks, NEW kept \in Nat, Persist(kept), NEW j \in 1..kept
  PROVE  LET s == Len(trace)
             k == Firsts
             e == trace'[s + j]
         IN /\ e = NewLine(j) /\ e.type \in Derivable /\ e.turn = turn + 1
            /\ \/ /\ j \in 1..k /\ e.type = "tool.result" /\ IdOf(e) = ResultAt(Ending, j)
                  /\ e.causes = {pending[IdOf(e)]} \ {0}
               \/ /\ j = k + 1 /\ e.type = "model.request" /\ IdOf(e) = IdOf(Ending)
                  /\ e.causes = {s + i : i \in 1..k}
               \/ /\ j = k + 2 /\ e.type = "model.response" /\ IdOf(e) = IdOf(Ending)
                  /\ e.causes = {s + k + 1}
               \/ /\ j = k + 3 /\ e.type = "tool.call" /\ IdOf(e) = IdOf(Ending)
                  /\ e.causes = {s + k + 2} /\ Ending.ok /\ Len(Derive(Ending)) = k + 3
<1>1. Recorder /\ Ending \in Entry /\ j \in 1..Len(Derive(Ending))
      /\ trace'[Len(trace) + j] = NewLine(j)
  BY PersistGrows
<1> QED
  BY <1>1, NewLineIs

LEMMA PersistCalled ==
  ASSUME RecorderBooks, NEW kept \in Nat, Persist(kept)
  PROVE  Called'
<1> DEFINE s == Len(trace)
           k == Firsts
           id == IdOf(Ending)
           whole == kept = Len(Derive(Ending))
<1>1. /\ Recorder /\ Ending \in Entry /\ s \in Nat /\ DOMAIN trace = 1..s
      /\ DOMAIN trace' = 1..(s + kept) /\ pending \in [Tool -> Nat]
      /\ pending' = IF Ending.ok THEN [pending EXCEPT ![id] = IF whole THEN s + kept ELSE 0]
                    ELSE pending
  BY PersistGrows, PersistIs, RecorderFields
<1>2. /\ \A i \in 1..s : trace'[i] = trace[i] /\ i \in 1..(s + kept)
      /\ \A j \in 1..kept : s + j \in 1..(s + kept)
      /\ \A i \in 1..(s + kept) : i \in 1..s \/ \E j \in 1..kept : i = s + j
  BY PersistGrows
<1>3. /\ id \in Tool /\ (Ending.ok => ToCome(id) /\ pending[id] = 0)
  <2>1. queue # << >> /\ queue' = Tail(queue)
    BY PersistIs
  <2>2. Ending = queue[1] /\ 1 \in DOMAIN queue /\ 1 \in 1..Len(queue)
    BY <1>1, <2>1, TailIs
  <2>3. id \in Tool
    BY <1>1, <2>2, EntriesAre
  <2>4. Ending.ok => ToCome(id)
    BY <2>2 DEF ToCome
  <2> QED
    BY <2>3, <2>4 DEF RecorderBooks, Called
<1>4. Ending.ok /\ whole => /\ s + kept \in 1..(s + kept) /\ s + kept # 0
                            /\ trace'[s + kept].type = "tool.call" /\ IdOf(trace'[s + kept]) = id
  <2> SUFFICES ASSUME Ending.ok, whole
               PROVE  /\ s + kept \in 1..(s + kept) /\ s + kept # 0
                      /\ trace'[s + kept].type = "tool.call" /\ IdOf(trace'[s + kept]) = id
    OBVIOUS
  <2>1. k \in Nat /\ Len(Derive(Ending)) = k + 3
    BY <1>1, DeriveIs DEF Firsts
  <2>2. kept \in 1..kept /\ kept \notin 1..k /\ kept # k + 1 /\ kept # k + 2
    BY <2>1
  <2> HIDE DEF s, k, id, whole
  <2>3. s + kept \in 1..(s + kept) /\ s + kept # 0
    BY <1>1, <2>2
  <2>4. trace'[s + kept].type = "tool.call" /\ IdOf(trace'[s + kept]) = id
    BY <2>2, AppendedIs DEF s, k, id
  <2> QED
    BY <2>3, <2>4
<1>5. ASSUME NEW j \in 1..kept, trace'[s + j].type = "tool.call"
      PROVE  Ending.ok /\ whole /\ j = kept /\ IdOf(trace'[s + j]) = id
  <2>1. k \in Nat
    BY <1>1, DeriveIs DEF Firsts
  <2>2. j = k + 3 /\ Ending.ok /\ Len(Derive(Ending)) = k + 3 /\ IdOf(trace'[s + j]) = id
    BY <1>5, AppendedIs
  <2>3. kept <= Len(Derive(Ending))
    BY PersistIs
  <2>4. j = kept /\ kept = Len(Derive(Ending))
    BY <2>1, <2>2, <2>3
  <2> QED
    BY <2>2, <2>4
<1>6. /\ \A t \in Tool : Ending.ok /\ t = id => ~ ToCome(t)'
      /\ \A t \in Tool : ToCome(t)' => ToCome(t)
  BY PersistAnswers
<1>7. /\ \A t \in Tool : ToCome(t) => pending[t] = 0
      /\ \A t \in Tool : pending[t] # 0 =>
           /\ pending[t] \in 1..s /\ trace[pending[t]].type = "tool.call"
           /\ IdOf(trace[pending[t]]) = t
      /\ \A i \in 1..s : trace[i].type = "tool.call" =>
           IdOf(trace[i]) \in Tool /\ pending[IdOf(trace[i])] = i
  BY <1>1 DEF RecorderBooks, Called
<1> HIDE DEF s, k, id, whole
<1>8. /\ \A t \in Tool : t # id \/ ~ Ending.ok => pending'[t] = pending[t]
      /\ Ending.ok => pending'[id] = IF whole THEN s + kept ELSE 0
  BY <1>1, <1>3
<1>9. \A t \in Tool : ToCome(t)' => pending'[t] = 0
  BY <1>6, <1>7, <1>8
<1>10. ASSUME NEW t \in Tool, pending'[t] # 0
       PROVE  /\ pending'[t] \in 1..(s + kept) /\ trace'[pending'[t]].type = "tool.call"
              /\ IdOf(trace'[pending'[t]]) = t
  <2>1. CASE t = id /\ Ending.ok
    BY <1>4, <1>8, <1>10, <2>1
  <2>2. CASE t # id \/ ~ Ending.ok
    BY <1>2, <1>7, <1>8, <1>10, <2>2
  <2> QED
    BY <2>1, <2>2
<1>11. ASSUME NEW i \in 1..(s + kept), trace'[i].type = "tool.call"
       PROVE  IdOf(trace'[i]) \in Tool /\ pending'[IdOf(trace'[i])] = i
  <2>1. CASE i \in 1..s
    <3>0. i # 0
      BY <1>1, <2>1
    <3>1. IdOf(trace'[i]) \in Tool /\ pending[IdOf(trace'[i])] = i /\ i # 0
      BY <1>2, <1>7, <1>11, <2>1, <3>0
    <3>2. Ending.ok => IdOf(trace'[i]) # id
      BY <1>3, <3>1
    <3> QED
      BY <1>8, <3>1, <3>2
  <2>2. ASSUME NEW j \in 1..kept, i = s + j
        PROVE  IdOf(trace'[i]) \in Tool /\ pending'[IdOf(trace'[i])] = i
    BY <1>3, <1>5, <1>8, <1>11, <2>2
  <2> QED
    BY <1>2, <2>1, <2>2
<1> QED
  BY <1>1, <1>9, <1>10, <1>11 DEF Called

LEMMA PersistReturned ==
  ASSUME RecorderBooks, NEW kept \in Nat, Persist(kept)
  PROVE  Returned'
<1> DEFINE s == Len(trace)
<1>1. /\ Recorder /\ Ending \in Entry /\ DOMAIN trace = 1..s /\ DOMAIN trace' = 1..(s + kept)
      /\ closed' = closed \union Carried(Ending)
  BY PersistGrows, PersistIs
<1>2. /\ \A i \in 1..s : trace'[i] = trace[i]
      /\ \A i \in 1..(s + kept) : i \in 1..s \/ \E j \in 1..kept : i = s + j
  BY PersistGrows
<1>3. ASSUME NEW j \in 1..kept, trace'[s + j].type = "tool.result"
      PROVE  IdOf(trace'[s + j]) \in Carried(Ending)
  <2>1. j \in 1..Firsts /\ IdOf(trace'[s + j]) = ResultAt(Ending, j)
    BY <1>3, AppendedIs
  <2>2. ResultAt(Ending, j) \in Fresh(Ending)
    BY <1>1, <2>1, ResultsAre DEF Firsts
  <2> QED
    BY <2>1, <2>2 DEF Fresh
<1>4. \A i \in 1..s : trace[i].type = "tool.result" => IdOf(trace[i]) \in closed
  BY <1>1 DEF RecorderBooks, Returned
<1> HIDE DEF s
<1>5. \A i \in 1..(s + kept) : trace'[i].type = "tool.result" => IdOf(trace'[i]) \in closed'
  BY <1>1, <1>2, <1>3, <1>4
<1> QED
  BY <1>1, <1>5 DEF Returned


LEMMA EarlierHas ==
  ASSUME NEW log, NEW type, NEW id, NEW i, NEW j \in 1..(i - 1),
         log[j].type = type, IdOf(log[j]) = id
  PROVE  j \in Earlier(log, type, id, i)
BY DEF Earlier

\* The causes of each of the exchange's events are in the trace before it.
LEMMA PersistCauses ==
  ASSUME RecorderBooks, NEW kept \in Nat, Persist(kept)
  PROVE  CausesAreTrue'
<1> DEFINE s == Len(trace)
           k == Firsts
           id == IdOf(Ending)
           new(j) == trace'[s + j]
<1>1. /\ Recorder /\ Ending \in Entry /\ s \in Nat /\ DOMAIN trace = 1..s /\ trace \in Seq(Line)
      /\ Grown(trace, trace') /\ Len(trace') = s + kept /\ turn \in Nat /\ k \in Nat
  BY PersistGrows, RecorderFields, DeriveIs DEF Firsts
<1>2. /\ \A i \in 1..s : trace'[i] = trace[i]
      /\ \A i \in 1..(s + kept) : i \in 1..s \/ \E j \in 1..kept : i = s + j
  BY PersistGrows
<1>3. \A j \in 1..kept :
        /\ new(j).type \in Derivable /\ new(j).turn = turn + 1
        /\ \/ /\ j \in 1..k /\ new(j).type = "tool.result" /\ IdOf(new(j)) = ResultAt(Ending, j)
              /\ new(j).causes = {pending[IdOf(new(j))]} \ {0}
           \/ /\ j = k + 1 /\ new(j).type = "model.request" /\ IdOf(new(j)) = id
              /\ new(j).causes = {s + i : i \in 1..k}
           \/ /\ j = k + 2 /\ new(j).type = "model.response" /\ IdOf(new(j)) = id
              /\ new(j).causes = {s + k + 1}
           \/ /\ j = k + 3 /\ new(j).type = "tool.call" /\ IdOf(new(j)) = id
              /\ new(j).causes = {s + k + 2}
  BY AppendedIs
<1>4. \A i \in 1..s : trace[i].turn \in Nat /\ trace[i].turn <= turn /\ trace[i].turn # turn + 1
  <2>1. \A i \in 1..s : trace[i].turn \in Nat /\ trace[i].turn <= turn
    BY <1>1, EntriesAre DEF RecorderBooks, InTurn
  <2> QED
    BY <1>1, <2>1
<1>5. /\ \A t \in Tool : pending[t] # 0 =>
           /\ pending[t] \in 1..s /\ trace[pending[t]].type = "tool.call"
           /\ IdOf(trace[pending[t]]) = t
      /\ \A i \in 1..s : trace[i].type = "tool.call" =>
           IdOf(trace[i]) \in Tool /\ pending[IdOf(trace[i])] = i
      /\ \A i \in 1..s : trace[i].type = "tool.result" => IdOf(trace[i]) \in closed
  BY <1>1 DEF RecorderBooks, Called, Returned
<1>6. /\ \A j \in 1..k : /\ ResultAt(Ending, j) \in Tool /\ ResultAt(Ending, j) \notin closed
      /\ \A i, j \in 1..k : ResultAt(Ending, i) = ResultAt(Ending, j) => i = j
  <2>1. Ending.lane \in Lanes /\ Ending.n \in 1..Depth /\ Depth \in Nat
    BY <1>1, RecorderFields DEF Entry
  <2>2. Fresh(Ending) \subseteq Tool \ closed
    BY <2>1 DEF Fresh, Carried, Tool
  <2> QED
    BY <1>1, <2>2, ResultsAre DEF Firsts
<1>7. \A i \in 1..s : CauseTrue(trace, i)
  BY <1>1, CausesAre, CausesTrueIs DEF RecorderBooks
<1>8. \A i \in 1..s : CauseTrue(trace', i)
  BY <1>1, <1>7, CauseStaysTrue
<1> HIDE DEF s, k, id, new
\* Before one of them is what the trace had, and those of the exchange that came first.
<1>9. ASSUME NEW j \in 1..kept, NEW i \in 1..((s + j) - 1)
      PROVE  /\ i \in 1..s /\ trace'[i] = trace[i]
             \/ \E h \in 1..kept : h < j /\ i = s + h /\ trace'[i] = new(h)
  <2>1. i \in 1..(s + kept)
    BY <1>1
  <2>2. CASE i \in 1..s
    BY <1>2, <2>2
  <2>3. ASSUME NEW h \in 1..kept, i = s + h
        PROVE  h < j /\ i = s + h /\ trace'[i] = new(h)
    BY <1>1, <2>3 DEF new, s
  <2> QED
    BY <1>2, <2>1, <2>2, <2>3
<1>10. ASSUME NEW j \in 1..kept, NEW h \in 1..kept, h < j
       PROVE  s + h \in 1..((s + j) - 1) /\ trace'[s + h] = new(h)
  BY <1>1, <1>10 DEF new, s
<1>11. \A j \in 1..kept : \A i \in 1..s : i \in 1..((s + j) - 1)
  BY <1>1
<1>12. ASSUME NEW m \in 1..kept PROVE CauseTrue(trace', s + m)
  <2> DEFINE e == new(m)
  <2>0. trace'[s + m] = e
    BY DEF new, s
  <2>1. CASE m \in 1..k
    <3> DEFINE t == IdOf(e)
    <3>1. /\ e.type = "tool.result" /\ t = ResultAt(Ending, m) /\ e.causes = {pending[t]} \ {0}
          /\ t \in Tool /\ t \notin closed
      BY <1>1, <1>3, <1>6, <2>1
    <3> HIDE DEF e
    <3>2. \A h \in 1..kept : h < m => new(h).type = "tool.result" /\ IdOf(new(h)) # t
      <4> SUFFICES ASSUME NEW h \in 1..kept, h < m
                   PROVE  new(h).type = "tool.result" /\ IdOf(new(h)) # t
        OBVIOUS
      <4>1. h \in 1..k /\ h # m
        BY <1>1, <2>1
      <4>2. new(h).type = "tool.result" /\ IdOf(new(h)) = ResultAt(Ending, h)
        BY <1>1, <1>3, <4>1
      <4> QED
        BY <1>6, <2>1, <3>1, <4>1, <4>2
    <3>3. Earlier(trace', "tool.result", t, s + m) = {}
      BY <1>5, <1>9, <3>1, <3>2 DEF Earlier
    <3>4. Earlier(trace', "tool.call", t, s + m) = {pending[t]} \ {0}
      <4>1. ASSUME NEW i \in Earlier(trace', "tool.call", t, s + m) PROVE i = pending[t] /\ i # 0
        <5>1. i \in 1..((s + m) - 1) /\ trace'[i].type = "tool.call" /\ IdOf(trace'[i]) = t
          BY DEF Earlier
        <5>2. i \in 1..s /\ trace'[i] = trace[i]
          BY <1>9, <3>2, <5>1
        <5>3. i # 0
          BY <1>1, <5>2
        <5> QED
          BY <1>5, <5>1, <5>2, <5>3
      <4>2. ASSUME pending[t] # 0 PROVE pending[t] \in Earlier(trace', "tool.call", t, s + m)
        <5> DEFINE c == pending[t]
        <5>1. c \in 1..s /\ trace[c].type = "tool.call" /\ IdOf(trace[c]) = t
          BY <1>5, <3>1, <4>2
        <5>2. c \in 1..((s + m) - 1) /\ trace'[c] = trace[c]
          BY <1>2, <1>11, <5>1
        <5> HIDE DEF c
        <5>3. c \in Earlier(trace', "tool.call", t, s + m)
          BY <5>1, <5>2, EarlierHas
        <5> QED
          BY <5>3 DEF c
      <4> QED
        BY <4>1, <4>2
    <3> QED
      BY <2>0, <3>1, <3>3, <3>4 DEF CauseTrue
  <2>2. CASE m = k + 1
    <3>1. e.type = "model.request" /\ e.causes = {s + i : i \in 1..k} /\ e.turn = turn + 1
      <4>1. m \notin 1..k /\ m # k + 2 /\ m # k + 3
        BY <1>1, <2>2
      <4> QED
        BY <1>3, <2>2, <4>1
    <3> HIDE DEF e
    <3>2. {i \in 1..((s + m) - 1) : trace'[i].type = "tool.result" /\ trace'[i].turn = turn + 1}
            = {s + i : i \in 1..k}
      <4>1. ASSUME NEW i \in 1..((s + m) - 1), trace'[i].type = "tool.result",
                   trace'[i].turn = turn + 1
            PROVE  \E h \in 1..k : i = s + h
        <5>1. PICK h \in 1..kept : h < m /\ i = s + h
          BY <1>4, <1>9, <4>1
        <5>2. h \in 1..k
          BY <1>1, <2>2, <5>1
        <5> QED
          BY <5>1, <5>2
      <4>2. ASSUME NEW h \in 1..k
            PROVE  /\ s + h \in 1..((s + m) - 1)
                   /\ trace'[s + h].type = "tool.result" /\ trace'[s + h].turn = turn + 1
        <5>1. h \in 1..kept /\ h < m
          BY <1>1, <2>2
        <5>2. new(h).type = "tool.result" /\ new(h).turn = turn + 1
          BY <1>1, <1>3, <5>1
        <5> QED
          BY <1>10, <5>1, <5>2
      <4> QED
        BY <4>1, <4>2
    <3> QED
      BY <2>0, <3>1, <3>2 DEF CauseTrue
  <2>3. CASE m = k + 2
    <3>1. /\ e.type = "model.response" /\ e.causes = {s + k + 1}
          /\ e.turn = turn + 1 /\ IdOf(e) = id
      BY <1>1, <1>3, <2>3
    <3> HIDE DEF e
    <3>2. k + 1 \in 1..kept /\ k + 1 < m /\ s + (k + 1) = s + k + 1
      BY <1>1, <2>3
    <3>3. /\ new(k + 1).type = "model.request" /\ IdOf(new(k + 1)) = id
          /\ new(k + 1).turn = turn + 1
      BY <1>1, <1>3, <3>2
    <3> DEFINE c == s + k + 1
    <3>4. c \in 1..((s + m) - 1) /\ trace'[c] = new(k + 1)
      BY <1>10, <3>2
    <3> HIDE DEF c
    <3>5. c \in Earlier(trace', "model.request", id, s + m) /\ trace'[c].turn = turn + 1
      BY <3>3, <3>4, EarlierHas
    <3>6. Cardinality({c}) = 1 /\ e.causes = {c}
      BY <3>1, FS_Singleton DEF c
    <3> QED
      BY <2>0, <3>1, <3>5, <3>6 DEF CauseTrue
  <2>4. CASE m = k + 3
    <3>1. e.type = "tool.call" /\ e.causes = {s + k + 2} /\ IdOf(e) = id
      BY <1>1, <1>3, <2>4
    <3> HIDE DEF e
    <3>2. k + 2 \in 1..kept /\ k + 2 < m /\ s + (k + 2) = s + k + 2
      BY <1>1, <2>4
    <3>3. new(k + 2).type = "model.response" /\ IdOf(new(k + 2)) = id
      BY <1>1, <1>3, <3>2
    <3> DEFINE c == s + k + 2
    <3>4. c \in 1..((s + m) - 1) /\ trace'[c] = new(k + 2)
      BY <1>10, <3>2
    <3> HIDE DEF c
    <3>5. c \in Earlier(trace', "model.response", id, s + m)
      BY <3>3, <3>4, EarlierHas
    <3>6. e.causes = {c}
      BY <3>1 DEF c
    <3> QED
      BY <2>0, <3>1, <3>5, <3>6 DEF CauseTrue
  <2> QED
    BY <1>3, <2>1, <2>2, <2>3, <2>4
<1>13. \A i \in 1..(s + kept) : CauseTrue(trace', i)
  BY <1>2, <1>8, <1>12
<1>14. CausesTrue(trace')
  BY <1>1, <1>13, CausesTrueIs DEF Grown
<1> QED
  BY <1>14, CausesAre

LEMMA PersistKeeps ==
  ASSUME RecorderBooks, NEW kept \in Nat, Persist(kept)
  PROVE  RecorderBooks'
BY PersistRecorder, PersistAsked, PersistLooked, PersistCompared, PersistAnswers, PersistCalled,
   PersistReturned, PersistCauses DEF RecorderBooks


-----------------------------------------------------------------------------
(* A snapshot that is taken, and the theorem. *)

LEMMA DroppedKeeps ==
  ASSUME RecorderBooks, snap # NoSnap, snap' = NoSnap, fs' = snap.tree, told' \in BOOLEAN, dropped',
         trouble' \in 0..MaxTrouble, dropped' \in BOOLEAN,
         UNCHANGED <<trace, work, lane, edits, queue, noted, turn, pending, closed>>
  PROVE  RecorderBooks'
<1>0. Recorder
  BY DEF RecorderBooks
<1>1. snap.tree \in Work /\ NoSnap \in Look
  BY <1>0, RecorderFields, LooksAre
<1>2. Recorder'
  BY <1>0, <1>1 DEF Recorder, CheckTypeOK, Look
<1>3. Asked'
  BY AskedStays DEF RecorderBooks, Asked
<1>4. Answers' /\ Called'
  BY DEF RecorderBooks, Answers, Called, ToCome
<1>5. Looked'
  BY DEF RecorderBooks, Looked, IsSnapshot, IsRequest
<1>6. InTurn' /\ Returned'
  BY DEF RecorderBooks, InTurn, Returned
<1>7. Compared' /\ ChangesAddUp'
  BY SnapshotBooks
<1>8. CausesAreTrue'
  BY CausesAre DEF RecorderBooks
<1> QED
  BY <1>2, <1>3, <1>4, <1>5, <1>6, <1>7, <1>8 DEF RecorderBooks

TakenLine ==
  [type |-> "fs.snapshot", lane |-> Nil, n |-> 0, turn |-> turn, causes |-> {},
   tree |-> snap.tree, changed |-> Diff(fs, snap.tree), asked |-> Nil]

LEMMA TakenIs ==
  ASSUME RecorderBooks, snap # NoSnap, snap.todo = {}, trace' = Append(trace, TakenLine)
  PROVE  LET s == Len(trace)
             e == trace'[s + 1]
         IN /\ Recorder /\ s \in Nat /\ DOMAIN trace = 1..s /\ trace \in Seq(Line)
            /\ Grown(trace, trace') /\ Len(trace') = s + 1 /\ DOMAIN trace' = 1..(s + 1)
            /\ \A i \in 1..s : trace'[i] = trace[i] /\ i \in 1..(s + 1)
            /\ \A i \in 1..(s + 1) : i \in 1..s \/ i = s + 1
            /\ e.type = "fs.snapshot" /\ e.turn = turn /\ e.tree = snap.tree
            /\ e.changed = Diff(fs, snap.tree)
<1> DEFINE s == Len(trace)
<1>1. /\ Recorder /\ s \in Nat /\ DOMAIN trace = 1..s /\ trace \in Seq(Line)
      /\ snap.tree \in Work /\ turn \in Nat
  BY EntriesAre, RecorderFields DEF RecorderBooks
<1>2. TakenLine \in Line
  <2> DEFINE changed == Diff(fs, snap.tree)
             none == {}
             held == snap.tree
  <2>1. changed \in SUBSET Files /\ none \in SUBSET Nat /\ held \in Work
    BY <1>1 DEF Diff
  <2>2. TakenLine = [type |-> "fs.snapshot", lane |-> Nil, n |-> 0, turn |-> turn, causes |-> none,
                     tree |-> held, changed |-> changed, asked |-> Nil]
    BY DEF TakenLine
  <2> HIDE DEF changed, none, held
  <2> QED
    BY ONLY <1>1, <2>1, <2>2 DEF Line
<1>3. /\ trace' \in Seq(Line) /\ Len(trace') = s + 1
      /\ \A i \in 1..s : trace'[i] = trace[i]
      /\ trace'[s + 1] = TakenLine
  BY <1>1, <1>2, AppendProperties
<1>4. DOMAIN trace' = 1..(s + 1)
  BY <1>3, LenProperties
<1>5. Grown(trace, trace')
  BY <1>1, <1>3 DEF Grown
<1>6. /\ TakenLine.type = "fs.snapshot" /\ TakenLine.turn = turn /\ TakenLine.tree = snap.tree
      /\ TakenLine.changed = Diff(fs, snap.tree)
  BY DEF TakenLine
<1> HIDE DEF s
<1>7. (\A i \in 1..s : i \in 1..(s + 1)) /\ \A i \in 1..(s + 1) : i \in 1..s \/ i = s + 1
  BY ONLY <1>1
<1> QED
  BY <1>1, <1>3, <1>4, <1>5, <1>6, <1>7 DEF s

LEMMA KeptKeeps ==
  ASSUME RecorderBooks, snap # NoSnap, snap.todo = {}, trace' = Append(trace, TakenLine),
         snap' = NoSnap, fs' = snap.tree, told' \in BOOLEAN, dropped' = dropped, trouble' = trouble,
         UNCHANGED <<work, lane, edits, queue, noted, turn, pending, closed>>
  PROVE  RecorderBooks'
<1> DEFINE s == Len(trace)
           e == trace'[s + 1]
<1>1. /\ Recorder /\ s \in Nat /\ DOMAIN trace = 1..s /\ trace \in Seq(Line)
      /\ Grown(trace, trace') /\ Len(trace') = s + 1 /\ DOMAIN trace' = 1..(s + 1)
      /\ snap.tree \in Work /\ turn \in Nat /\ fs \in Work \union {Nil}
  BY TakenIs, RecorderFields
<1>2. /\ \A i \in 1..s : trace'[i] = trace[i] /\ i \in 1..(s + 1)
      /\ \A i \in 1..(s + 1) : i \in 1..s \/ i = s + 1
  BY TakenIs
<1>3. /\ e.type = "fs.snapshot" /\ e.turn = turn /\ e.tree = snap.tree
      /\ e.changed = Diff(fs, snap.tree)
  BY TakenIs
<1> HIDE DEF e
<1>4. s \in 0..Len(trace) /\ s + 1 \in 1..(s + 1)
  BY <1>1
<1>5. \A i \in 1..s : trace[i].turn \in Nat /\ trace[i].turn <= turn
  BY <1>1, EntriesAre DEF RecorderBooks, InTurn
<1>6. Recorder'
  <2>1. NoSnap \in Look
    BY LooksAre
  <2> QED
    BY <1>1, <2>1 DEF Recorder, CheckTypeOK, Look, Grown
<1>7. Asked'
  <2>1. \A i \in 1..(s + 1) : trace'[i].type = "model.request" =>
          trace'[i].asked \in Work /\ Behind(trace'[i].asked, work, Files)
    BY <1>1, <1>2, <1>3 DEF RecorderBooks, Asked, IsRequest, e
  <2> QED
    BY <1>1, <2>1 DEF RecorderBooks, Asked, IsRequest
<1>8. InTurn'
  <2>1. \A i \in 1..(s + 1) : trace'[i].turn <= turn
    <3>1. e.turn <= turn
      BY <1>1, <1>3
    <3> QED
      BY <1>2, <1>5, <3>1 DEF e
  <2>2. ASSUME NEW i \in 1..(s + 1), NEW j \in 1..(s + 1), i <= j
        PROVE  trace'[i].turn <= trace'[j].turn
    <3>1. CASE j \in 1..s
      <4>1. i \in 1..s
        BY <1>1, <2>2, <3>1
      <4> QED
        BY <1>1, <1>2, <2>2, <3>1, <4>1 DEF RecorderBooks, InTurn
    <3>2. CASE j = s + 1
      BY <1>3, <2>1, <3>2 DEF e
    <3> QED
      BY <1>2, <3>1, <3>2
  <2> QED
    BY <1>1, <2>1, <2>2 DEF InTurn
<1>9. Looked'
  <2> SUFFICES ASSUME NEW k \in 1..(s + 1), IsSnapshot(k)'
               PROVE  /\ trace'[k].tree \in Work
                      /\ \A j \in 1..(k - 1) :
                           IsRequest(j)' => Behind(trace'[j].asked, trace'[k].tree, Files)
                      /\ \A j \in (k + 1)..(s + 1) :
                           ~ IsSnapshot(j)' => trace'[k].turn < trace'[j].turn
    BY <1>1 DEF Looked
  <2>1. \A j \in 1..(k - 1) : j \in 1..s /\ trace'[j] = trace[j]
    <3>1. \A j \in 1..(k - 1) : j \in 1..s
      BY <1>1
    <3> QED
      BY <1>2, <3>1
  <2>2. CASE k = s + 1
    <3>1. trace'[k].tree \in Work /\ trace'[k].tree = snap.tree
      BY <1>1, <1>3, <2>2 DEF e
    <3>2. \A j \in 1..(k - 1) : IsRequest(j)' => Behind(trace'[j].asked, snap.tree, Files)
      <4>1. \A j \in 1..s : IsRequest(j) => Behind(trace[j].asked, snap.tree, Files)
        <5>1. Files \ snap.todo = Files
          OBVIOUS
        <5> QED
          BY <1>1, <5>1 DEF RecorderBooks, Asked
      <4> QED
        BY <2>1, <4>1 DEF IsRequest
    <3>3. \A j \in (k + 1)..(s + 1) : FALSE
      BY <1>1, <2>2
    <3> QED
      BY <3>1, <3>2, <3>3
  <2>3. CASE k \in 1..s
    <3>1. trace'[k] = trace[k] /\ IsSnapshot(k)
      BY <1>2, <2>3 DEF IsSnapshot
    <3>2. /\ trace[k].tree \in Work
          /\ \A j \in 1..(k - 1) : IsRequest(j) => Behind(trace[j].asked, trace[k].tree, Files)
          /\ \A j \in (k + 1)..s : ~ IsSnapshot(j) => trace[k].turn < trace[j].turn
      BY <1>1, <2>3, <3>1 DEF RecorderBooks, Looked
    <3>3. ASSUME NEW j \in (k + 1)..(s + 1), ~ IsSnapshot(j)'
          PROVE  trace'[k].turn < trace'[j].turn
      <4>1. j # s + 1
        BY <1>3, <3>3 DEF IsSnapshot, e
      <4>2. j \in (k + 1)..s /\ j \in 1..s
        BY <1>1, <2>3, <4>1
      <4>3. trace'[j] = trace[j]
        BY <1>2, <4>2
      <4> QED
        BY <3>1, <3>2, <3>3, <4>2, <4>3 DEF IsSnapshot
    <3> QED
      BY <2>1, <3>1, <3>2, <3>3 DEF IsRequest
  <2> QED
    BY <1>2, <2>2, <2>3
\* What comes last in the trace now, and what it had last.
<1>10. /\ LastOf(Snapshots(trace', s + 1)) = s + 1
       /\ LastOf(Snapshots(trace', s)) = LastOf(Snapshots(trace, s))
       /\ LastOf(Snapshots(trace, s)) # 0 => LastTree(trace', s) = LastTree(trace, s)
  <2>1. /\ LastOf(Snapshots(trace', s)) = LastOf(Snapshots(trace, s))
        /\ LastOf(Snapshots(trace, s)) # 0 => LastTree(trace', s) = LastTree(trace, s)
    BY <1>1, <1>4, SnapshotsGrow
  <2>2. s + 1 \in Snapshots(trace', s + 1) /\ Snapshots(trace', s + 1) \in SUBSET (1..(s + 1))
    BY <1>3, <1>4 DEF Snapshots, e
  <2> DEFINE last == LastOf(Snapshots(trace', s + 1))
  <2>3. last \in 1..(s + 1) /\ s + 1 <= last
    <3>1. s + 1 \in Nat
      BY <1>1
    <3> QED
      BY <2>2, <3>1, LastOfIs
  <2> HIDE DEF last, s
  <2>4. last = s + 1
    BY <1>1, <2>3
  <2> QED
    BY <2>1, <2>4 DEF last
<1>11. LastTree(trace', s + 1) = snap.tree
  BY <1>3, <1>10 DEF LastTree, e
<1>12. LastIs(trace', fs')
  <2>1. s + 1 # 0 /\ Len(trace') = s + 1
    BY <1>1
  <2> HIDE DEF s
  <2> QED
    BY <1>10, <1>11, <2>1 DEF LastIs
<1>13. ASSUME LastIs(trace, fs), ChangesTrue(trace) PROVE ChangesTrue(trace')
  <2> DEFINE before == LastOf(Snapshots(trace, s))
  <2>1. fs = IF before = 0 THEN Nil ELSE LastTree(trace, s)
    BY <1>13 DEF LastIs
  <2>2. before # 0 => fs # Nil
    <3> SUFFICES ASSUME before # 0 PROVE fs # Nil
      OBVIOUS
    <3>1. Snapshots(trace, s) \in SUBSET (1..s)
      BY DEF Snapshots
    <3>2. before \in Snapshots(trace, s)
      BY <1>1, <3>1, LastOfIs
    <3>3. before \in DOMAIN trace /\ IsSnapshot(before)
      BY <1>1, <3>2 DEF Snapshots, IsSnapshot
    <3>4. trace[before].tree \in Work
      BY <3>3 DEF RecorderBooks, Looked
    <3> QED
      BY <2>1, <3>4, WorkIs DEF LastTree
  <2>3. ChangeTrue(trace', s + 1)
    <3>0. (s + 1) - 1 = s
      BY <1>1
    <3>1. CASE before = 0
      <4>1. e.changed = {}
        BY <1>3, <2>1, <3>1 DEF Diff
      <4> QED
        BY <1>10, <3>0, <3>1, <4>1 DEF ChangeTrue, e
    <3>2. CASE before # 0
      <4>1. e.changed = {p \in Files : fs[p] # snap.tree[p]}
        BY <1>3, <2>2, <3>2 DEF Diff
      <4>2. fs = LastTree(trace', s)
        BY <1>10, <2>1, <3>2
      <4> QED
        BY <1>10, <1>11, <3>0, <3>2, <4>1, <4>2 DEF ChangeTrue, e
    <3> QED
      BY <3>1, <3>2
  <2>4. ASSUME NEW i \in 1..s, trace'[i].type = "fs.snapshot" PROVE ChangeTrue(trace', i)
    <3>1. trace[i].type = "fs.snapshot"
      BY <1>2, <2>4
    <3>2. ChangeTrue(trace, i)
      BY <1>1, <1>13, <3>1 DEF ChangesTrue
    <3> QED
      BY <1>1, <3>1, <3>2, ChangeStaysTrue
  <2> QED
    BY <1>1, <1>2, <2>3, <2>4 DEF ChangesTrue
<1>14. Compared' /\ ChangesAddUp'
  BY <1>12, <1>13, SnapshotBooks DEF RecorderBooks
<1>15. CausesAreTrue'
  <2>1. \A i \in 1..s : CauseTrue(trace', i)
    <3>1. \A i \in 1..s : CauseTrue(trace, i)
      BY <1>1, CausesAre, CausesTrueIs DEF RecorderBooks
    <3> QED
      BY <1>1, <3>1, CauseStaysTrue
  <2>2. CauseTrue(trace', s + 1)
    BY <1>3 DEF CauseTrue, e
  <2>3. \A i \in 1..(s + 1) : CauseTrue(trace', i)
    BY <1>2, <2>1, <2>2
  <2>4. CausesTrue(trace')
    BY <1>1, <2>3, CausesTrueIs DEF Grown
  <2> QED
    BY <2>4, CausesAre
<1>16. Answers'
  BY DEF RecorderBooks, Answers
<1>17. Called'
  <2>1. \A t \in Tool : ToCome(t)' => ToCome(t)
    BY DEF ToCome
  <2>2. /\ \A t \in Tool : ToCome(t) => pending[t] = 0
        /\ \A t \in Tool : pending[t] # 0 =>
             /\ pending[t] \in 1..s /\ trace[pending[t]].type = "tool.call"
             /\ IdOf(trace[pending[t]]) = t
        /\ \A i \in 1..s : trace[i].type = "tool.call" =>
             IdOf(trace[i]) \in Tool /\ pending[IdOf(trace[i])] = i
    BY <1>1 DEF RecorderBooks, Called
  <2>3. \A i \in 1..(s + 1) : trace'[i].type = "tool.call" => i \in 1..s
    BY <1>2, <1>3 DEF e
  <2> HIDE DEF s
  <2> QED
    BY <1>1, <1>2, <2>1, <2>2, <2>3 DEF Called
<1>18. Returned'
  <2>1. \A i \in 1..(s + 1) : trace'[i].type = "tool.result" => i \in 1..s
    BY <1>2, <1>3 DEF e
  <2> QED
    BY <1>1, <1>2, <2>1 DEF RecorderBooks, Returned
<1> QED
  BY <1>6, <1>7, <1>8, <1>9, <1>14, <1>15, <1>16, <1>17, <1>18 DEF RecorderBooks

LEMMA SnapshotTakenKeeps ==
  ASSUME RecorderBooks, NEW kept \in BOOLEAN, SnapshotTaken(kept)
  PROVE  RecorderBooks'
<1>0. /\ told \in BOOLEAN /\ snap.fresh \in BOOLEAN /\ dropped \in BOOLEAN
      /\ trouble \in 0..MaxTrouble /\ MaxTrouble \in Nat
  BY RecorderFields, CheckpointsAssumption DEF RecorderBooks, Look, CheckpointsAssumption
<1>1. /\ snap # NoSnap /\ snap.todo = {} /\ snap' = NoSnap /\ fs' = snap.tree
      /\ told' = (told \/ snap.fresh) /\ (kept \/ trouble < MaxTrouble)
      /\ trouble' = (IF kept THEN trouble ELSE trouble + 1) /\ dropped' = (dropped \/ ~kept)
      /\ UNCHANGED <<work, lane, edits, queue, noted, turn, pending, closed>>
  BY DEF SnapshotTaken, agentVars, deriverVars
<1>2. told' \in BOOLEAN /\ dropped' \in BOOLEAN
  BY <1>0, <1>1
<1>3. CASE kept
  <2>1. trace' = Append(trace, TakenLine)
    BY <1>3 DEF SnapshotTaken, TakenLine
  <2>2. dropped' = dropped /\ trouble' = trouble
    BY <1>0, <1>1, <1>3
  <2> QED
    BY <1>1, <1>2, <2>1, <2>2, KeptKeeps
<1>4. CASE ~ kept
  <2>1. trace' = trace /\ dropped'
    BY <1>1, <1>4 DEF SnapshotTaken
  <2>2. trouble' \in 0..MaxTrouble
    BY <1>0, <1>1, <1>4
  <2> QED
    BY <1>1, <1>2, <2>1, <2>2, DroppedKeeps
<1> QED
  BY <1>3, <1>4


\* A checkpoint is in the turn its snapshot ended, so no request came in between.
LEMMA NothingIsBehind ==
  ASSUME Recorder, Looked, InTurn
  PROVE  NeverBehind
<1> DEFINE cps == CheckpointSeqs
<1>0. /\ Len(trace) \in Nat /\ DOMAIN trace = 1..Len(trace)
      /\ \A i \in 1..Len(trace) : trace[i].turn \in Nat
  BY EntriesAre
<1>1. ASSUME NEW target \in DOMAIN trace, SnapTo(cps, target) # 0
      PROVE  SnapTo(cps, target) \in cps
  <2> DEFINE S == {i \in cps : i <= target}
  <2>1. S \in SUBSET (1..Len(trace))
    BY <1>0 DEF CheckpointSeqs
  <2>2. SnapTo(cps, target) = LastOf(S)
    BY DEF SnapTo, LastOf
  <2>3. LastOf(S) # 0 => LastOf(S) \in S
    <3> HIDE DEF S
    <3> QED
      BY <1>0, <2>1, LastOfIs
  <2> QED
    BY <1>1, <2>2, <2>3
<1>2. ASSUME NEW i \in cps, NEW j \in 1..i, trace[j].type = "model.request"
      PROVE  \A p \in Files : TreeAt(i)[p] >= trace[j].asked[p]
  <2> DEFINE k == SnapshotAt(i)
  <2>1. i \in 1..Len(trace) /\ i \in Nat /\ j \in 1..Len(trace) /\ j <= i /\ k # 0
        /\ trace[k].turn = trace[i].turn /\ TreeAt(i) = trace[k].tree
    BY <1>0 DEF CheckpointSeqs, TreeAt
  <2>2. k \in 1..i /\ k \in 1..Len(trace) /\ IsSnapshot(k)
    <3>1. k = LastOf(Snapshots(trace, i)) /\ Snapshots(trace, i) \in SUBSET (1..i)
      BY SnapshotAtIs DEF Snapshots
    <3> HIDE DEF k
    <3>2. k \in Snapshots(trace, i)
      BY <2>1, <3>1, LastOfIs
    <3> QED
      BY <2>1, <3>2 DEF Snapshots, IsSnapshot
  <2>3. /\ trace[k].tree \in Work
        /\ \A h \in 1..(k - 1) : IsRequest(h) => Behind(trace[h].asked, trace[k].tree, Files)
        /\ \A h \in (k + 1)..Len(trace) : ~ IsSnapshot(h) => trace[k].turn < trace[h].turn
    BY <1>0, <2>2 DEF Looked
  <2> HIDE DEF k
  <2>4. IsRequest(j) /\ ~ IsSnapshot(j)
    BY <1>2 DEF IsRequest, IsSnapshot
  <2>5. j \in 1..(k - 1)
    <3>1. j # k
      BY <2>2, <2>4
    <3>2. ~ (j \in (k + 1)..Len(trace))
      <4> SUFFICES ASSUME j \in (k + 1)..Len(trace) PROVE FALSE
        OBVIOUS
      <4>1. trace[k].turn < trace[j].turn
        BY <2>3, <2>4
      <4>2. trace[j].turn <= trace[i].turn
        BY <1>0, <2>1 DEF InTurn
      <4>3. trace[k].turn \in Nat /\ trace[j].turn \in Nat
        BY <1>0, <2>1, <2>2
      <4> QED
        BY <2>1, <4>1, <4>2, <4>3
    <3> QED
      BY <1>0, <2>1, <2>2, <3>1, <3>2
  <2>6. Behind(trace[j].asked, trace[k].tree, Files)
    BY <2>3, <2>4, <2>5
  <2> QED
    BY <2>1, <2>6 DEF Behind
<1> QED
  BY <1>1, <1>2 DEF NeverBehind

LEMMA RecorderStarts == CheckInit => RecorderBooks
<1> SUFFICES ASSUME CheckInit PROVE RecorderBooks
  OBVIOUS
<1>0. /\ work = Blank /\ lane = [l \in Lanes |-> [n |-> 1, phase |-> "thinking", asked |-> Blank]]
      /\ queue = << >> /\ snap = Attempt(1) /\ fs = Nil
      /\ noted = FALSE /\ told = FALSE /\ turn = 0
      /\ pending = [t \in Tool |-> 0] /\ closed = {}
      /\ trace = << >> /\ dropped = FALSE
      /\ edits = 0 /\ trouble = 0
  BY DEF CheckInit
<1>1. Depth \in Nat \ {0} /\ Attempts \in Nat \ {0} /\ MaxEdits \in Nat /\ MaxTrouble \in Nat
      /\ 1 \in 1..(Depth + 1) /\ 1 \in 1..Attempts
  BY CheckpointsAssumption DEF CheckpointsAssumption
<1>2. Len(trace) = 0 /\ DOMAIN trace = {} /\ DOMAIN queue = {}
  BY <1>0
<1>3. lane \in [Lanes -> Conversation]
  BY <1>0, <1>1, WorkIs DEF Conversation
<1>4. snap \in Look
  BY <1>0, <1>1, LooksAre
<1>5. CheckTypeOK
  <2>1. work \in Work /\ fs \in Work \union {Nil}
    BY <1>0, WorkIs
  <2>2. pending \in [Tool -> Nat] /\ closed \subseteq Tool
    BY <1>0
  <2>3. edits \in 0..MaxEdits /\ trouble \in 0..MaxTrouble
    BY <1>0, <1>1
  <2> QED
    BY <1>0, <1>3, <1>4, <2>1, <2>2, <2>3 DEF CheckTypeOK, Conversation, Look
<1>6. Recorder
  <2>1. queue \in Seq(Entry) /\ trace \in Seq(Line)
    BY <1>0, EmptySeq
  <2>2. \A p \in Files : work[p] <= edits
    BY <1>0 DEF Blank
  <2> QED
    BY <1>0, <1>5, <2>1, <2>2 DEF Recorder
<1>7. Asked
  <2>1. Behind(Blank, work, Files)
    BY <1>0, WorkIs DEF Behind
  <2> QED
    BY <1>0, <1>2, <2>1 DEF Asked
<1>8. Looked /\ InTurn /\ Returned /\ CausesAreTrue
  BY <1>2 DEF Looked, InTurn, Returned, CausesAreTrue
<1>9. Compared /\ ChangesAddUp
  <2>1. LastOf(Snapshots(trace, 0)) = 0
    BY DEF LastOf, Snapshots
  <2>2. LastIs(trace, fs)
    BY <1>0, <1>2, <2>1 DEF LastIs
  <2>3. ChangesTrue(trace)
    BY <1>2 DEF ChangesTrue
  <2> QED
    BY <2>2, <2>3, SnapshotBooks
<1>10. Answers /\ Called
  BY <1>0, <1>2 DEF Answers, Called
<1> QED
  BY <1>6, <1>7, <1>8, <1>9, <1>10 DEF RecorderBooks

LEMMA RecorderStep == RecorderBooks /\ [CheckNext]_checkVars => RecorderBooks'
<1> SUFFICES ASSUME RecorderBooks, [CheckNext]_checkVars PROVE RecorderBooks'
  OBVIOUS
<1>1. ASSUME NEW p \in Files, Edit(p) \/ AddAll(p) \/ AddForced(p) PROVE RecorderBooks'
  BY <1>1, EditKeeps, AddAllKeeps, AddForcedKeeps
<1>2. ASSUME NEW l \in Lanes, Ask(l) PROVE RecorderBooks'
  BY <1>2, AskKeeps
<1>3. ASSUME NEW l \in Lanes, NEW ok \in BOOLEAN, Answered(l, ok) PROVE RecorderBooks'
  BY <1>3, AnsweredKeeps
<1>4. ASSUME NEW kept \in 0..(Depth + 2), Persist(kept) PROVE RecorderBooks'
  BY <1>4, PersistKeeps
<1>5. ASSUME NEW why, GitFails(why) PROVE RecorderBooks'
  BY <1>5, GitFailsKeeps
<1>6. ASSUME NEW kept \in BOOLEAN, SnapshotTaken(kept) PROVE RecorderBooks'
  BY <1>6, SnapshotTakenKeeps
<1>7. CASE UNCHANGED checkVars
  <2>1. UNCHANGED <<work, lane, queue, snap, fs, noted, told, turn, pending, closed, trace,
                    dropped, edits, trouble>>
    BY <1>7 DEF checkVars
  <2>2. Recorder'
    BY <2>1 DEF RecorderBooks, Recorder, CheckTypeOK
  <2>3. Asked' /\ Answers' /\ Called'
    BY <2>1 DEF RecorderBooks, Asked, IsRequest, Answers, Called, ToCome
  <2> QED
    BY <2>1, <2>2, <2>3, StillBooks DEF RecorderBooks
<1> QED
  BY <1>1, <1>2, <1>3, <1>4, <1>5, <1>6, <1>7 DEF CheckNext

\* The variables of a recorder hold what their fields hold.
THEOREM RecorderTypeCorrect == CheckSpec => []CheckTypeOK
<1>1. RecorderBooks => CheckTypeOK
  BY DEF RecorderBooks, Recorder
<1> QED
  BY RecorderStarts, RecorderStep, <1>1, PTL DEF CheckSpec

\* Whatever conversations, edits, failed snapshots and lost events a recording interleaves,
\* its trace says the truth: an event's causes are the events it came from, a fork starts at
\* no tree older than the conversation it resumes, and a snapshot's changes are against the
\* one before it.
THEOREM TracesAreTrue == CheckSpec => []TraceIsTrue
<1>1. RecorderBooks => TraceIsTrue
  BY NothingIsBehind DEF RecorderBooks, TraceIsTrue
<1> QED
  BY RecorderStarts, RecorderStep, <1>1, PTL DEF CheckSpec
=================================================================================
