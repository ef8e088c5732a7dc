----------------------------- MODULE MCWorkspace -----------------------------
(***************************************************************************)
(* The workspace around a run: put back to what the recording saw before   *)
(* its first turn (Checkout), looked at after every turn (Checkpoints), and*)
(* what a reader then says produced each change (CausalGraph).  Each starts*)
(* where the one before it is through, so each behaviour moves one of them *)
(* and the others stay where they began.                                   *)
(***************************************************************************)
EXTENDS Checkout, Checkpoints, CausalGraph, TLC

CONSTANTS mine, old, new, link, other, agent, subagent, report, code, npm

\* A directory with a file in it, a source file, the harness's own cache, and a
\* path that is ignored, sensitive or another repository.
dir == 1
file == 2
source == 3
cache == 4
local == 5
MCPaths == {dir, file, source, cache, local}
MCUnder == [p \in MCPaths |-> IF p = file THEN dir ELSE None]
MCContents == {mine, old, new, link, other}

Row(d, f, s, c, l) == (dir :> d) @@ (file :> f) @@ (source :> s) @@ (cache :> c) @@ (local :> l)
Plain == Row("tracked", "tracked", "tracked", "ignored", "ignored")
Local(kind) == [Plain EXCEPT ![local] = kind]

Base ==
  [ask |-> {}, home |-> TRUE, snapshots |-> "held", kind |-> Plain, roots |-> {cache},
   tree |-> Row(Absent, Absent, mine, mine, mine),
   trees |-> <<Row(Absent, old, old, old, Absent), Row(Absent, new, new, new, Absent)>>]

MCScenes ==
  {\* the directory is gone, or was never there before the run's second snapshot
   Base,
   [Base EXCEPT !.trees = <<Row(Absent, Absent, old, Absent, Absent), Row(Absent, new, old, new, Absent)>>],
   \* a file, or a link, stands where the recording has the directory
   [Base EXCEPT !.tree = Row(mine, Absent, mine, Absent, Absent)],
   [Base EXCEPT !.tree = Row(link, Absent, Absent, mine, mine)],
   \* the recording has a file where the directory stands now
   [Base EXCEPT !.tree = Row(Dir, mine, Absent, mine, mine),
                !.trees = <<Row(old, Absent, old, old, Absent), Row(Absent, new, old, old, Absent)>>],
   [Base EXCEPT !.tree = Row(Dir, mine, mine, mine, mine),
                !.trees = <<Row(Absent, old, old, Absent, Absent)>>],
   \* recorded and ignored since: overwritten by the restore, or by the agent
   [Base EXCEPT !.trees = <<Row(Absent, old, old, old, old)>>],
   [Base EXCEPT !.trees = <<Row(Absent, old, old, old, Absent), Row(Absent, old, old, old, new)>>],
   \* the harness keeps its files in the directory, which the reset removes
   [Base EXCEPT !.tree = Row(Dir, mine, mine, Absent, mine), !.roots = {dir},
                !.kind = [Plain EXCEPT ![file] = "ignored"],
                !.trees = <<Row(Absent, old, old, Absent, Absent)>>],
   \* a file the agent makes a directory of
   [Base EXCEPT !.tree = Row(Absent, Absent, mine, mine, mine),
                !.trees = <<Row(old, Absent, old, Absent, Absent), Row(Absent, new, old, Absent, Absent)>>],
   \* in the reset's way: a credential, a nested repository the recording has or not
   [Base EXCEPT !.kind = Local("sensitive"), !.roots = {cache, local}],
   [Base EXCEPT !.kind = Local("nested"), !.roots = {cache, local}],
   [Base EXCEPT !.kind = Local("nested"), !.roots = {cache, local},
                !.trees = <<Row(Absent, old, old, old, Gitlink)>>],
   [Base EXCEPT !.kind = Local("nested"),
                !.trees = <<Row(Absent, old, old, old, Gitlink)>>]}
  \union {[Base EXCEPT !.ask = a, !.home = h, !.snapshots = s] :
            a \in SUBSET {"worktree", "in-place"}, h \in BOOLEAN,
            s \in {"none", "dropped", "held"}}
MCWritten == {other, link}

-----------------------------------------------------------------------------
\* Two conversations over two files, one of them a declared artifact.
Conversations == Permutations(Lanes)

\* A conversation may edit the file, run a command, edit the file beside a call that
\* only names it, or delegate.
MCWishes ==
  LET call(does, what) == [does |-> does, what |-> what] IN
  {{}, {call("edit", code)}, {call("run", npm)}, {call("edit", code), call("name", code)},
   {call("delegate", "subagent")}}

VARIABLE part    \* which of the three this behaviour is about

workspaceVars == <<part, checkoutVars, checkVars, graphVars>>

WorkspaceInit ==
  /\ part \in {"checkout", "checkpoints", "graph"}
  /\ CheckoutInit /\ CheckInit /\ GraphInit
  /\ part = "checkout" \/ scene = Base

WorkspaceNext ==
  /\ UNCHANGED part
  /\ \/ part = "checkout" /\ CheckoutNext /\ UNCHANGED <<checkVars, graphVars>>
     \/ part = "checkpoints" /\ CheckNext /\ UNCHANGED <<checkoutVars, graphVars>>
     \/ part = "graph" /\ GraphNext /\ UNCHANGED <<checkoutVars, checkVars>>

WorkspaceSpec == WorkspaceInit /\ [][WorkspaceNext]_workspaceVars
=============================================================================
