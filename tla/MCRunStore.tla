----------------------------- MODULE MCRunStore -----------------------------
(***************************************************************************)
(* What becomes of recorded material on disk: the runs of a workspace and  *)
(* the commands that change them (RunStore), the text of one payload as it *)
(* is redacted, scrubbed and compared (Redactor), and a run on its way to  *)
(* another machine (RunExchange).  They share no state, so each behaviour  *)
(* moves one of the three models, and the others stay where they began.    *)
(***************************************************************************)
EXTENDS RunStore, Redactor, RunExchange, TLC

(* Three runs: the oldest holds material in its lines and blobs, the second *)
(* may descend from it, the newest is recorded while the others are worked on. *)

CONSTANTS plain, named, welded, dirtyA, dirtyB, clean, picture

MCContents == {plain, named, welded, dirtyA, dirtyB, clean, picture}
MCScrubbed ==
  [c \in MCContents |-> CASE c \in {named, welded} -> plain
                          [] c \in {dirtyA, dirtyB, picture} -> clean
                          [] OTHER -> c]
MCLine(text, ref) == [text |-> text, ref |-> ref]
MCRecordable == {MCLine(plain, clean)}

Directory(lines, orphans) ==
  [life |-> "here", manifest |-> TRUE, legible |-> TRUE, parent |-> None, named |-> "manifest",
   fork |-> FALSE, words |-> plain, lines |-> lines, blobs |-> Refs(lines) \union orphans, partial |-> {},
   sum |-> lines, aside |-> "clean", snapshots |-> "none", tree |-> "project"]
Unborn == [Directory(<<>>, {}) EXCEPT !.life = "unborn", !.sum = None, !.tree = "none"]

\* The second run: a recording of its own; an exact replay of the first, in a
\* project whose path looks like a scratch worktree; a fork.
Alone == Directory(<<MCLine(plain, clean)>>, {})
Replay == [Alone EXCEPT !.parent = 1, !.tree = "mistakable"]
Fork == [Replay EXCEPT !.fork = TRUE, !.tree = "scratch"]

\* The oldest run: material in a line, in a line that cannot be scrubbed, in
\* blobs that scrub to the same contents or to a blob already there, in the
\* manifest, in a partial write, beside the trace; a digest that never matched.
MCPairs ==
  {<<Directory(<<MCLine(plain, dirtyA), MCLine(named, dirtyB)>>, {}), Replay>>,
   <<[Directory(<<MCLine(welded, dirtyA), MCLine(plain, clean)>>, {}) EXCEPT !.partial = {dirtyB}],
     [Fork EXCEPT !.named = "event"]>>,
   <<[Directory(<<MCLine(plain, dirtyA)>>, {clean}) EXCEPT !.words = named, !.sum = <<>>],
     [Replay EXCEPT !.snapshots = "unreadable"]>>,
   <<[Directory(<<MCLine(plain, picture), MCLine(named, None)>>, {dirtyB}) EXCEPT !.sum = <<>>],
     [Alone EXCEPT !.words = welded]>>,
   <<[Directory(<<MCLine(named, None)>>, {}) EXCEPT !.aside = "holds"],
     [Fork EXCEPT !.legible = FALSE]>>,
   <<[Directory(<<MCLine(plain, dirtyB)>>, {}) EXCEPT !.snapshots = "holds"], Fork>>}
MCWorkspace(pair) == (1 :> pair[1]) @@ (2 :> pair[2]) @@ (3 :> Unborn)

\* Where a run is recorded beside a gc, or between two scrubs: the oldest run has a
\* fork, or a replay and a blob nothing refers to.
MCBeside ==
  {MCWorkspace(<<Directory(<<MCLine(plain, dirtyA)>>, {}),
                 [Fork EXCEPT !.named = "event", !.lines = <<MCLine(plain, None)>>,
                              !.blobs = {}]>>),
   MCWorkspace(<<Directory(<< >>, {dirtyB}),
                 [Replay EXCEPT !.lines = << >>, !.blobs = {}, !.sum = << >>]>>)}
MCHistories == {MCWorkspace(pair) : pair \in MCPairs} \union MCBeside

-----------------------------------------------------------------------------
\* Every text of up to three atoms, alone; and longer ones, alone and in pairs.
MCShort == UNION {[1..n -> {Ra, Rb, Word, Nl, Zw, Dot, Sk, Begin, End, Id, Quote}] : n \in 0..3}
MCLong ==
  {<<Sk, Ra, Zw, Rb>>, <<Sk, Ra, Rb, Zw, Word>>, <<Word, Zw, Sk, Ra, Rb>>, <<Zw, Ra, Rb, Zw>>,
   <<Nl, Sk, Ra, Rb>>, <<Ra, Rb, Nl, Sk, Ra, Zw, Rb>>,
   <<Id, Ra, Rb, Quote>>, <<Id, Sk, Ra, Rb, Quote>>, <<Id, Ra, Zw, Rb, Quote>>,
   <<Begin, Ra, Rb, End, Ra>>, <<Begin, Zw, Ra, Nl, Rb, End>>,
   <<Png, Slash, Iend>>, <<Png, Slash, Iend, Under, Ra, Rb>>, <<Dot, Png, Slash, Iend, Dot>>,
   <<Nl, Png, Slash, Iend>>, <<Png, Slash, Iend, Zw, Png, Slash, Iend>>,
   <<Marker, Ra, Rb>>, <<Marker, Sk, Ra, Rb>>, <<Marker, Sk, Ra, Zw, Rb>>}
Leaf(key, text) == [key |-> key, text |-> text]
MCPayloads ==
  {<< >>} \union {<<Leaf(key, t)>> : key \in {"id", "text"}, t \in MCShort \union MCLong}
  \union {<<Leaf("text", t), Leaf("text", u)>> : t, u \in MCLong}

-----------------------------------------------------------------------------
\* A blob the recording begins with, one that holds what scrub will remove, and
\* the one it becomes; and a trailer that counts to seven.
Blob(name) == <<"blobs", name>>
MCOrder ==
  <<Blob("a"), Blob("k"), Blob("z"), <<"events.jsonl">>, <<"fs", "o">>, <<"fs", "p">>,
    <<"manifest.json">>, <<"mcp-frames.jsonl">>, <<"redactions.json">>, <<"tls", "key">> >>
MCReferred ==
  "begun" :> {Blob("a")} @@ "raw" :> {Blob("a"), Blob("k")} @@ "scrubbed" :> {Blob("a"), Blob("z")}

VARIABLE part    \* what this behaviour is about: the runs with or without a recording

diskVars == <<part, storeVars, redactVars, exchangeVars>>

DiskInit ==
  /\ part \in {"runs", "recorded", "text", "exchange"}
  /\ StoreInit
  /\ part = "recorded" <=> run \in MCBeside
  /\ part \in {"text", "exchange"} => run = CHOOSE h \in Histories \ MCBeside : TRUE
  /\ ExchangeInit /\ (part = "exchange" \/ (theirs = Absent /\ writer = "recorder"))
  /\ RedactInit /\ (part = "text" \/ (payload = << >> /\ as = "object" /\ spilled))

DiskNext ==
  /\ UNCHANGED part
  /\ \/ part = "runs" /\ (ScrubNext \/ GcNext) /\ UNCHANGED <<redactVars, exchangeVars>>
     \/ part = "recorded" /\ StoreNext /\ UNCHANGED <<redactVars, exchangeVars>>
     \/ part = "text" /\ RedactNext /\ UNCHANGED <<storeVars, exchangeVars>>
     \/ part = "exchange" /\ ExchangeNext /\ UNCHANGED <<storeVars, redactVars>>
        /\ (push.step \notin {"start", "walk"} => mine' = mine)   \* it has been read

DiskSpec == DiskInit /\ [][DiskNext]_diskVars
=============================================================================
